------------------------ MODULE RecoveryWorkerProofs ------------------------
(***************************************************************************)
(* Proofs about the recovery workers, for any number of workers and orders,*)
(* any lease, skew of the clocks and number of faults.  Every step of the  *)
(* workers is a step or a stutter of the order store, so what is proved of *)
(* the store holds for them; WInv adds what ties the rows to the provider  *)
(* and the claims in memory to the rows.                                   *)
(*                                                                         *)
(* The last part proves how long a lease must be for a worker never to     *)
(* lose a claim of its batch: BatchCovered counts the provider calls that  *)
(* are left in the cycle against what is left of the lease.                *)
(***************************************************************************)
EXTENDS RecoveryWorker, OrderStoreProofs, FiniteSetTheorems

(* The provider knows every order that has a row. *)
ProviderKnows == \A o \in Orders : rows[o].state # "absent" => provider[o] # "none"

(* A claim in memory carries the deadline of its row. *)
DeadlinesKept ==
    \A w \in Workers : \A c \in held[w] : c.deadline = rows[c.order].deadline

WInv ==
    /\ IInv
    /\ WTypeOK
    /\ DOMAIN checking = Workers
    /\ now \in Time
    /\ ProviderKnows
    /\ DeadlinesKept
    /\ OutcomeIsAuthoritative
    /\ ExpiredOnlyAfterDeadline

-----------------------------------------------------------------------------
(* What a step may do to a row and to the claims in memory. *)

(* The states a worker may write under a claim of order o. *)
Justified(o, s) ==
    \/ s \in Open
    \/ s = "received" /\ provider[o] = "received"
    \/ s = "terminated" /\ (Prose \/ provider[o] = "terminated")
    \/ s = "expired" /\ now + Skew >= rows[o].deadline

RowMoves(o) ==
    \/ rows'[o].state = rows[o].state /\ rows'[o].deadline = rows[o].deadline
    \/ /\ rows[o].state = "absent" /\ rows'[o].state = "polling"
       /\ provider[o] # "none"
    \/ /\ rows[o].state # "absent" /\ Justified(o, rows'[o].state)
       /\ rows'[o].deadline = rows[o].deadline

HeldMoves ==
    \A w \in Workers : \A c \in held'[w] :
        \/ \E d \in held[w] : c.order = d.order /\ c.deadline = d.deadline
        \/ /\ c.order \in Orders /\ rows[c.order].state # "absent"
           /\ c.deadline = rows[c.order].deadline

Moves == (\A o \in Orders : RowMoves(o)) /\ HeldMoves

(* A step that leaves the table and the claims alone. *)
LEMMA StillMoves == ASSUME UNCHANGED <<rows, held>> PROVE Moves
BY DEF Moves, RowMoves, HeldMoves

(* Crashes and the end of a cycle only forget claims. *)
LEMMA DropMoves == ASSUME WInv, NEW w \in Workers, DropClaims(w) PROVE Moves
<1>1. UNCHANGED rows /\ held' = [held EXCEPT ![w] = {}]
  BY DEF DropClaims
<1>2. \A v \in Workers : held'[v] \subseteq held[v]
  BY <1>1 DEF WInv, WTypeOK, TypeOK
<1> QED BY <1>1, <1>2 DEF Moves, RowMoves, HeldMoves

(* Claiming does not touch the states and deadlines of rows. *)
LEMMA ClaimMoves ==
    ASSUME WInv, NEW w \in Workers, NEW S \in SUBSET Orders, NEW t,
           NEW acked \in BOOLEAN, ClaimDue(w, S, t, acked)
    PROVE  Moves
<1>1. rows \in [Orders -> Row] /\ held \in [Workers -> SUBSET Claim]
  BY DEF WInv, WTypeOK, TypeOK
<1>2. ASSUME NEW o \in Orders PROVE RowMoves(o)
  <2>1. rows'[o] = IF o \in S THEN Leased(w, o, t) ELSE rows[o]
    BY DEF ClaimDue
  <2> QED BY <1>1, <2>1 DEF RowMoves, Leased, Row, Columns
<1>3. HeldMoves
  <2> SUFFICES ASSUME NEW v \in Workers, NEW c \in held'[v], c \notin held[v]
               PROVE  /\ c.order \in Orders /\ rows[c.order].state # "absent"
                      /\ c.deadline = rows[c.order].deadline
    BY DEF HeldMoves
  <2>1. c \in {ClaimOf(o) : o \in S}
    BY <1>1 DEF ClaimDue
  <2>2. PICK o \in S : c = ClaimOf(o)
    BY <2>1
  <2>3. Due(o, t)
    BY DEF ClaimDue
  <2> QED BY <2>2, <2>3 DEF ClaimOf, Due, Open
<1> QED BY <1>2, <1>3 DEF Moves

(* Recording a purchase opens a row or links one. *)
LEMMA PersistMoves ==
    ASSUME WInv, NEW o \in Orders, NEW i \in Intents, NEW t \in Readings, Persist(o, i, t)
    PROVE  Moves
<1>1. rows' = [rows EXCEPT ![o] = Bound(o, i, t + Life, t)] /\ UNCHANGED held
      /\ provider[o] # "none"
  BY DEF Persist, RecordPurchaseForIntent
<1>2. rows \in [Orders -> Row]
  BY DEF WInv, WTypeOK, TypeOK
<1>3. ASSUME NEW p \in Orders PROVE RowMoves(p)
  <2>1. CASE p # o
    BY <1>1, <1>2, <2>1 DEF RowMoves
  <2>2. CASE p = o
    <3>1. rows'[o] = Bound(o, i, t + Life, t)
      BY <1>1, <1>2
    <3> QED BY <1>1, <1>2, <2>2, <3>1 DEF RowMoves, Bound, NewRow, Row, Columns
  <2> QED BY <2>1, <2>2
<1> QED BY <1>1, <1>3 DEF Moves, HeldMoves

(* A reconciliation mark only moves a row from polling to reconciliation. *)
LEMMA MarkMoves == ASSUME WInv, NEW o \in Orders, Mark(o) PROVE Moves
<1>1. rows' = [rows EXCEPT ![o].state = "reconcile_only"] /\ UNCHANGED held
      /\ rows[o].state = "polling"
  BY DEF Mark, MarkReconcileOnly
<1>2. rows \in [Orders -> Row]
  BY DEF WInv, WTypeOK, TypeOK
<1>3. ASSUME NEW p \in Orders PROVE RowMoves(p)
  BY <1>1, <1>2 DEF RowMoves, Justified, Open, Row, Columns
<1> QED BY <1>1, <1>3 DEF Moves, HeldMoves

(* A write under a claim. *)
LEMMA WriteMoves ==
    ASSUME WInv, NEW w \in Workers, NEW c, NEW s, NEW n, NEW acked \in BOOLEAN,
           UpdateClaim(w, c, s, n, acked), Justified(c.order, s)
    PROVE  Moves
<1>1. rows \in [Orders -> Row] /\ held \in [Workers -> SUBSET Claim]
  BY DEF WInv, WTypeOK, TypeOK
<1>2. c \in held[w] /\ c \in Claim /\ c.order \in Orders /\ rows[c.order].state # "absent"
  BY <1>1 DEF UpdateClaim, Claim, WInv, IInv, ClaimsNotAhead
<1>3. rows' = [rows EXCEPT ![c.order] = Released(c, s, n)]
  BY DEF UpdateClaim
<1>4. ASSUME NEW o \in Orders PROVE RowMoves(o)
  <2>1. CASE o # c.order
    BY <1>1, <1>3, <2>1 DEF RowMoves
  <2>2. CASE o = c.order
    <3>1. rows'[o] = Released(c, s, n)
      BY <1>1, <1>3, <2>2
    <3>2. rows'[o].state = s /\ rows'[o].deadline = rows[o].deadline
      BY <1>1, <2>2, <3>1 DEF Released, Row, Columns
    <3> QED BY <1>2, <2>2, <3>2 DEF RowMoves
  <2> QED BY <2>1, <2>2
<1>5. HeldMoves
  <2> SUFFICES ASSUME NEW v \in Workers, NEW d \in held'[v], d \notin held[v]
               PROVE  \E b \in held[v] : d.order = b.order /\ d.deadline = b.deadline
    BY DEF HeldMoves
  <2>1. v = w /\ d = [c EXCEPT !.version = @ + 1, !.state = s]
    BY <1>1, <1>2 DEF UpdateClaim
  <2>2. d.order = c.order /\ d.deadline = c.deadline
    BY <1>2, <2>1 DEF Claim
  <2> QED BY <1>2, <2>1, <2>2
<1> QED BY <1>4, <1>5 DEF Moves

-----------------------------------------------------------------------------
(* What the workers write. *)

(* One of the store's writes, with a state that is justified. *)
Written(w) ==
    \E c \in held[w], n \in Time, acked \in BOOLEAN, s \in Open \cup Settled :
        /\ WriteStep(w, c, n, acked)
        /\ UpdateClaim(w, c, s, n, acked)
        /\ Justified(c.order, s)

(* The next poll is a time. *)
LEMMA NextPollType == ASSUME NEW t \in Time PROVE NextPoll(t) \in Time
BY WorkerAssumption, BoundsAssumption DEF NextPoll, Time

(* A reading of the clock is at most Skew off. *)
LEMMA ReadingsType ==
    ASSUME WInv, NEW t \in Readings
    PROVE  t \in Time /\ t \in Nat /\ now \in Nat /\ Skew \in Nat /\ t <= now + Skew
BY BoundsAssumption DEF WInv, WTypeOK, TypeOK, Readings, Time

(* An expiry is a write under the worker's claim. *)
LEMMA ExpireWrites ==
    ASSUME WInv, NEW w \in Workers, NEW c, NEW t \in Readings, Expire(w, c, t)
    PROVE  UNCHANGED vars \/ Written(w)
<1>1. CASE UNCHANGED vars
  BY <1>1
<1>2. CASE \E acked \in BOOLEAN : RecordExpired(w, c, now, acked)
  <2>1. PICK acked \in BOOLEAN : RecordExpired(w, c, now, acked)
    BY <1>2
  <2>2. UpdateClaim(w, c, "expired", now, acked) /\ c \in held[w]
    BY <2>1 DEF RecordExpired, UpdateClaim
  <2>3. c.deadline = rows[c.order].deadline /\ c \in Claim
    BY <2>2 DEF WInv, DeadlinesKept, WTypeOK, TypeOK
  <2>4. c.deadline \in Nat /\ t >= c.deadline
    BY <2>3 DEF Claim, Expire, PastDeadline
  <2>5. Justified(c.order, "expired")
    BY <2>3, <2>4, ReadingsType DEF Justified
  <2>6. now \in Time /\ WriteStep(w, c, now, acked)
    BY <2>1 DEF WInv, WriteStep
  <2> QED BY <2>2, <2>5, <2>6 DEF Written, Settled
<1> QED BY <1>1, <1>2 DEF Expire, NotWritten

(* A pending answer is written under the worker's claim. *)
LEMMA StillPendingWrites ==
    ASSUME WInv, NEW w \in Workers, NEW c, NEW t \in Readings, StillPending(w, c, t)
    PROVE  UNCHANGED vars \/ Written(w)
<1>1. CASE UNCHANGED vars
  BY <1>1
<1>2. CASE \E acked \in BOOLEAN : RecordPending(w, c, NextPoll(t), acked)
  <2>1. PICK acked \in BOOLEAN : RecordPending(w, c, NextPoll(t), acked)
    BY <1>2
  <2>2. UpdateClaim(w, c, "polling", NextPoll(t), acked) /\ c \in held[w]
    BY <2>1 DEF RecordPending, UpdateClaim
  <2>3. Justified(c.order, "polling")
    BY DEF Justified, Open
  <2>4. NextPoll(t) \in Time /\ WriteStep(w, c, NextPoll(t), acked)
    BY <2>1, NextPollType, ReadingsType DEF WriteStep
  <2> QED BY <2>2, <2>3, <2>4 DEF Written, Open
<1> QED BY <1>1, <1>2 DEF StillPending, NotWritten

(* What sms.check makes of a document is what the provider decided, unless a *)
(* message comes with a pending order (SmsCheck::deserialize).               *)
LEMMA AnswerIsReal ==
    ASSUME NEW o \in Orders, NEW answer \in CheckResults(o)
    PROVE  /\ answer = "received" => provider[o] \notin {"none", "pending", "terminated"}
           /\ answer = "terminated" =>
                 provider[o] # "received" /\ (provider[o] = "pending" => Prose)
<1>1. CASE answer = "failed"
  BY <1>1
<1>2. CASE \E d \in CheckDocuments(provider[o], Prose) : answer = SmsCheck(d)
  <2>1. PICK d \in CheckDocuments(provider[o], Prose) : answer = SmsCheck(d)
    BY <1>2
  <2>2. /\ provider[o] # "received" => ~HasText(d)
        /\ provider[o] = "received" /\ Readable(d) => HasText(d)
        /\ provider[o] = "pending" /\ ~Prose => ~d.message
    BY DEF CheckDocuments
  <2>3. /\ answer = "received" => HasText(d)
        /\ answer = "terminated" => Readable(d) /\ ~HasText(d) /\ d.message
    <3>1. CASE ~Readable(d)
      BY <2>1, <3>1 DEF SmsCheck
    <3>2. CASE Readable(d) /\ HasText(d)
      BY <2>1, <3>2 DEF SmsCheck
    <3>3. CASE Readable(d) /\ ~HasText(d) /\ d.message
      BY <2>1, <3>3 DEF SmsCheck
    <3>4. CASE Readable(d) /\ ~HasText(d) /\ ~d.message
      BY <2>1, <3>4 DEF SmsCheck
    <3> QED BY <3>1, <3>2, <3>3, <3>4
  <2> QED BY <2>2, <2>3
<1> QED BY <1>1, <1>2 DEF CheckResults

(* Any other answer is written under the worker's claim. *)
LEMMA CheckedWrites ==
    ASSUME WInv, NEW w \in Workers, Checked(w)
    PROVE  UNCHANGED vars \/ Written(w)
<1> DEFINE c == checking[w].claim
           n == NextPoll(checking[w].at)
<1>1. pc[w] = "check" /\ checking[w].at \in Time /\ n \in Time
  BY NextPollType DEF Checked, WInv, WTypeOK
<1>2. CASE UNCHANGED vars
  BY <1>2
<1>3. CASE \E answer \in CheckResults(c.order) : Answer(w, c, checking[w].at, answer)
  <2>1. PICK answer \in CheckResults(c.order), acked \in BOOLEAN :
           \/ answer \in {"failed", "malformed"} /\ ReleaseForRetry(w, c, n, acked)
           \/ answer = "pending" /\ RecordPending(w, c, n, acked)
           \/ answer \in {"received", "terminated"} /\ RecordTerminal(w, c, answer, now, acked)
    BY <1>3 DEF Answer
  <2>2. c \in held[w]
    BY <2>1 DEF ReleaseForRetry, RecordPending, RecordTerminal, UpdateClaim
  <2>3. c \in Claim /\ c.order \in Orders /\ rows[c.order].state # "absent"
    BY <2>2 DEF WInv, WTypeOK, TypeOK, IInv, ClaimsNotAhead, Claim
  <2>4. provider[c.order] \in {"pending", "received", "terminated"}
    BY <2>3 DEF WInv, ProviderKnows, WTypeOK
  <2>5. CASE answer \in {"failed", "malformed"} /\ ReleaseForRetry(w, c, n, acked)
    <3>1. UpdateClaim(w, c, c.state, n, acked) /\ c.state \in Open
      BY <2>5 DEF ReleaseForRetry
    <3>2. Justified(c.order, c.state) /\ WriteStep(w, c, n, acked)
      BY <2>5, <3>1 DEF Justified, WriteStep
    <3> QED BY <1>1, <2>2, <3>1, <3>2 DEF Written
  <2>6. CASE answer = "pending" /\ RecordPending(w, c, n, acked)
    <3>1. UpdateClaim(w, c, "polling", n, acked)
      BY <2>6 DEF RecordPending
    <3>2. Justified(c.order, "polling") /\ WriteStep(w, c, n, acked)
      BY <2>6 DEF Justified, WriteStep, Open
    <3> QED BY <1>1, <2>2, <3>1, <3>2 DEF Written, Open
  <2>7. CASE answer \in {"received", "terminated"} /\ RecordTerminal(w, c, answer, now, acked)
    <3>1. UpdateClaim(w, c, answer, now, acked)
      BY <2>7 DEF RecordTerminal
    <3>2. Justified(c.order, answer)
      BY <2>3, <2>4, <2>7, AnswerIsReal DEF Justified
    <3>3. WriteStep(w, c, now, acked) /\ now \in Time
      BY <2>7 DEF WriteStep, WInv
    <3> QED BY <2>2, <2>7, <3>1, <3>2, <3>3 DEF Written, Settled
  <2> QED BY <2>1, <2>5, <2>6, <2>7
<1> QED BY <1>2, <1>3 DEF Checked, NotWritten

-----------------------------------------------------------------------------
(* Every step, seen from the store. *)

(* A step changes nothing of the store, or is one of these of its steps.     *)
StoreSteps ==
    \/ UNCHANGED vars
    \/ UNCHANGED <<rows, held>> /\ [Next]_vars
    \/ \E o \in Orders, i \in Intents, t \in Readings : Persist(o, i, t)
    \/ \E o \in Orders : Mark(o)
    \/ \E w \in Workers : Written(w)
    \/ \E w \in Workers : DropClaims(w)
    \/ \E w \in Workers, S \in SUBSET Orders, t \in Readings, acked \in BOOLEAN :
          ClaimDue(w, S, t, acked)

(* Every step is a step or a stutter of the store. *)
LEMMA StoreStepsTaken == ASSUME WInv, [WNext]_allVars PROVE StoreSteps
<1>1. CASE UNCHANGED allVars
  BY <1>1 DEF allVars, vars, StoreSteps
<1>2. CASE World
  <2>1. ASSUME NEW o \in Orders, NEW i \in Intents, Buy(o, i) PROVE StoreSteps
    <3>1. UNCHANGED <<rows, held>> /\ Next
      BY <2>1 DEF Buy, RecordPurchaseIntent, Next, LedgerStep
    <3> QED BY <3>1 DEF StoreSteps
  <2>2. ASSUME NEW o \in Orders, NEW s, Settle(o, s) PROVE StoreSteps
    BY <2>2 DEF Settle, StoreSteps
  <2> QED BY <1>2, <2>1, <2>2 DEF World, StoreSteps
<1>3. ASSUME NEW w \in Workers, Cycle(w) PROVE StoreSteps
  <2>1. ASSUME NEW S \in SUBSET Orders, NEW t \in Readings, ClaimBatch(w, S, t)
        PROVE  StoreSteps
    BY <2>1 DEF ClaimBatch, StoreSteps
  <2>2. CASE Snapshot(w)
    BY <2>2 DEF Snapshot, StoreSteps
  <2>3. ASSUME NEW c \in todo[w], NEW t \in Readings,
               Expire(w, c, t) \/ StillPending(w, c, t) \/ Check(w, c, t)
        PROVE  StoreSteps
    <3>1. CASE Check(w, c, t)
      BY <3>1 DEF Check, StoreSteps
    <3> QED BY <2>3, <3>1, ExpireWrites, StillPendingWrites DEF StoreSteps
  <2>4. CASE Checked(w)
    BY <2>4, CheckedWrites DEF StoreSteps
  <2>5. CASE EndCycle(w)
    BY <2>5 DEF EndCycle, StoreSteps
  <2> QED BY <1>3, <2>1, <2>2, <2>3, <2>4, <2>5 DEF Cycle
<1>4. ASSUME NEW w \in Workers, Crash(w) PROVE StoreSteps
  BY <1>4 DEF Crash, StoreSteps
<1>5. CASE Pass
  <2>1. UNCHANGED <<rows, held>> /\ Next
    BY <1>5 DEF Pass, Tick, Next
  <2> QED BY <2>1 DEF StoreSteps
<1> QED BY <1>1, <1>2, <1>3, <1>4, <1>5 DEF WNext

(* The workers do to the store what its specification allows.                *)
LEMMA StoreStep == ASSUME WInv, [WNext]_allVars PROVE [Next]_vars
<1>1. ASSUME NEW o \in Orders, NEW i \in Intents, NEW t \in Readings, Persist(o, i, t)
      PROVE  Next
  <2>1. t + Life \in Deadlines
    BY <1>1, DeadlinesAssumption, ReadingsType DEF Persist
  <2>2. RecordPurchaseForIntent(i, o, t + Life, t)
    BY <1>1 DEF Persist
  <2> QED BY <2>1, <2>2 DEF Next, LedgerStep
<1>2. ASSUME NEW o \in Orders, Mark(o) PROVE Next
  BY <1>2 DEF Mark, Next, PurchaseStep
<1>3. ASSUME NEW w \in Workers, Written(w) PROVE Next
  BY <1>3 DEF Written, Next, WorkerStep
<1>4. ASSUME NEW w \in Workers, DropClaims(w) PROVE Next
  BY <1>4 DEF Next, WorkerStep
<1>5. ASSUME NEW w \in Workers, NEW S \in SUBSET Orders, NEW t \in Readings,
             NEW acked \in BOOLEAN, ClaimDue(w, S, t, acked)
      PROVE  Next
  BY <1>5 DEF Next, WorkerStep
<1> QED BY <1>1, <1>2, <1>3, <1>4, <1>5, StoreStepsTaken DEF StoreSteps

(* Every step is one of the moves the invariant is proved for. *)
LEMMA StepMoves == ASSUME WInv, [WNext]_allVars PROVE Moves
<1>1. CASE UNCHANGED <<rows, held>>
  BY <1>1, StillMoves
<1>2. ASSUME NEW w \in Workers, Written(w) PROVE Moves
  BY <1>2, WriteMoves DEF Written
<1> QED BY <1>1, <1>2, StoreStepsTaken, PersistMoves, MarkMoves, DropMoves, ClaimMoves
        DEF StoreSteps, vars

-----------------------------------------------------------------------------
(* The provider decides once, and the clock only runs. *)
LEMMA ProviderMoves ==
    ASSUME WTypeOK, [WNext]_allVars, NEW o \in Orders
    PROVE  /\ provider'[o] \in {"none", "pending", "received", "terminated"}
           /\ provider[o] # "none" => provider'[o] # "none"
           /\ provider[o] \in {"received", "terminated"} => provider'[o] = provider[o]
<1>1. CASE UNCHANGED provider
  BY <1>1 DEF WTypeOK
<1>2. ASSUME NEW p \in Orders, NEW i \in Intents, Buy(p, i)
      PROVE  provider[p] = "none" /\ provider' = [provider EXCEPT ![p] = "pending"]
  BY <1>2 DEF Buy
<1>3. ASSUME NEW p \in Orders, NEW s \in {"received", "terminated"}, Settle(p, s)
      PROVE  provider[p] = "pending" /\ provider' = [provider EXCEPT ![p] = s]
  BY <1>3 DEF Settle
<1>4. \/ UNCHANGED provider
      \/ \E p \in Orders, i \in Intents : Buy(p, i)
      \/ \E p \in Orders, s \in {"received", "terminated"} : Settle(p, s)
  BY DEF WNext, World, Cycle, allVars, workerVars, Persist, Mark, ClaimBatch, Snapshot,
         Expire, StillPending, Check, Checked, Handled, EndCycle, Crash, Pass
<1> QED BY <1>1, <1>2, <1>3, <1>4 DEF WTypeOK

(* Only the clock moves time, by one. *)
LEMMA ClockMoves ==
    ASSUME WInv, [WNext]_allVars
    PROVE  now' \in Time /\ now <= now' /\ now \in Nat
<1>1. [Next]_vars
  BY StoreStep
<1>2. ASSUME LedgerStep PROVE UNCHANGED now
  BY <1>2 DEF LedgerStep, RecordPurchaseIntent, ResolvePurchaseIntent,
              MarkPurchaseIntentReconcileOnly, RecordPurchaseForIntent
<1>3. ASSUME PurchaseStep PROVE UNCHANGED now
  BY <1>3 DEF PurchaseStep, RecordPurchase, MarkReconcileOnly
<1>4. ASSUME NEW w \in Workers, WorkerStep(w) PROVE UNCHANGED now
  <2>1. ASSUME NEW c, NEW n, NEW acked, WriteStep(w, c, n, acked) PROVE UNCHANGED now
    BY <2>1 DEF WriteStep, RecordPending, RecordTerminal, RecordExpired, ReleaseForRetry,
                ReleaseOrFail, RecordReconcileOnly, UpdateClaim
  <2>2. ASSUME NEW S, NEW t, NEW acked, ClaimDue(w, S, t, acked) PROVE UNCHANGED now
    BY <2>2 DEF ClaimDue
  <2>3. ASSUME DropClaims(w) PROVE UNCHANGED now
    BY <2>3 DEF DropClaims
  <2> QED BY <1>4, <2>1, <2>2, <2>3 DEF WorkerStep
<1>5. UNCHANGED now \/ (now < MaxTime /\ now' = now + 1)
  BY <1>1, <1>2, <1>3, <1>4 DEF Next, vars, Tick
<1> QED BY <1>5, BoundsAssumption DEF WInv, Time

-----------------------------------------------------------------------------
(* The workers' own variables stay in their types. *)

(* The claim of an open row is well typed. *)
LEMMA ClaimOfType ==
    ASSUME TypeOK, NEW o \in Orders, rows[o].state \in Open
    PROVE  ClaimOf(o) \in Claim
<1>1. rows[o] \in Row /\ rows[o].version + 1 \in Nat
  BY DEF TypeOK, Row, Columns
<1> QED BY <1>1 DEF ClaimOf, Claim, Row, Columns

CheckingOK ==
    \A w \in Workers :
        pc[w] = "check" => checking[w].claim \in todo[w] /\ checking[w].at \in Time

(* The types of what only the workers use.  checking is a function so that   *)
(* an update of it leaves the other workers' alone.                          *)
LocalType ==
    /\ pc \in [Workers -> {"idle", "snapshot", "batch", "check"}]
    /\ todo \in [Workers -> SUBSET Claim]
    /\ snap \in [Workers -> SUBSET Orders]
    /\ DOMAIN checking = Workers
    /\ CheckingOK
    /\ since \in [Workers -> Nat]
    /\ faults \in 0..MaxFaults

(* A fault is counted within its bound. *)
LEMMA FaultType == ASSUME faults \in 0..MaxFaults, Fault PROVE faults' \in 0..MaxFaults
BY WorkerAssumption DEF Fault

(* Handling a claim, with or without a fault. *)
LEMMA HandledType ==
    ASSUME LocalType, NEW w \in Workers, NEW c, Handled(w, c), Fault \/ UNCHANGED faults
    PROVE  LocalType'
<1>1. pc' \in [Workers -> {"idle", "snapshot", "batch", "check"}]
      /\ todo' \in [Workers -> SUBSET Claim]
  BY DEF Handled, LocalType
<1>2. faults' \in 0..MaxFaults
  BY FaultType DEF LocalType
<1>3. CheckingOK'
  <2> SUFFICES ASSUME NEW v \in Workers, pc'[v] = "check"
               PROVE  checking'[v].claim \in todo'[v] /\ checking'[v].at \in Time
    BY DEF CheckingOK
  <2>1. v # w /\ pc'[v] = pc[v] /\ todo'[v] = todo[v]
    BY DEF Handled, LocalType
  <2>2. checking'[v] = checking[v]
    BY <2>1 DEF Handled, LocalType
  <2> QED BY <2>1, <2>2 DEF LocalType, CheckingOK
<1> QED BY <1>1, <1>2, <1>3 DEF LocalType, Handled

(* Every step of a cycle. *)
LEMMA CycleType == ASSUME WInv, NEW w \in Workers, Cycle(w) PROVE LocalType'
<1>1. LocalType
  BY DEF WInv, WTypeOK, LocalType, CheckingOK
<1>2. TypeOK /\ now \in Nat
  BY DEF WInv, WTypeOK, TypeOK
<1>3. ASSUME NEW S \in SUBSET Orders, NEW t \in Readings, ClaimBatch(w, S, t)
      PROVE  LocalType'
  <2>1. CASE UNCHANGED <<pc, todo, since>> /\ Fault
    BY <1>1, <1>3, <2>1, FaultType DEF ClaimBatch, LocalType, CheckingOK
  <2>2. CASE /\ ClaimDue(w, S, t, TRUE)
             /\ pc' = [pc EXCEPT ![w] = "snapshot"]
             /\ todo' = [todo EXCEPT ![w] = {ClaimOf(o) : o \in S}]
             /\ since' = [since EXCEPT ![w] = now]
             /\ UNCHANGED faults
    <3>1. {ClaimOf(o) : o \in S} \in SUBSET Claim
      BY <1>2, <2>2, ClaimOfType DEF ClaimDue, Due
    <3>2. CheckingOK'
      BY <1>1, <1>3, <2>2 DEF ClaimBatch, LocalType, CheckingOK
    <3> QED BY <1>1, <1>2, <1>3, <2>2, <3>1, <3>2 DEF ClaimBatch, LocalType
  <2> QED BY <1>3, <2>1, <2>2 DEF ClaimBatch
<1>4. CASE Snapshot(w)
  <2>1. PICK P \in SUBSET Orders : snap' = [snap EXCEPT ![w] = P]
    BY <1>4 DEF Snapshot
  <2>2. CheckingOK'
    BY <1>1, <1>4 DEF Snapshot, LocalType, CheckingOK
  <2> QED BY <1>1, <1>4, <2>1, <2>2 DEF Snapshot, LocalType
<1>5. ASSUME NEW c \in todo[w], NEW t \in Readings, Check(w, c, t) PROVE LocalType'
  <2>1. CheckingOK'
    <3> SUFFICES ASSUME NEW v \in Workers, pc'[v] = "check"
                 PROVE  checking'[v].claim \in todo'[v] /\ checking'[v].at \in Time
      BY DEF CheckingOK
    <3>1. CASE v = w
      <4>1. checking'[w] = [claim |-> c, at |-> t] /\ todo'[w] = todo[w]
        BY <1>1, <1>5 DEF Check, LocalType
      <4> QED BY <3>1, <4>1, ReadingsType
    <3>2. CASE v # w
      <4>1. checking'[v] = checking[v] /\ todo'[v] = todo[v] /\ pc'[v] = pc[v]
        BY <1>1, <1>5, <3>2 DEF Check, LocalType
      <4> QED BY <1>1, <4>1 DEF LocalType, CheckingOK
    <3> QED BY <3>1, <3>2
  <2> QED BY <1>1, <1>2, <1>5, <2>1 DEF Check, LocalType
<1>6. ASSUME NEW c \in todo[w], NEW t \in Readings, Expire(w, c, t) \/ StillPending(w, c, t)
      PROVE  LocalType'
  BY <1>1, <1>6, HandledType DEF Expire, StillPending, NotWritten
<1>7. CASE Checked(w)
  BY <1>1, <1>7, HandledType DEF Checked, NotWritten
<1>8. CASE EndCycle(w)
  <2>1. CheckingOK'
    BY <1>1, <1>8 DEF EndCycle, LocalType, CheckingOK
  <2> QED BY <1>1, <1>8, <2>1 DEF EndCycle, LocalType
<1> QED BY <1>3, <1>4, <1>5, <1>6, <1>7, <1>8 DEF Cycle

(* Every step keeps the types of the workers' own variables. *)
LEMMA LocalTypeStep == ASSUME WInv, [WNext]_allVars PROVE LocalType'
<1>1. LocalType
  BY DEF WInv, WTypeOK, LocalType, CheckingOK
<1>2. CASE UNCHANGED <<pc, todo, snap, checking, since, faults>>
  BY <1>1, <1>2 DEF LocalType, CheckingOK
<1>3. CASE World
  BY <1>2, <1>3 DEF World, Buy, Persist, Settle, Mark, workerVars
<1>4. ASSUME NEW w \in Workers, Crash(w) PROVE LocalType'
  <2>1. faults' \in 0..MaxFaults
    BY <1>1, <1>4, FaultType DEF Crash, LocalType
  <2>2. CheckingOK'
    <3> SUFFICES ASSUME NEW v \in Workers, pc'[v] = "check"
                 PROVE  checking'[v].claim \in todo'[v] /\ checking'[v].at \in Time
      BY DEF CheckingOK
    <3>1. v # w /\ pc'[v] = pc[v]
      BY <1>1, <1>4 DEF Crash, LocalType
    <3>2. checking'[v] = checking[v] /\ todo'[v] = todo[v]
      BY <1>1, <1>4, <3>1 DEF Crash, LocalType
    <3> QED BY <1>1, <3>1, <3>2 DEF LocalType, CheckingOK
  <2> QED BY <1>1, <1>4, <2>1, <2>2 DEF Crash, LocalType
<1>5. CASE Pass
  BY <1>2, <1>5 DEF Pass, workerVars
<1>6. CASE UNCHANGED allVars
  BY <1>2, <1>6 DEF allVars, workerVars
<1> QED BY <1>3, <1>4, <1>5, <1>6, CycleType DEF WNext

-----------------------------------------------------------------------------
(* WInv is inductive. *)

(* The initial state satisfies WInv. *)
LEMMA WInvInit == WInit => WInv
<1> SUFFICES ASSUME WInit PROVE WInv
  OBVIOUS
<1>1. Init
  BY DEF WInit
<1>2. IInv /\ TypeOK
  BY <1>1, IInvInit DEF IInv
<1>3. WTypeOK /\ DOMAIN checking = Workers
  BY <1>2, WorkerAssumption DEF WInit, WTypeOK, NoCheck
<1>4. now \in Time
  BY <1>1, BoundsAssumption DEF Init, Time
<1>5. \A o \in Orders : rows[o].state = "absent"
  BY <1>1 DEF Init, NoRow
<1>6. DeadlinesKept
  BY <1>1 DEF Init, DeadlinesKept
<1>7. ProviderKnows /\ OutcomeIsAuthoritative /\ ExpiredOnlyAfterDeadline
  BY <1>5 DEF ProviderKnows, OutcomeIsAuthoritative, ExpiredOnlyAfterDeadline
<1> QED BY <1>2, <1>3, <1>4, <1>6, <1>7 DEF WInv

(* Every step keeps WInv. *)
LEMMA WInvStep == ASSUME WInv, [WNext]_allVars PROVE WInv'
<1>1. [Next]_vars /\ Moves /\ LocalType'
  BY StoreStep, StepMoves, LocalTypeStep
<1>2. IInv' /\ TypeOK'
  BY <1>1, IInvStep DEF WInv, IInv
<1>3. now' \in Time /\ now <= now' /\ now \in Nat
  BY ClockMoves
<1>4. WTypeOK
  BY DEF WInv
<1>5. WTypeOK' /\ (DOMAIN checking = Workers)'
  <2>1. provider' \in [Orders -> {"none", "pending", "received", "terminated"}]
    <3>1. provider \in [Orders -> {"none", "pending", "received", "terminated"}]
      BY <1>4 DEF WTypeOK
    <3>2. \/ UNCHANGED provider
          \/ \E p \in Orders : provider' = [provider EXCEPT ![p] = "pending"]
          \/ \E p \in Orders, s \in {"received", "terminated"} :
                provider' = [provider EXCEPT ![p] = s]
      BY DEF WNext, World, Cycle, allVars, workerVars, Buy, Settle, Persist, Mark,
             ClaimBatch, Snapshot, Expire, StillPending, Check, Checked, Handled,
             EndCycle, Crash, Pass
    <3> QED BY <3>1, <3>2
  <2> QED BY <1>1, <1>2, <2>1 DEF WTypeOK, LocalType, CheckingOK
<1>6. ProviderKnows'
  BY <1>1, <1>4, ProviderMoves DEF Moves, RowMoves, WInv, ProviderKnows
<1>7. DeadlinesKept'
  <2> SUFFICES ASSUME NEW w \in Workers, NEW c \in held'[w]
               PROVE  c.deadline = rows'[c.order].deadline
    BY DEF DeadlinesKept
  <2>1. /\ c.order \in Orders /\ rows[c.order].state # "absent"
        /\ c.deadline = rows[c.order].deadline
    <3>1. CASE \E d \in held[w] : c.order = d.order /\ c.deadline = d.deadline
      <4>1. PICK d \in held[w] : c.order = d.order /\ c.deadline = d.deadline
        BY <3>1
      <4>2. d.order \in Orders /\ rows[d.order].state # "absent"
            /\ d.deadline = rows[d.order].deadline
        BY <1>4 DEF WInv, DeadlinesKept, IInv, ClaimsNotAhead, WTypeOK, TypeOK, Claim
      <4> QED BY <4>1, <4>2
    <3> QED BY <1>1, <3>1 DEF Moves, HeldMoves
  <2> QED BY <1>1, <2>1 DEF Moves, RowMoves
<1>8. OutcomeIsAuthoritative'
  <2> SUFFICES ASSUME NEW o \in Orders
               PROVE  /\ rows'[o].state = "received" => provider'[o] = "received"
                      /\ rows'[o].state = "terminated" /\ ~Prose => provider'[o] = "terminated"
    BY DEF OutcomeIsAuthoritative
  <2>1. RowMoves(o)
    BY <1>1 DEF Moves
  <2>2. /\ rows[o].state = "received" => provider[o] = "received"
        /\ rows[o].state = "terminated" /\ ~Prose => provider[o] = "terminated"
    BY DEF WInv, OutcomeIsAuthoritative
  <2>3. provider[o] \in {"received", "terminated"} => provider'[o] = provider[o]
    BY <1>4, ProviderMoves
  <2> QED BY <2>1, <2>2, <2>3 DEF RowMoves, Justified, Open
<1>9. ExpiredOnlyAfterDeadline'
  <2> SUFFICES ASSUME NEW o \in Orders, rows'[o].state = "expired"
               PROVE  now' + Skew >= rows'[o].deadline
    BY DEF ExpiredOnlyAfterDeadline
  <2>1. RowMoves(o)
    BY <1>1 DEF Moves
  <2>2. now + Skew >= rows[o].deadline /\ rows'[o].deadline = rows[o].deadline
    BY <2>1 DEF RowMoves, Justified, Open, WInv, ExpiredOnlyAfterDeadline
  <2>3. rows[o].deadline \in Nat /\ now' \in Nat
    BY <1>2, <1>4 DEF WTypeOK, TypeOK, Row, Columns
  <2> QED BY <1>3, <2>2, <2>3, BoundsAssumption
<1> QED BY <1>2, <1>3, <1>5, <1>6, <1>7, <1>8, <1>9 DEF WInv

(* WInv holds in every reachable state. *)
LEMMA WInvariance == WSpec => []WInv
BY WInvInit, WInvStep, PTL DEF WSpec

-----------------------------------------------------------------------------
(* Rows, claims and the state of every worker stay in their types. *)
THEOREM WTypeCorrect == WSpec => []WTypeOK
BY WInvariance, PTL DEF WInv

(* A received order was received, and, when only ended orders come with a    *)
(* message, a terminated one was ended: whatever snapshots leave out, checks *)
(* fail, replies are lost and workers are late (the worker loop of axum.rs). *)
THEOREM OutcomesAuthoritative == WSpec => []OutcomeIsAuthoritative
BY WInvariance, PTL DEF WInv

(* No worker gives an order up before its deadline, up to the skew of its    *)
(* clock (the comparison with deadline_ms in the worker loop).               *)
THEOREM NoEarlyExpiry == WSpec => []ExpiredOnlyAfterDeadline
BY WInvariance, PTL DEF WInv

(* The workers, the coordinator and the provider together only do to the     *)
(* store what its specification allows, so its theorems hold of them.        *)
THEOREM WorkersUseTheStore == WSpec => Spec
<1>1. WInit => Init
  BY DEF WInit
<1> QED BY <1>1, StoreStep, WInvariance, PTL DEF WSpec, Spec

(* One claim of a row can write, and what it can write to is open, in every  *)
(* run of the workers; a settled row stays as it is (update_claim).          *)
THEOREM WorkersAreFenced ==
    WSpec => []OneCurrentClaim /\ []CurrentClaimIsFresh /\ SettledIsFinal
BY WorkersUseTheStore, Fencing, FreshClaims, SettledForever, PTL

(* Through the store, what the workers, the coordinator and the provider do  *)
(* refines the abstract ledger: crashes, leases and lost replies do not show *)
(* in what is recorded of orders and intents.                                *)
THEOREM WorkersImplementLedger == WSpec => ImplementsLedger
BY WorkersUseTheStore, StoreImplementsLedger, PTL

-----------------------------------------------------------------------------
(* How long a lease must be.  A cycle makes one call for the snapshot and at *)
(* most one for each claim.  SizedLease is what the lease must cover when no *)
(* time is lost between the calls; the clocks of the worker that claimed and *)
(* of one that looks for due rows may differ by Skew each.                   *)
SizedLease ==
    /\ IsFiniteSet(Orders)
    /\ Prompt
    /\ Lease >= (Limit + 1) * MaxCall + 2 * Skew

(* The provider calls the cycle may still make, the one in flight included.  *)
CallsLeft(w) == Cardinality(todo[w]) + (IF pc[w] = "snapshot" THEN 1 ELSE 0)

(* From when they are counted. *)
CountedFrom(w) == IF InCall(w) THEN since[w] ELSE now

(* The worker's claim of a row can write, and the lease lasts for the calls  *)
(* that are left, on every clock.                                            *)
Covered(w, c) ==
    /\ Matches(w, c)
    /\ rows[c.order].leaseUntil >= CountedFrom(w) + CallsLeft(w) * MaxCall + Skew

BatchCovered(w) ==
    /\ pc[w] = "idle" => todo[w] = {}
    /\ IsFiniteSet(todo[w])
    /\ todo[w] \subseteq held[w]
    /\ \A c, d \in todo[w] : c.order = d.order => c = d
    /\ InCall(w) => now <= since[w] + MaxCall
    /\ \A c \in todo[w] : Covered(w, c)

BatchesCovered == \A w \in Workers : BatchCovered(w)

(* What a claim needs of its row to stay current. *)
LeaseKept(o) ==
    /\ rows'[o].leaseOwner = rows[o].leaseOwner
    /\ rows'[o].version = rows[o].version
    /\ rows'[o].leaseUntil = rows[o].leaseUntil

(* The types the arithmetic below needs. *)
LEMMA BatchTypes ==
    ASSUME WInv, NEW w \in Workers, BatchCovered(w)
    PROVE  /\ todo[w] \in SUBSET Claim /\ held[w] \in SUBSET Claim
           /\ Cardinality(todo[w]) \in Nat /\ CallsLeft(w) \in Nat
           /\ now \in Nat /\ since[w] \in Nat /\ CountedFrom(w) \in Nat
           /\ MaxCall \in Nat /\ Skew \in Nat /\ CallsLeft(w) * MaxCall \in Nat
           /\ \A c \in todo[w] : /\ c.order \in Orders
                                 /\ rows[c.order] \in Row
                                 /\ rows[c.order].state # "absent"
                                 /\ rows[c.order].leaseUntil \in Nat
<1>1. /\ todo[w] \in SUBSET Claim /\ held[w] \in SUBSET Claim
      /\ now \in Nat /\ since[w] \in Nat /\ rows \in [Orders -> Row]
  BY DEF WInv, WTypeOK, TypeOK
<1>2. Cardinality(todo[w]) \in Nat
  BY FS_CardinalityType DEF BatchCovered
<1>3. CallsLeft(w) \in Nat /\ CountedFrom(w) \in Nat
  BY <1>1, <1>2 DEF CallsLeft, CountedFrom
<1>4. MaxCall \in Nat /\ Skew \in Nat
  BY WorkerAssumption, BoundsAssumption
<1>5. CallsLeft(w) * MaxCall \in Nat
  BY <1>3, <1>4
<1>6. ASSUME NEW c \in todo[w]
      PROVE  /\ c.order \in Orders /\ rows[c.order] \in Row
             /\ rows[c.order].state # "absent" /\ rows[c.order].leaseUntil \in Nat
  <2>1. c \in held[w] /\ c \in Claim /\ Matches(w, c)
    BY <1>1 DEF BatchCovered, Covered
  <2>2. c.order \in Orders /\ rows[c.order] \in Row /\ rows[c.order].state # "absent"
    BY <1>1, <2>1 DEF Claim, WInv, IInv, ClaimsNotAhead
  <2>3. rows[c.order].leaseOwner # NULL
    BY <2>1, OwnerNotNull DEF Matches
  <2> QED BY <2>2, <2>3 DEF Row, Columns
<1> QED BY <1>1, <1>2, <1>3, <1>4, <1>5, <1>6

(* While a claim is in the batch, its lease is over on no clock. *)
LEMMA NotOver ==
    ASSUME WInv, NEW w \in Workers, BatchCovered(w), NEW c \in todo[w],
           NEW t \in Readings
    PROVE  ~LeaseOver(c.order, t)
<1> DEFINE k == Cardinality(todo[w])
           u == rows[c.order].leaseUntil
<1>1. /\ k \in Nat /\ k # 0 /\ now \in Nat /\ since[w] \in Nat /\ MaxCall \in Nat
      /\ Skew \in Nat /\ u \in Nat
  BY BatchTypes, FS_EmptySet DEF BatchCovered
<1>2. t \in Nat /\ t <= now + Skew
  BY ReadingsType
<1>3. pc[w] \in {"idle", "snapshot", "batch", "check"} /\ pc[w] # "idle"
  BY DEF WInv, WTypeOK, BatchCovered
<1>4. k * MaxCall \in Nat /\ k * MaxCall >= MaxCall /\ (k + 1) * MaxCall = k * MaxCall + MaxCall
  <2>1. (k - 1) * MaxCall \in Nat /\ k * MaxCall = (k - 1) * MaxCall + MaxCall
    <3>1. k - 1 \in Nat
      BY <1>1
    <3> QED BY <1>1, <3>1
  <2> QED BY <1>1, <2>1
<1>5. u >= now + Skew
  <2>1. u >= CountedFrom(w) + CallsLeft(w) * MaxCall + Skew
    BY DEF BatchCovered, Covered
  <2>2. CASE pc[w] = "batch"
    <3>1. CountedFrom(w) = now /\ CallsLeft(w) = k
      BY <1>1, <2>2 DEF CountedFrom, CallsLeft, InCall
    <3> HIDE DEF k, u
    <3> QED BY <1>1, <1>4, <2>1, <3>1
  <2>3. CASE pc[w] \in {"snapshot", "check"}
    <3>1. /\ CountedFrom(w) = since[w] /\ CallsLeft(w) \in {k, k + 1}
          /\ now <= since[w] + MaxCall
      BY <1>1, <2>3 DEF CountedFrom, CallsLeft, InCall, BatchCovered
    <3> HIDE DEF k, u
    <3> QED BY <1>1, <1>4, <2>1, <3>1
  <2> QED BY <1>3, <2>2, <2>3
<1>6. u # NULL
  BY <1>1, NullAssumption
<1> HIDE DEF u
<1>7. ~(u < t)
  BY <1>1, <1>2, <1>5
<1> QED BY <1>6, <1>7 DEF LeaseOver, u

(* No other claim can be written under while this one is in the batch. *)
LEMMA WriteKeepsLease ==
    ASSUME WInv, NEW w \in Workers, BatchCovered(w), NEW c \in todo[w],
           NEW v \in Workers, NEW d, NEW s, NEW n, NEW acked \in BOOLEAN,
           UpdateClaim(v, d, s, n, acked), v # w \/ d # c
    PROVE  LeaseKept(c.order)
<1>1. d \in held[v] /\ Matches(v, d) /\ c \in held[w] /\ Matches(w, c)
  BY DEF UpdateClaim, BatchCovered, Covered
<1>2. d.order # c.order
  BY <1>1 DEF WInv, IInv, OneCurrentClaim
<1>3. rows \in [Orders -> Row] /\ c.order \in Orders
  BY BatchTypes DEF WInv, WTypeOK, TypeOK
<1>4. rows'[c.order] = rows[c.order]
  BY <1>2, <1>3 DEF UpdateClaim
<1> QED BY <1>4 DEF LeaseKept

(* No worker is granted a claim of a row that is in a batch. *)
LEMMA ClaimKeepsLease ==
    ASSUME WInv, NEW w \in Workers, BatchCovered(w), NEW c \in todo[w],
           NEW v \in Workers, NEW S \in SUBSET Orders, NEW t \in Readings,
           NEW acked \in BOOLEAN, ClaimDue(v, S, t, acked)
    PROVE  LeaseKept(c.order)
<1>1. c.order \in Orders /\ c.order \notin S
  BY BatchTypes, NotOver DEF ClaimDue, Due
<1>2. rows'[c.order] = rows[c.order]
  BY <1>1 DEF ClaimDue
<1> QED BY <1>2 DEF LeaseKept

(* Purchases and marks leave the leases alone. *)
LEMMA WorldKeepsLease ==
    ASSUME WInv, NEW w \in Workers, BatchCovered(w), NEW c \in todo[w], World
    PROVE  LeaseKept(c.order)
<1>1. c.order \in Orders /\ rows \in [Orders -> Row] /\ rows[c.order].state # "absent"
      /\ rows[c.order] \in Row
  BY BatchTypes DEF WInv, WTypeOK, TypeOK
<1>2. ASSUME NEW o \in Orders, NEW i \in Intents, NEW t \in Readings, Persist(o, i, t)
      PROVE  LeaseKept(c.order)
  <2>1. rows' = [rows EXCEPT ![o] = Bound(o, i, t + Life, t)]
    BY <1>2 DEF Persist, RecordPurchaseForIntent
  <2>2. CASE o # c.order
    BY <1>1, <2>1, <2>2 DEF LeaseKept
  <2>3. CASE o = c.order
    <3>1. rows'[c.order] = Bound(c.order, i, t + Life, t)
      BY <1>1, <2>1, <2>3
    <3> QED BY <1>1, <3>1 DEF LeaseKept, Bound, Row, Columns
  <2> QED BY <2>2, <2>3
<1>3. ASSUME NEW o \in Orders, Mark(o) PROVE LeaseKept(c.order)
  <2>1. rows' = [rows EXCEPT ![o].state = "reconcile_only"]
    BY <1>3 DEF Mark, MarkReconcileOnly
  <2> QED BY <1>1, <2>1 DEF LeaseKept, Row, Columns
<1>4. ASSUME UNCHANGED rows PROVE LeaseKept(c.order)
  BY <1>4 DEF LeaseKept
<1> QED BY <1>2, <1>3, <1>4 DEF World, Buy, RecordPurchaseIntent, Settle, vars

(* A worker whose own part of the state does not move stays covered when the *)
(* leases of its batch are kept and no time passes.                          *)
LEMMA OthersKeepBatch ==
    ASSUME WInv, NEW w \in Workers, BatchCovered(w),
           pc'[w] = pc[w], todo'[w] = todo[w], since'[w] = since[w],
           held'[w] = held[w], now' = now,
           \A c \in todo[w] : LeaseKept(c.order)
    PROVE  BatchCovered(w)'
<1>1. (CallsLeft(w))' = CallsLeft(w) /\ (CountedFrom(w))' = CountedFrom(w)
      /\ (InCall(w))' = InCall(w)
  BY DEF CallsLeft, CountedFrom, InCall
<1>2. \A c \in todo[w] : (Covered(w, c))'
  BY <1>1 DEF BatchCovered, Covered, LeaseKept, Matches
<1> QED BY <1>1, <1>2 DEF BatchCovered

(* A claim leaves the batch: what was left for its call is left for nothing. *)
LEMMA HandledKeepsBatch ==
    ASSUME WInv, NEW w \in Workers, BatchCovered(w), NEW c \in todo[w],
           Handled(w, c), now' = now, pc[w] \in {"batch", "check"},
           \/ UNCHANGED <<rows, held>>
           \/ \E s, n : \E acked \in BOOLEAN : UpdateClaim(w, c, s, n, acked)
    PROVE  BatchCovered(w)'
<1> DEFINE k == Cardinality(todo[w])
<1>1. /\ todo'[w] = todo[w] \ {c} /\ pc'[w] = "batch" /\ since' = since
      /\ held \in [Workers -> SUBSET Claim]
  BY DEF Handled, WInv, WTypeOK, TypeOK
<1>2. /\ k \in Nat /\ k # 0 /\ now \in Nat /\ since[w] \in Nat /\ MaxCall \in Nat
      /\ Skew \in Nat /\ k - 1 \in Nat
      /\ \A d \in todo[w] : rows[d.order].leaseUntil \in Nat
  <2>1. k \in Nat /\ k # 0
    BY BatchTypes, FS_EmptySet DEF BatchCovered
  <2> QED BY <2>1, BatchTypes
<1>3. IsFiniteSet(todo'[w]) /\ Cardinality(todo'[w]) = k - 1
  BY <1>1, FS_RemoveElement DEF BatchCovered
<1>4. \A d \in todo'[w] : d \in todo[w] /\ d # c /\ LeaseKept(d.order) /\ d \in held'[w]
  <2> SUFFICES ASSUME NEW d \in todo'[w]
               PROVE  d \in todo[w] /\ d # c /\ LeaseKept(d.order) /\ d \in held'[w]
    OBVIOUS
  <2>1. d \in todo[w] /\ d # c /\ d \in held[w]
    BY <1>1 DEF BatchCovered
  <2>2. CASE UNCHANGED <<rows, held>>
    BY <2>1, <2>2 DEF LeaseKept
  <2>3. ASSUME NEW s, NEW n, NEW acked \in BOOLEAN, UpdateClaim(w, c, s, n, acked)
        PROVE  LeaseKept(d.order) /\ d \in held'[w]
    <3>1. LeaseKept(d.order)
      BY <2>1, <2>3, WriteKeepsLease
    <3>2. d \in held'[w]
      BY <1>1, <2>1, <2>3 DEF UpdateClaim
    <3> QED BY <3>1, <3>2
  <2> QED BY <2>1, <2>2, <2>3
<1>5. ASSUME NEW d \in todo'[w] PROVE (Covered(w, d))'
  <2> DEFINE u == rows[d.order].leaseUntil
  <2>1. d \in todo[w] /\ Covered(w, d) /\ LeaseKept(d.order) /\ u \in Nat
    BY <1>2, <1>4 DEF BatchCovered
  <2>2. (CallsLeft(w))' = k - 1 /\ (CountedFrom(w))' = now
    BY <1>1, <1>2, <1>3 DEF CallsLeft, CountedFrom, InCall
  <2>3. CallsLeft(w) = k /\ CountedFrom(w) \in {now, since[w]}
        /\ now <= CountedFrom(w) + MaxCall
    BY <1>2 DEF CallsLeft, CountedFrom, InCall, BatchCovered
  <2>4. k * MaxCall = (k - 1) * MaxCall + MaxCall /\ (k - 1) * MaxCall \in Nat
    BY <1>2
  <2>5. u >= CountedFrom(w) + k * MaxCall + Skew
    BY <2>1, <2>3 DEF Covered
  <2>6. u >= now + (k - 1) * MaxCall + Skew
    <3> HIDE DEF u, k
    <3> QED BY <1>2, <2>1, <2>3, <2>4, <2>5
  <2>7. (Matches(w, d))'
    BY <2>1 DEF Covered, Matches, LeaseKept
  <2> QED BY <2>1, <2>2, <2>6, <2>7 DEF Covered, LeaseKept
<1> QED BY <1>1, <1>3, <1>4, <1>5 DEF BatchCovered, InCall

(* A new batch is covered by the leases it was just granted. *)
LEMMA GrantCovers ==
    ASSUME SizedLease, WInv, NEW w \in Workers, NEW S \in SUBSET Orders,
           NEW t \in Readings, ClaimDue(w, S, t, TRUE),
           pc' = [pc EXCEPT ![w] = "snapshot"],
           todo' = [todo EXCEPT ![w] = {ClaimOf(o) : o \in S}],
           since' = [since EXCEPT ![w] = now]
    PROVE  BatchCovered(w)'
<1> DEFINE T == {ClaimOf(o) : o \in S}
           k == Cardinality(T)
<1>1. /\ pc'[w] = "snapshot" /\ todo'[w] = T /\ since'[w] = now /\ now' = now
      /\ T \subseteq held'[w] /\ rows \in [Orders -> Row]
  BY DEF ClaimDue, WInv, WTypeOK, TypeOK
<1>2. IsFiniteSet(S) /\ Cardinality(S) \in Nat /\ Cardinality(S) <= Limit
  BY FS_Subset, FS_CardinalityType DEF SizedLease, ClaimDue
<1>3. IsFiniteSet(T) /\ k \in Nat /\ k <= Limit
  <2> DEFINE f == [o \in S |-> ClaimOf(o)]
  <2>1. f \in Surjection(S, T)
    BY DEF Surjection
  <2> HIDE DEF f, T
  <2>2. IsFiniteSet(T) /\ Cardinality(T) <= Cardinality(S)
    BY <1>2, <2>1, FS_Surjection
  <2>3. Cardinality(T) \in Nat
    BY <2>2, FS_CardinalityType
  <2> QED BY <1>2, <2>2, <2>3, BoundsAssumption
<1>4. now \in Nat /\ t \in Nat /\ now - Skew <= t /\ Skew \in Nat /\ MaxCall \in Nat
      /\ Limit \in Nat /\ Lease \in Nat
  BY ReadingsType, WorkerAssumption, BoundsAssumption, LeaseAssumption DEF Readings
<1>5. (CallsLeft(w))' = k + 1 /\ (CountedFrom(w))' = now
  BY <1>1, <1>3 DEF CallsLeft, CountedFrom, InCall
<1>6. t + Lease >= now + (k + 1) * MaxCall + Skew
  <2>1. (Limit - k) * MaxCall >= 0
    <3>1. Limit - k \in Nat
      BY <1>3, <1>4
    <3> QED BY <1>4, <3>1
  <2>2. (Limit + 1) * MaxCall = (k + 1) * MaxCall + (Limit - k) * MaxCall
    BY <1>3, <1>4
  <2>3. (k + 1) * MaxCall \in Int /\ (Limit - k) * MaxCall \in Int
    BY <1>3, <1>4
  <2>4. Lease >= (k + 1) * MaxCall + 2 * Skew
    <3> HIDE DEF k
    <3> QED BY <1>4, <2>1, <2>2, <2>3 DEF SizedLease
  <2> HIDE DEF k
  <2> QED BY <1>4, <2>3, <2>4
<1>7. ASSUME NEW c \in T PROVE (Covered(w, c))'
  <2>1. PICK o \in S : c = ClaimOf(o)
    OBVIOUS
  <2>2. c.order = o /\ c.version = rows[o].version + 1
    BY <2>1 DEF ClaimOf
  <2>3. rows'[o] = Leased(w, o, t) /\ rows[o] \in Row
    BY <1>1 DEF ClaimDue
  <2>4. rows'[o].leaseOwner = Owner[w] /\ rows'[o].version = rows[o].version + 1
        /\ rows'[o].leaseUntil = t + Lease
    BY <2>3 DEF Leased, Row, Columns
  <2> QED BY <1>5, <1>6, <2>2, <2>4 DEF Covered, Matches
<1>8. \A c, d \in T : c.order = d.order => c = d
  BY DEF ClaimOf
<1>9. (InCall(w) => now <= since[w] + MaxCall)'
  BY <1>1, <1>4
<1> QED BY <1>1, <1>3, <1>7, <1>8, <1>9 DEF BatchCovered

(* What a worker writes when it has handled a claim. *)
LEMMA HandlingIsAWrite ==
    ASSUME NEW w \in Workers, NEW c, NEW t,
           Expire(w, c, t) \/ StillPending(w, c, t)
               \/ (Checked(w) /\ c = checking[w].claim)
    PROVE  /\ Handled(w, c) /\ pc[w] \in {"batch", "check"} /\ now' = now
           /\ \/ UNCHANGED <<rows, held>>
              \/ \E s, n : \E acked \in BOOLEAN : UpdateClaim(w, c, s, n, acked)
<1>1. CASE Expire(w, c, t)
  BY <1>1 DEF Expire, NotWritten, RecordExpired, UpdateClaim, vars
<1>2. CASE StillPending(w, c, t)
  BY <1>2 DEF StillPending, NotWritten, RecordPending, UpdateClaim, vars
<1>3. CASE Checked(w) /\ c = checking[w].claim
  <2>1. Handled(w, c) /\ pc[w] = "check"
    BY <1>3 DEF Checked
  <2>2. CASE UNCHANGED vars
    BY <2>1, <2>2 DEF vars
  <2>3. ASSUME NEW a, Answer(w, c, checking[w].at, a)
        PROVE  \E s, n : \E acked \in BOOLEAN : UpdateClaim(w, c, s, n, acked)
    BY <2>3 DEF Answer, ReleaseForRetry, RecordPending, RecordTerminal
  <2>4. ASSUME NEW s, NEW n, NEW acked, UpdateClaim(w, c, s, n, acked) PROVE now' = now
    BY <2>4 DEF UpdateClaim
  <2> QED BY <1>3, <2>1, <2>2, <2>3, <2>4 DEF Checked, NotWritten
<1> QED BY <1>1, <1>2, <1>3

(* A worker's own cycle keeps its batch covered. *)
LEMMA CycleKeepsBatch ==
    ASSUME SizedLease, WInv, NEW w \in Workers, BatchCovered(w), Cycle(w)
    PROVE  BatchCovered(w)'
<1>1. /\ pc \in [Workers -> {"idle", "snapshot", "batch", "check"}]
      /\ todo \in [Workers -> SUBSET Claim] /\ since \in [Workers -> Nat]
      /\ held \in [Workers -> SUBSET Claim] /\ now \in Nat /\ MaxCall \in Nat
  BY WorkerAssumption DEF WInv, WTypeOK, TypeOK
<1>2. ASSUME NEW S \in SUBSET Orders, NEW t \in Readings, ClaimBatch(w, S, t)
      PROVE  BatchCovered(w)'
  <2>1. CASE UNCHANGED <<pc, todo, since>> /\ ClaimDue(w, S, t, FALSE)
    BY <1>2, <2>1 DEF ClaimBatch, ClaimDue, BatchCovered, InCall
  <2>2. CASE /\ ClaimDue(w, S, t, TRUE)
             /\ pc' = [pc EXCEPT ![w] = "snapshot"]
             /\ todo' = [todo EXCEPT ![w] = {ClaimOf(o) : o \in S}]
             /\ since' = [since EXCEPT ![w] = now]
    BY <2>2, GrantCovers
  <2> QED BY <1>2, <2>1, <2>2 DEF ClaimBatch
<1>3. CASE Snapshot(w)
  <2>1. /\ pc[w] = "snapshot" /\ pc'[w] = "batch"
        /\ UNCHANGED <<rows, held, now, todo, since>>
    BY <1>1, <1>3 DEF Snapshot, vars
  <2> DEFINE k == Cardinality(todo[w])
  <2>2. k \in Nat /\ Skew \in Nat /\ k * MaxCall \in Nat
        /\ (k + 1) * MaxCall = k * MaxCall + MaxCall
    BY <1>1, BatchTypes
  <2>3. CallsLeft(w) = k + 1 /\ CountedFrom(w) = since[w] /\ now <= since[w] + MaxCall
        /\ (CallsLeft(w))' = k /\ (CountedFrom(w))' = now /\ since[w] \in Nat
    BY <1>1, <2>1, <2>2 DEF CallsLeft, CountedFrom, InCall, BatchCovered
  <2>4. ASSUME NEW c \in todo[w] PROVE (Covered(w, c))'
    <3> DEFINE u == rows[c.order].leaseUntil
    <3>1. u \in Nat /\ u >= since[w] + (k + 1) * MaxCall + Skew
      BY <2>3, BatchTypes DEF BatchCovered, Covered
    <3>2. u >= now + k * MaxCall + Skew
      <4> HIDE DEF u, k
      <4> QED BY <1>1, <2>2, <2>3, <3>1
    <3>3. (Matches(w, c))'
      BY <2>1 DEF BatchCovered, Covered, Matches
    <3> QED BY <2>1, <2>3, <3>2, <3>3 DEF Covered
  <2> QED BY <2>1, <2>4 DEF BatchCovered, InCall
<1>4. ASSUME NEW c \in todo[w], NEW t \in Readings, Expire(w, c, t) \/ StillPending(w, c, t)
      PROVE  BatchCovered(w)'
  BY <1>4, HandlingIsAWrite, HandledKeepsBatch
<1>5. ASSUME NEW c \in todo[w], NEW t \in Readings, Check(w, c, t)
      PROVE  BatchCovered(w)'
  <2>1. /\ pc[w] = "batch" /\ pc'[w] = "check" /\ since'[w] = now
        /\ UNCHANGED <<rows, held, now, todo>>
    BY <1>1, <1>5 DEF Check, vars
  <2>2. (CallsLeft(w))' = CallsLeft(w) /\ CountedFrom(w) = now /\ (CountedFrom(w))' = now
    BY <2>1 DEF CallsLeft, CountedFrom, InCall
  <2>3. \A d \in todo[w] : (Covered(w, d))'
    BY <2>1, <2>2 DEF BatchCovered, Covered, Matches
  <2> QED BY <1>1, <2>1, <2>3 DEF BatchCovered
<1>6. CASE Checked(w)
  <2>1. checking[w].claim \in todo[w]
    BY <1>6 DEF Checked, WInv, WTypeOK
  <2> QED BY <1>6, <2>1, HandlingIsAWrite, HandledKeepsBatch
<1>7. CASE EndCycle(w)
  BY <1>1, <1>7, FS_EmptySet DEF EndCycle, DropClaims, BatchCovered, InCall
<1> QED BY <1>2, <1>3, <1>4, <1>5, <1>6, <1>7 DEF Cycle

(* The cycle of another worker leaves the leases of this batch alone. *)
LEMMA OtherCycleKeepsBatch ==
    ASSUME WInv, NEW w \in Workers, BatchCovered(w), NEW v \in Workers, v # w, Cycle(v)
    PROVE  BatchCovered(w)'
<1>1. /\ DOMAIN pc = Workers /\ DOMAIN todo = Workers /\ DOMAIN since = Workers
      /\ DOMAIN held = Workers
  BY DEF WInv, WTypeOK, TypeOK
<1>2. ASSUME NEW c, NEW s, NEW n, NEW acked \in BOOLEAN, UpdateClaim(v, c, s, n, acked)
      PROVE  /\ held'[w] = held[w] /\ now' = now
             /\ \A d \in todo[w] : LeaseKept(d.order)
  BY <1>1, <1>2, WriteKeepsLease DEF UpdateClaim
<1>3. ASSUME NEW S \in SUBSET Orders, NEW t \in Readings, NEW acked \in BOOLEAN,
             ClaimDue(v, S, t, acked)
      PROVE  /\ held'[w] = held[w] /\ now' = now
             /\ \A d \in todo[w] : LeaseKept(d.order)
  BY <1>1, <1>3, ClaimKeepsLease DEF ClaimDue
<1>4. ASSUME NEW c, Handled(v, c)
      PROVE  pc'[w] = pc[w] /\ todo'[w] = todo[w] /\ since'[w] = since[w]
  BY <1>1, <1>4 DEF Handled
<1>5. ASSUME UNCHANGED rows PROVE \A d \in todo[w] : LeaseKept(d.order)
  BY <1>5 DEF LeaseKept
<1>6. ASSUME NEW S \in SUBSET Orders, NEW t \in Readings, ClaimBatch(v, S, t)
      PROVE  BatchCovered(w)'
  <2>1. pc'[w] = pc[w] /\ todo'[w] = todo[w] /\ since'[w] = since[w]
    BY <1>1, <1>6 DEF ClaimBatch
  <2>2. held'[w] = held[w] /\ now' = now /\ \A d \in todo[w] : LeaseKept(d.order)
    BY <1>3, <1>6 DEF ClaimBatch
  <2> QED BY <2>1, <2>2, OthersKeepBatch
<1>7. CASE Snapshot(v)
  <2>1. pc'[w] = pc[w] /\ UNCHANGED <<rows, held, now, todo, since>>
    BY <1>1, <1>7 DEF Snapshot, vars
  <2> QED BY <1>5, <2>1, OthersKeepBatch
<1>8. ASSUME NEW c \in todo[v], NEW t \in Readings, Check(v, c, t)
      PROVE  BatchCovered(w)'
  <2>1. pc'[w] = pc[w] /\ since'[w] = since[w] /\ UNCHANGED <<rows, held, now, todo>>
    BY <1>1, <1>8 DEF Check, vars
  <2> QED BY <1>5, <2>1, OthersKeepBatch
<1>9. ASSUME NEW c, NEW t, Expire(v, c, t) \/ StillPending(v, c, t)
                               \/ (Checked(v) /\ c = checking[v].claim)
      PROVE  BatchCovered(w)'
  <2>1. /\ Handled(v, c) /\ now' = now
        /\ \/ UNCHANGED <<rows, held>>
           \/ \E s, n : \E acked \in BOOLEAN : UpdateClaim(v, c, s, n, acked)
    BY <1>9, HandlingIsAWrite
  <2>2. held'[w] = held[w] /\ \A d \in todo[w] : LeaseKept(d.order)
    BY <1>2, <1>5, <2>1
  <2> QED BY <1>4, <2>1, <2>2, OthersKeepBatch
<1>10. CASE EndCycle(v)
  <2>1. /\ pc'[w] = pc[w] /\ held'[w] = held[w] /\ UNCHANGED <<rows, now, todo, since>>
    BY <1>1, <1>10 DEF EndCycle, DropClaims
  <2> QED BY <1>5, <2>1, OthersKeepBatch
<1> QED BY <1>6, <1>7, <1>8, <1>9, <1>10 DEF Cycle

(* Every step keeps the batch of every worker covered. *)
LEMMA CoverStep ==
    ASSUME SizedLease, WInv, BatchesCovered, [WNext]_allVars PROVE BatchesCovered'
<1> SUFFICES ASSUME NEW w \in Workers PROVE BatchCovered(w)'
  BY DEF BatchesCovered
<1>1. BatchCovered(w)
  BY DEF BatchesCovered
<1>2. /\ DOMAIN pc = Workers /\ DOMAIN todo = Workers /\ DOMAIN held = Workers
      /\ \A v \in Workers : pc[v] \in {"idle", "snapshot", "batch", "check"}
      /\ now \in Nat /\ since[w] \in Nat /\ MaxCall \in Nat
  BY WorkerAssumption DEF WInv, WTypeOK, TypeOK
<1>3. CASE World
  <2>1. UNCHANGED <<held, now, pc, todo, since>>
    BY <1>3 DEF World, Buy, RecordPurchaseIntent, Persist, RecordPurchaseForIntent, Settle,
                Mark, MarkReconcileOnly, workerVars, vars
  <2> QED BY <1>1, <1>3, <2>1, WorldKeepsLease, OthersKeepBatch
<1>4. ASSUME NEW v \in Workers, Cycle(v) PROVE BatchCovered(w)'
  BY <1>1, <1>4, CycleKeepsBatch, OtherCycleKeepsBatch
<1>5. ASSUME NEW v \in Workers, Crash(v) PROVE BatchCovered(w)'
  <2>1. CASE v = w
    BY <1>2, <1>5, <2>1, FS_EmptySet DEF Crash, DropClaims, BatchCovered, InCall
  <2>2. CASE v # w
    <3>1. /\ pc'[w] = pc[w] /\ todo'[w] = todo[w] /\ held'[w] = held[w]
          /\ UNCHANGED <<rows, now, since>>
      BY <1>2, <1>5, <2>2 DEF Crash, DropClaims
    <3> QED BY <1>1, <3>1, OthersKeepBatch DEF LeaseKept
  <2> QED BY <2>1, <2>2
<1>6. CASE Pass
  <2>1. /\ UNCHANGED <<rows, held, pc, todo, since>> /\ now' = now + 1
        /\ InCall(w) => now < since[w] + MaxCall
        /\ pc[w] # "batch"
    BY <1>6 DEF Pass, Tick, workerVars, SizedLease
  <2>2. (CallsLeft(w))' = CallsLeft(w) /\ (InCall(w))' = InCall(w)
        /\ (InCall(w) => (CountedFrom(w))' = CountedFrom(w))
    BY <2>1 DEF CallsLeft, CountedFrom, InCall
  <2>3. CASE InCall(w)
    <3>1. \A c \in todo[w] : (Covered(w, c))'
      BY <1>1, <2>1, <2>2, <2>3 DEF BatchCovered, Covered, Matches
    <3> QED BY <1>1, <1>2, <2>1, <2>2, <3>1 DEF BatchCovered
  <2>4. CASE ~InCall(w)
    <3>1. todo[w] = {}
      BY <1>1, <1>2, <2>1, <2>4 DEF BatchCovered, InCall
    <3> QED BY <1>1, <2>1, <2>2, <2>4, <3>1 DEF BatchCovered
  <2> QED BY <2>3, <2>4
<1>7. CASE UNCHANGED allVars
  BY <1>1, <1>7, OthersKeepBatch DEF allVars, workerVars, LeaseKept
<1> QED BY <1>3, <1>4, <1>5, <1>6, <1>7 DEF WNext

(* The batches are empty at first. *)
LEMMA CoverInit == WInit => BatchesCovered
BY FS_EmptySet DEF WInit, Init, BatchesCovered, BatchCovered, InCall

(* A claim of the batch still counts, and its lease runs. *)
BatchesStayOurs ==
    \A w \in Workers : \A c \in todo[w] :
        Matches(w, c) /\ now <= rows[c.order].leaseUntil

(* With a lease of at least Limit + 1 of the longest calls plus twice the    *)
(* skew, no claim of a batch is ever lost to another worker, whatever crashes*)
(* and lost replies there are: every write of a worker finds its claim, and  *)
(* what axum.rs asks of the lease holds.  worker_lease shows that a lease    *)
(* that outlives one call is not enough.                                     *)
THEOREM SizedLeaseSuffices ==
    ASSUME SizedLease
    PROVE  WSpec => []BatchesStayOurs /\ []ClaimOutlivesCall
<1>1. WInv /\ BatchesCovered => BatchesStayOurs
  <2> SUFFICES ASSUME WInv, BatchesCovered, NEW w \in Workers, NEW c \in todo[w]
               PROVE  Matches(w, c) /\ now <= rows[c.order].leaseUntil
    BY DEF BatchesStayOurs
  <2>1. BatchCovered(w) /\ Covered(w, c)
    BY DEF BatchesCovered, BatchCovered
  <2>2. now \in Readings /\ rows[c.order].leaseUntil \in Nat /\ now \in Nat
    BY <2>1, BatchTypes, BoundsAssumption DEF Readings, WInv
  <2>3. ~LeaseOver(c.order, now)
    BY <2>1, <2>2, NotOver
  <2> QED BY <2>1, <2>2, <2>3 DEF Covered, LeaseOver
<1>2. WInv /\ BatchesStayOurs => ClaimOutlivesCall
  BY DEF WInv, WTypeOK, BatchesStayOurs, ClaimOutlivesCall
<1>3. WInv /\ BatchesCovered /\ [WNext]_allVars => BatchesCovered'
  BY CoverStep
<1> QED BY WInvariance, CoverInit, <1>1, <1>2, <1>3, PTL DEF WSpec
=============================================================================
