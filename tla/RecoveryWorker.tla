--------------------------- MODULE RecoveryWorker ---------------------------
(***************************************************************************)
(* The recovery worker of examples/axum.rs, several instances of it over   *)
(* one OrderStore, and the provider it asks.  A cycle claims a batch of    *)
(* due rows, takes one snapshot of the active orders, and then handles the *)
(* claims one after the other: expired by its deadline, still pending by   *)
(* the snapshot, or checked with sms/check.  The result of every store     *)
(* write is ignored by the worker.                                         *)
(*                                                                         *)
(* A process may crash at any point and is restarted; a store operation    *)
(* may fail, or commit with its reply lost; provider calls take up to      *)
(* MaxCall units of time.  The provider decides asynchronously whether an  *)
(* order receives its SMS or is terminated (refunded, cancelled).          *)
(*                                                                         *)
(* Abstracted: the order inside a batch (any), the one-second sleep        *)
(* between cycles, and shutdown, which leaves the claims of the batch      *)
(* leased exactly as a crash between two claims does.  The OutcomeUnknown  *)
(* and non-exhaustive arms of the match cannot be reached: sms.check is a  *)
(* read-only endpoint, for which the transport never returns the former.   *)
(***************************************************************************)
EXTENDS OrderStore, SmsWire

CONSTANTS Poll,       \* delay before the next poll of a pending order (5 s)
          Life,       \* expires_in of a purchase
          MaxCall,    \* the longest provider call
          MaxFaults,  \* bound on crashes, failed writes and lost replies
          LastFault,  \* the last instant at which one may happen
          Prompt,     \* whether workers take no time outside provider calls
          Prose       \* whether a pending order's answer may carry a message

ASSUME WorkerAssumption ==
    /\ Poll \in Nat \ {0} /\ Life \in Nat
    /\ MaxCall \in Nat \ {0} /\ MaxFaults \in Nat /\ LastFault \in Nat
    /\ Prompt \in BOOLEAN /\ Prose \in BOOLEAN

(* from_pool: a store whose lease is not longer than min_lease, which main   *)
(* takes from max_in_flight_duration, is not built, and main ends.           *)
LeaseAccepted == Lease > 0 /\ Lease > MaxCall

ASSUME LeaseOfWorker == LeaseAccepted

(* The deadlines of the store are those that purchases of this life get.     *)
ASSUME DeadlinesAssumption ==
    \A t \in Time : t + Life <= MaxTime => t + Life \in Deadlines

VARIABLES provider,  \* provider[o]: what sms/check would answer
          pc,        \* pc[w]: where worker w is in its cycle
          todo,      \* todo[w]: the claims of the batch not handled yet
          snap,      \* snap[w]: still_pending, from the batched snapshot
          checking,  \* checking[w]: the claim and clock reading of the check
          since,     \* since[w]: when the provider call in flight started
          faults     \* faults so far

workerVars == <<provider, pc, todo, snap, checking, since, faults>>

allVars == <<rows, intents, held, now, workerVars>>

InCall(w) == pc[w] \in {"snapshot", "check"}

NoCheck == [claim |-> NULL, at |-> 0]

WInit ==
    /\ Init
    /\ provider = [o \in Orders |-> "none"]
    /\ pc = [w \in Workers |-> "idle"]
    /\ todo = [w \in Workers |-> {}]
    /\ snap = [w \in Workers |-> {}]
    /\ checking = [w \in Workers |-> NoCheck]
    /\ since = [w \in Workers |-> 0]
    /\ faults = 0

(* A fault may happen while the bounds allow it.  The clock stops at         *)
(* MaxTime, so the liveness run lets no lease be orphaned too late to run    *)
(* out before that.                                                          *)
Fault ==
    /\ faults < MaxFaults
    /\ now <= LastFault
    /\ faults' = faults + 1

(* The next poll of an order handled when the clock read t, kept within the  *)
(* bounded clock.                                                            *)
NextPoll(t) == IF t + Poll <= MaxTime THEN t + Poll ELSE MaxTime

-----------------------------------------------------------------------------
(* The provider and the purchase coordinator. *)

(* The coordinator bought an order; the provider has it as pending. *)
Buy(o, i) ==
    /\ provider[o] = "none"
    /\ provider' = [provider EXCEPT ![o] = "pending"]
    /\ RecordPurchaseIntent(i)
    /\ UNCHANGED <<pc, todo, snap, checking, since, faults>>

(* persist_purchase_before_polling: the deadline is the local clock plus the *)
(* life of the order, and the row is due at once.                            *)
Persist(o, i, t) ==
    /\ provider[o] # "none"
    /\ t + Life <= MaxTime
    /\ RecordPurchaseForIntent(i, o, t + Life, t)
    /\ UNCHANGED workerVars

Settle(o, s) ==
    /\ provider[o] = "pending"
    /\ provider' = [provider EXCEPT ![o] = s]
    /\ UNCHANGED <<vars, pc, todo, snap, checking, since, faults>>

(* The application marks an order after an ambiguous cancel or resend. *)
Mark(o) ==
    /\ rows[o].state = "polling"
    /\ MarkReconcileOnly(o)
    /\ UNCHANGED workerVars

-----------------------------------------------------------------------------
(* One cycle of a worker. *)

(* claim_due returns a batch, or commits and its reply is lost: the worker   *)
(* then sleeps and starts over without the claims.                           *)
ClaimBatch(w, S, t) ==
    /\ pc[w] = "idle"
    /\ \/ /\ ClaimDue(w, S, t, TRUE)
          /\ pc' = [pc EXCEPT ![w] = "snapshot"]
          /\ todo' = [todo EXCEPT ![w] = {ClaimOf(o) : o \in S}]
          /\ since' = [since EXCEPT ![w] = now]
          /\ UNCHANGED faults
       \/ /\ ClaimDue(w, S, t, FALSE)
          /\ Fault
          /\ UNCHANGED <<pc, todo, since>>
    /\ UNCHANGED <<provider, snap, checking>>

(* The snapshot answers with pending orders, perhaps not all of them, or     *)
(* fails, which counts as empty.  looks_delivered removes the others.        *)
Snapshot(w) ==
    /\ pc[w] = "snapshot"
    /\ \E P \in SUBSET {o \in Orders : provider[o] = "pending"} :
          snap' = [snap EXCEPT ![w] = P]
    /\ pc' = [pc EXCEPT ![w] = "batch"]
    /\ UNCHANGED <<vars, provider, todo, checking, since, faults>>

(* The claim is handled: the worker goes on whatever the write returned. *)
Handled(w, c) ==
    /\ todo' = [todo EXCEPT ![w] = @ \ {c}]
    /\ pc' = [pc EXCEPT ![w] = "batch"]
    /\ checking' = [checking EXCEPT ![w] = NoCheck]
    /\ UNCHANGED <<provider, snap, since>>

(* The write finds its claim stale, or the database does not answer. *)
NotWritten(w, c) ==
    /\ UNCHANGED vars
    /\ IF Matches(w, c) THEN Fault ELSE UNCHANGED faults

PastDeadline(c, t) == t >= c.deadline

Expire(w, c, t) ==
    /\ pc[w] = "batch"
    /\ PastDeadline(c, t)
    /\ \/ \E acked \in BOOLEAN : RecordExpired(w, c, now, acked) /\ UNCHANGED faults
       \/ NotWritten(w, c)
    /\ Handled(w, c)

StillPending(w, c, t) ==
    /\ pc[w] = "batch"
    /\ ~PastDeadline(c, t)
    /\ c.order \in snap[w]
    /\ \/ \E acked \in BOOLEAN :
             RecordPending(w, c, NextPoll(t), acked) /\ UNCHANGED faults
       \/ NotWritten(w, c)
    /\ Handled(w, c)

(* Fault variant: the claim leaves the batch before its check is answered. *)
PoppingCheck(w, c, t) ==
    /\ pc[w] = "batch"
    /\ ~PastDeadline(c, t)
    /\ c.order \notin snap[w]
    /\ pc' = [pc EXCEPT ![w] = "check"]
    /\ todo' = [todo EXCEPT ![w] = @ \ {c}]
    /\ checking' = [checking EXCEPT ![w] = [claim |-> c, at |-> t]]
    /\ since' = [since EXCEPT ![w] = now]
    /\ UNCHANGED <<vars, provider, snap, faults>>

Check(w, c, t) ==
    /\ pc[w] = "batch"
    /\ ~PastDeadline(c, t)
    /\ c.order \notin snap[w]
    /\ pc' = [pc EXCEPT ![w] = "check"]
    /\ checking' = [checking EXCEPT ![w] = [claim |-> c, at |-> t]]
    /\ since' = [since EXCEPT ![w] = now]
    /\ UNCHANGED <<vars, provider, todo, snap, faults>>

(* Fault variant: an order missing from the snapshot counts as terminated    *)
(* when its check fails.                                                     *)
AnswerAbsenceIsTerminal(w, c, t, answer) ==
    \E acked \in BOOLEAN :
        \/ /\ answer \in {"failed", "malformed"}
           /\ RecordTerminal(w, c, "terminated", now, acked)
        \/ /\ answer = "pending"
           /\ RecordPending(w, c, NextPoll(t), acked)

(* The match on the result of the check, of which one arm writes. *)
Answer(w, c, t, answer) ==
    \E acked \in BOOLEAN :
        \/ /\ answer \in {"failed", "malformed"}
           /\ ReleaseForRetry(w, c, NextPoll(t), acked)
        \/ /\ answer = "pending"
           /\ RecordPending(w, c, NextPoll(t), acked)
        \/ /\ answer \in {"received", "terminated"}
           /\ RecordTerminal(w, c, answer, now, acked)

(* What sms.check returns for order o: an error after its retries, or what   *)
(* the provider's document is decoded to.                                    *)
CheckResults(o) ==
    {"failed"} \cup {SmsCheck(d) : d \in CheckDocuments(provider[o], Prose)}

Checked(w) ==
    /\ pc[w] = "check"
    /\ LET c == checking[w].claim
           t == checking[w].at
       IN  /\ \/ /\ \E answer \in CheckResults(c.order) : Answer(w, c, t, answer)
                 /\ UNCHANGED faults
              \/ NotWritten(w, c)
           /\ Handled(w, c)

EndCycle(w) ==
    /\ pc[w] = "batch"
    /\ todo[w] = {}
    /\ DropClaims(w)
    /\ pc' = [pc EXCEPT ![w] = "idle"]
    /\ snap' = [snap EXCEPT ![w] = {}]
    /\ UNCHANGED <<provider, todo, checking, since, faults>>

(* The process dies, wherever it is, and is restarted. *)
Crash(w) ==
    /\ pc[w] # "idle"
    /\ Fault
    /\ DropClaims(w)
    /\ pc' = [pc EXCEPT ![w] = "idle"]
    /\ todo' = [todo EXCEPT ![w] = {}]
    /\ snap' = [snap EXCEPT ![w] = {}]
    /\ checking' = [checking EXCEPT ![w] = NoCheck]
    /\ UNCHANGED <<provider, since>>

(* Time passes, but no provider call lasts longer than MaxCall and a prompt  *)
(* worker does not linger between two calls.                                 *)
Pass ==
    /\ \A w \in Workers :
          /\ InCall(w) => now < since[w] + MaxCall
          /\ Prompt => pc[w] # "batch"
    /\ Tick
    /\ UNCHANGED workerVars

-----------------------------------------------------------------------------
Cycle(w) ==
    \/ \E S \in SUBSET Orders, t \in Readings : ClaimBatch(w, S, t)
    \/ Snapshot(w)
    \/ \E c \in todo[w], t \in Readings :
          Expire(w, c, t) \/ StillPending(w, c, t) \/ Check(w, c, t)
    \/ Checked(w)
    \/ EndCycle(w)

World ==
    \/ \E o \in Orders, i \in Intents :
          \/ Buy(o, i)
          \/ \E t \in Readings : Persist(o, i, t)
    \/ \E o \in Orders :
          \/ \E s \in {"received", "terminated"} : Settle(o, s)
          \/ Mark(o)

WNext ==
    \/ World
    \/ \E w \in Workers : Cycle(w) \/ Crash(w)
    \/ Pass

WSpec == WInit /\ [][WNext]_allVars

(* A worker that can take a step of its cycle takes one: the loop has no     *)
(* wait without a bound (claims, calls and sleeps all end), and the clock    *)
(* runs.  Crashes, faults, the provider and purchases are left free.         *)
FairWSpec ==
    /\ WSpec
    /\ \A w \in Workers : WF_allVars(Cycle(w))
    /\ WF_allVars(Pass)

-----------------------------------------------------------------------------
WTypeOK ==
    /\ TypeOK
    /\ provider \in [Orders -> {"none", "pending", "received", "terminated"}]
    /\ pc \in [Workers -> {"idle", "snapshot", "batch", "check"}]
    /\ todo \in [Workers -> SUBSET Claim]
    /\ snap \in [Workers -> SUBSET Orders]
    /\ \A w \in Workers :
          pc[w] = "check" => checking[w].claim \in todo[w] /\ checking[w].at \in Time
    /\ since \in [Workers -> Nat]
    /\ faults \in 0..MaxFaults

(* What the store says of an outcome is what the provider decided: the       *)
(* snapshot, a failed check and a late worker never settle an order.  That   *)
(* an order ended is so as long as no message comes with a pending one.      *)
OutcomeIsAuthoritative ==
    \A o \in Orders :
        /\ rows[o].state = "received" => provider[o] = "received"
        /\ rows[o].state = "terminated" /\ ~Prose => provider[o] = "terminated"

(* docs/api-contract.md asks that an end which sms/check only infers from a  *)
(* message be corroborated before an order is settled, since the provider    *)
(* sends messages with orders that have not ended.                           *)
EndIsCorroborated ==
    \A o \in Orders : rows[o].state = "terminated" => provider[o] = "terminated"

(* No order is given up before its deadline, up to the skew of the clocks. *)
ExpiredOnlyAfterDeadline ==
    \A o \in Orders :
        rows[o].state = "expired" => now + Skew >= rows[o].deadline

(* Every order recorded is settled in the end, through crashes, failed and   *)
(* unacknowledged writes, orphaned leases and reconciliation marks.          *)
EveryOrderSettles ==
    \A o \in Orders : rows[o].state \in Open ~> rows[o].state \in Settled

(* examples/axum.rs: a claim must outlive the longest provider call made     *)
(* while it is held.  While a check is in flight, the lease of its claim     *)
(* has not run out and the row is still the worker's.                        *)
ClaimOutlivesCall ==
    \A w \in Workers :
        pc[w] = "check" =>
            LET c == checking[w].claim
            IN  Matches(w, c) /\ now <= rows[c.order].leaseUntil
=============================================================================
