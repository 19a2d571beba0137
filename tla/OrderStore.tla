----------------------------- MODULE OrderStore -----------------------------
(***************************************************************************)
(* The PostgreSQL order store of the durable-polling example               *)
(* (examples/postgres_order_store.rs and its migration): the table of      *)
(* orders, the ledger of purchase intents, and the claims that workers     *)
(* hold in memory.  Every public operation that writes is one action: each *)
(* is a single statement or a single transaction in the code.              *)
(*                                                                         *)
(* Several workers, possibly configured with the same owner name, claim    *)
(* rows under a lease, are slow or crash while holding claims, and write   *)
(* back later.  A worker's clock is its host's: a reading may be Skew away *)
(* from the true time.  A reply may be lost after the database committed.  *)
(*                                                                         *)
(* Abstracted: fingerprints and encryption (an order or an intent is its   *)
(* own key), created_at, updated_at and poll_attempts (written, never      *)
(* read).  An operation that fails its WHERE clause returns StaleClaim and *)
(* changes nothing: it is the action not being enabled.                    *)
(***************************************************************************)
EXTENDS Integers, FiniteSets

CONSTANTS Orders,      \* provider orders (one row each at most)
          Intents,     \* application correlations
          Workers,     \* worker processes, each with its own OrderStore value
          OwnerNames,  \* values of SMSPOOL_WORKER_OWNER
          Owner,       \* Owner[w]: the name worker w was configured with
          NULL,        \* SQL NULL
          Lease,       \* lease_ms
          Skew,        \* how far a worker's clock may be from the true time
          Deadlines,   \* deadline_ms values a purchase may carry
          Limit,       \* the claim_due batch limit
          MaxTime,     \* bound on the clock
          MaxVersion   \* bound on the version at which a row may be claimed

ASSUME OwnerAssumption == Owner \in [Workers -> OwnerNames]
ASSUME NullAssumption == NULL \notin OwnerNames \cup Intents \cup Nat
ASSUME LeaseAssumption == Lease \in Nat \ {0}
ASSUME BoundsAssumption ==
    /\ Skew \in Nat /\ Limit \in Nat /\ MaxTime \in Nat /\ MaxVersion \in Nat
    /\ Deadlines \subseteq Nat

VARIABLES rows,     \* smspool_example_orders
          intents,  \* smspool_example_mutation_intents
          held,     \* held[w]: the ClaimedOrder values in w's memory
          now       \* true time

vars == <<rows, intents, held, now>>

Open == {"polling", "reconcile_only"}

Settled == {"received", "terminated", "expired", "failed"}

IntentStates == {"absent", "pending", "reconcile_only", "resolved"}

Columns == [state      : {"absent"} \cup Open \cup Settled,
            intent     : Intents \cup {NULL},
            deadline   : Nat,
            nextPoll   : Nat,
            leaseOwner : OwnerNames \cup {NULL},
            leaseUntil : Nat \cup {NULL},
            version    : Nat]

(* The two lease columns are set and cleared together. *)
Row == {r \in Columns : r.leaseOwner = NULL <=> r.leaseUntil = NULL}

Claim == [order    : Orders,
          version  : Nat,
          state    : Open \cup Settled,
          deadline : Nat]

Time == 0..MaxTime

(* What now_ms() may return on some host. *)
Readings == {t \in Time : now - Skew <= t /\ t <= now + Skew}

NoRow == [state |-> "absent", intent |-> NULL, deadline |-> 0, nextPoll |-> 0,
          leaseOwner |-> NULL, leaseUntil |-> NULL, version |-> 0]

NewRow(i, d, t) ==
    [state |-> "polling", intent |-> i, deadline |-> d, nextPoll |-> t,
     leaseOwner |-> NULL, leaseUntil |-> NULL, version |-> 0]

Init ==
    /\ rows = [o \in Orders |-> NoRow]
    /\ intents = [i \in Intents |-> "absent"]
    /\ held = [w \in Workers |-> {}]
    /\ now = 0

-----------------------------------------------------------------------------
(* The intent ledger. *)

(* ON CONFLICT DO NOTHING: an intent already recorded stays as it is, and    *)
(* the caller is answered as for a new one.                                  *)
RecordPurchaseIntent(i) ==
    /\ intents' = [intents EXCEPT ![i] = IF @ = "absent" THEN "pending" ELSE @]
    /\ UNCHANGED <<rows, held, now>>

ResolvePurchaseIntent(i) ==
    /\ intents[i] \in {"pending", "reconcile_only"}
    /\ intents' = [intents EXCEPT ![i] = "resolved"]
    /\ UNCHANGED <<rows, held, now>>

MarkPurchaseIntentReconcileOnly(i) ==
    /\ intents[i] = "pending"
    /\ intents' = [intents EXCEPT ![i] = "reconcile_only"]
    /\ UNCHANGED <<rows, held, now>>

-----------------------------------------------------------------------------
(* Recording purchases. *)

RecordPurchase(o, d, t) ==
    /\ rows[o].state = "absent"
    /\ rows' = [rows EXCEPT ![o] = NewRow(NULL, d, t)]
    /\ UNCHANGED <<intents, held, now>>

(* The row after the INSERT .. ON CONFLICT DO NOTHING and the UPDATE that    *)
(* binds an intent to a row that has none.                                   *)
Bound(o, i, d, t) ==
    IF rows[o].state = "absent" THEN NewRow(i, d, t)
    ELSE IF rows[o].intent = NULL THEN [rows[o] EXCEPT !.intent = i]
    ELSE rows[o]

(* The partial unique index on intent_fingerprint. *)
IntentFree(o, i) == \A p \in Orders \ {o} : rows[p].intent # i

(* record_purchase_for_intent finds the intent with another order, or the    *)
(* order with another intent: it fails and changes nothing.                  *)
Conflict(i, o) == ~IntentFree(o, i) \/ rows[o].intent \notin {NULL, i}

(* Fault variant: without the unique index. *)
UncheckedRecordPurchaseForIntent(i, o, d, t) ==
    /\ Bound(o, i, d, t).intent = i
    /\ intents[i] # "absent"
    /\ rows' = [rows EXCEPT ![o] = Bound(o, i, d, t)]
    /\ intents' = [intents EXCEPT ![i] = "resolved"]
    /\ UNCHANGED <<held, now>>

(* Fault variant: the row and its link are committed, the intent is left to  *)
(* a later transaction.                                                      *)
SplitRecordPurchaseForIntent(i, o, d, t) ==
    /\ IntentFree(o, i)
    /\ Bound(o, i, d, t).intent = i
    /\ intents[i] # "absent"
    /\ rows' = [rows EXCEPT ![o] = Bound(o, i, d, t)]
    /\ UNCHANGED <<intents, held, now>>

(* One transaction: a conflict with the unique index, a row linked to        *)
(* another intent, or an intent that was never recorded roll it all back.    *)
RecordPurchaseForIntent(i, o, d, t) ==
    /\ IntentFree(o, i)
    /\ Bound(o, i, d, t).intent = i
    /\ intents[i] # "absent"
    /\ rows' = [rows EXCEPT ![o] = Bound(o, i, d, t)]
    /\ intents' = [intents EXCEPT ![i] = "resolved"]
    /\ UNCHANGED <<held, now>>

(* No lease or version is looked at, and the version does not move. *)
MarkReconcileOnly(o) ==
    /\ rows[o].state \in Open
    /\ rows' = [rows EXCEPT ![o].state = "reconcile_only"]
    /\ UNCHANGED <<intents, held, now>>

-----------------------------------------------------------------------------
(* Claiming. *)

(* The lease is absent or expired for a caller whose clock reads t. *)
LeaseOver(o, t) == rows[o].leaseUntil # NULL => rows[o].leaseUntil < t

(* Fault variant: the state filter is missing, so settled rows are due too. *)
AnyStateDue(o, t) ==
    /\ rows[o].state # "absent"
    /\ rows[o].nextPoll <= t
    /\ LeaseOver(o, t)

(* Fault variant: rows under reconciliation are never polled. *)
PollingDue(o, t) ==
    /\ rows[o].state = "polling"
    /\ rows[o].nextPoll <= t
    /\ LeaseOver(o, t)

(* The WHERE clause of claim_due_at for a caller whose clock reads t. *)
Due(o, t) ==
    /\ rows[o].state \in Open
    /\ rows[o].nextPoll <= t
    /\ LeaseOver(o, t)

Leased(w, o, t) ==
    [rows[o] EXCEPT !.leaseOwner = Owner[w],
                    !.leaseUntil = t + Lease,
                    !.version = @ + 1]

ClaimOf(o) ==
    [order |-> o, version |-> rows[o].version + 1,
     state |-> rows[o].state, deadline |-> rows[o].deadline]

(* One transaction over the rows S it locked.  Rows locked by a concurrent   *)
(* transaction are skipped, so S is any set of due rows within the limit.    *)
(* When the reply is lost (~acked) the rows are leased and nobody holds them.*)
ClaimDue(w, S, t, acked) ==
    /\ S # {} /\ Cardinality(S) <= Limit
    /\ \A o \in S : Due(o, t) /\ rows[o].version < MaxVersion
    /\ rows' = [o \in Orders |-> IF o \in S THEN Leased(w, o, t) ELSE rows[o]]
    /\ held' = IF acked
               THEN [held EXCEPT ![w] = @ \cup {ClaimOf(o) : o \in S}]
               ELSE held
    /\ UNCHANGED <<intents, now>>

-----------------------------------------------------------------------------
(* Writing back under a claim. *)

(* Fault variant: update_claim identifies the claim by its owner alone. *)
MatchesOwnerOnly(w, c) == rows[c.order].leaseOwner = Owner[w]

(* The WHERE clause of update_claim. *)
Matches(w, c) ==
    /\ rows[c.order].leaseOwner = Owner[w]
    /\ rows[c.order].version = c.version

(* Fault variant: the expiry of the lease is left behind. *)
ReleasedKeepingExpiry(c, s, n) ==
    [rows[c.order] EXCEPT !.state = s,
                          !.nextPoll = n,
                          !.leaseOwner = NULL,
                          !.version = c.version + 1]

Released(c, s, n) ==
    [rows[c.order] EXCEPT !.state = s,
                          !.nextPoll = n,
                          !.leaseOwner = NULL,
                          !.leaseUntil = NULL,
                          !.version = c.version + 1]

(* The lease is not checked for expiry and the row's state is not looked at. *)
(* The claim in memory follows the row only when the reply arrives.          *)
UpdateClaim(w, c, s, n, acked) ==
    /\ c \in held[w]
    /\ Matches(w, c)
    /\ rows' = [rows EXCEPT ![c.order] = Released(c, s, n)]
    /\ held' = IF acked
               THEN [held EXCEPT ![w] =
                       (@ \ {c}) \cup {[c EXCEPT !.version = @ + 1, !.state = s]}]
               ELSE held
    /\ UNCHANGED <<intents, now>>

RecordPending(w, c, n, acked) == UpdateClaim(w, c, "polling", n, acked)

RecordTerminal(w, c, s, n, acked) ==
    /\ s \in {"received", "terminated"}
    /\ UpdateClaim(w, c, s, n, acked)

RecordExpired(w, c, n, acked) == UpdateClaim(w, c, "expired", n, acked)

(* Writes back the state the claim was granted with. *)
ReleaseForRetry(w, c, n, acked) ==
    /\ c.state \in Open
    /\ UpdateClaim(w, c, c.state, n, acked)

ReleaseOrFail(w, c, n, acked) == UpdateClaim(w, c, "failed", n, acked)

RecordReconcileOnly(w, c, n, acked) == UpdateClaim(w, c, "reconcile_only", n, acked)

-----------------------------------------------------------------------------
(* The worker process and time. *)

(* The vector of claims goes out of scope: the worker crashed, was restarted *)
(* or abandoned its batch.                                                   *)
DropClaims(w) ==
    /\ held[w] # {}
    /\ held' = [held EXCEPT ![w] = {}]
    /\ UNCHANGED <<rows, intents, now>>

Tick ==
    /\ now < MaxTime
    /\ now' = now + 1
    /\ UNCHANGED <<rows, intents, held>>

-----------------------------------------------------------------------------
LedgerStep ==
    \E i \in Intents :
        \/ RecordPurchaseIntent(i)
        \/ ResolvePurchaseIntent(i)
        \/ MarkPurchaseIntentReconcileOnly(i)
        \/ \E o \in Orders, d \in Deadlines, t \in Readings :
              RecordPurchaseForIntent(i, o, d, t)

PurchaseStep ==
    \E o \in Orders :
        \/ \E d \in Deadlines, t \in Readings : RecordPurchase(o, d, t)
        \/ MarkReconcileOnly(o)

WriteStep(w, c, n, acked) ==
    \/ RecordPending(w, c, n, acked)
    \/ \E s \in {"received", "terminated"} : RecordTerminal(w, c, s, n, acked)
    \/ RecordExpired(w, c, n, acked)
    \/ ReleaseForRetry(w, c, n, acked)
    \/ ReleaseOrFail(w, c, n, acked)
    \/ RecordReconcileOnly(w, c, n, acked)

WorkerStep(w) ==
    \/ \E S \in SUBSET Orders, t \in Readings, acked \in BOOLEAN :
          ClaimDue(w, S, t, acked)
    \/ \E c \in held[w], n \in Time, acked \in BOOLEAN : WriteStep(w, c, n, acked)
    \/ DropClaims(w)

Next ==
    \/ LedgerStep
    \/ PurchaseStep
    \/ \E w \in Workers : WorkerStep(w)
    \/ Tick

Spec == Init /\ [][Next]_vars

-----------------------------------------------------------------------------
TypeOK ==
    /\ rows \in [Orders -> Row]
    /\ intents \in [Intents -> IntentStates]
    /\ held \in [Workers -> SUBSET Claim]
    /\ now \in Nat

(* At most one ClaimedOrder in the memory of all workers together can still *)
(* write a given row: a worker that outlived its lease is fenced by the     *)
(* version even when both workers were configured with the same owner name, *)
(* when clocks disagree and when replies were lost (claim_due_at,           *)
(* update_claim).                                                           *)
OneCurrentClaim ==
    \A w1, w2 \in Workers :
        \A c1 \in held[w1], c2 \in held[w2] :
            /\ c1.order = c2.order
            /\ Matches(w1, c1)
            /\ Matches(w2, c2)
            => w1 = w2 /\ c1 = c2

(* A claim that can still write belongs to an open row, was granted in the  *)
(* row's present state unless mark_reconcile_only moved it since, and       *)
(* carries the row's deadline: this is why update_claim may overwrite the   *)
(* state without looking at it.                                             *)
CurrentClaimIsFresh ==
    \A w \in Workers : \A c \in held[w] :
        Matches(w, c) =>
            /\ rows[c.order].state \in {c.state, "reconcile_only"}
            /\ c.state \in Open
            /\ c.deadline = rows[c.order].deadline

(* An order linked to an intent implies that intent is resolved, and no two *)
(* orders share one: the transaction of record_purchase_for_intent never    *)
(* leaves a linked order whose intent still looks unpaid, or unknown.       *)
LinkedIntentResolved ==
    \A o \in Orders :
        rows[o].intent # NULL =>
            /\ intents[rows[o].intent] = "resolved"
            /\ IntentFree(o, rows[o].intent)

(* A settled row keeps its outcome, its schedule and its version whatever   *)
(* late workers, lost replies or reconciliation marks do; only the link to  *)
(* an intent may still be filled in.                                        *)
SettledRowsKept ==
    \A o \in Orders :
        rows[o].state \in Settled =>
            rows'[o] = [rows[o] EXCEPT !.intent = rows'[o].intent]

SettledIsFinal == [][SettledRowsKept]_vars

(* The store implements the ledger: leases, versions, claims, clocks and    *)
(* crashes are invisible in what is recorded of orders and intents.         *)
Ledger ==
    INSTANCE OrderLedger
        WITH order  <- [o \in Orders |-> rows[o].state],
             link   <- [o \in Orders |-> rows[o].intent],
             intent <- intents

ImplementsLedger == Ledger!Spec

(* docs/production-research.md says an ordinary read-only retry must not    *)
(* downgrade reconcile_only to polling, because release_for_retry writes    *)
(* back the state the claim carries.                                        *)
RetryKeepsReconcileOnly ==
    [][\A w \in Workers : \A c \in held[w] : \A n \in Time, acked \in BOOLEAN :
          /\ ReleaseForRetry(w, c, n, acked)
          /\ rows[c.order].state = "reconcile_only"
          => rows'[c.order].state = "reconcile_only"]_vars
=============================================================================
