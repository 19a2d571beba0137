# Formal model of smspool-sdk

TLA+ specifications of the Rust SDK in `src/` (an async client of the SMSPool
API) and of the durable-polling service that its examples build on it
(PostgreSQL order store, purchase coordination, recovery worker), the TLC
instances that check them, and TLAPS proofs that hold for every instance.

What is at stake is money and telephone numbers: a purchase or a cancellation
is a paid or refunding mutation that must not be sent twice, must not be
reported as not done when it was done, and an order that was bought must be
followed until its outcome is known, through crashes, lost replies, several
worker processes and a provider that may answer anything.

## 1. The system

| Component | State it keeps | Operations | Where |
|---|---|---|---|
| Client and builder | base URL, credential, limits; shared by clones | `build`, `max_in_flight_duration` | `src/client.rs` |
| Transport pipeline | per call: attempt number, the answer in hand | `execute`, `execute_attempt`: validate, admit, send, headers, body, decode, retry | `src/transport.rs` |
| Admission | semaphore with its queue, `qps_state.next_start` | `acquire_admission` | `src/transport.rs` |
| Endpoint registry | constant table: name, path, safety class | none | `src/endpoint.rs` |
| Error model | none | `Error` kinds, redaction, `retry_after` | `src/error.rs` |
| Types, lenient decoding | none | deserialize provider documents | `src/types.rs`, `src/de.rs` |
| API wrappers | none | one request per method | `src/api/*.rs` |
| SMS poller | per wait: deadline, interval, last snapshot | `wait_for_sms`, `wait_for_code_with` | `src/poll.rs` |
| Active-orders watcher | fingerprints, pending events, next poll | `ActiveOrdersWatcher::next` | `src/poll.rs` |
| Cancel workflow | per run: attempts, checks, observations | `cancel_with_reconciliation` | `src/poll.rs` |
| Order store | tables of orders and of intents; claims in the workers' memory | `record_*`, `mark_reconcile_only`, `claim_due_at`, `release_for_retry`, ... | `examples/postgres_order_store.rs` |
| Recovery worker | batch of claims, snapshot | `run_recovery_worker`, `persist_purchase_before_polling` | `examples/axum.rs` |
| Purchase coordinator | outside the repository; its integration points are there | intent, paid request, persist, mark | comments in both examples |
| HTTP routes | none | health, readiness, order status (reads) | `examples/axum.rs` |
| Contract and acceptance tooling | none at run time | scripts over documents | `scripts/` |

**Interactions.** An API wrapper builds a request and hands it to the transport;
each attempt of the transport passes through admission, which all clones of a
client share. The poller, the watcher and the cancel workflow are loops over SDK
calls with waits in between; their waits (and, for reads, their calls) are raced
against a deadline and the caller's cancellation token. The coordinator records an
intent, buys, and persists the order before anything polls it. The recovery worker
claims due rows from the store under a lease, asks the provider through the SDK (one
snapshot, then one check per order that the snapshot does not show as pending), and
writes the outcome back under its claim. Several workers share the database, and
possibly an owner name.

**What is hard, and what makes each part correct.**

- *Transport*: timeouts and broken connections leave it open whether a mutation
  was performed; the body is a second wait; retries are for reads only. Correct: a
  mutation is delivered at most once, one that was performed never comes back as
  "not sent", occupation of the caller is bounded, every call returns.
- *Admission*: attempts overtake each other between reading the schedule, waiting
  in line and committing a start; any wait may time out or be dropped. Correct: no
  permit is lost, the start rate is kept, every wait ends within its timeouts.
- *Cancel workflow*: the order changes between the calls a verdict is put together
  from; a cancellation of unknown fate may still be performed. Correct: what is
  reported is so, a cancellation is repeated only when that is safe, no live number
  is given up before the attempts are spent, and the workflow ends.
- *Order store*: expired leases, equal owner names, skewed clocks and replies lost
  after a commit. Correct: one current claim per order, settled rows stay settled,
  linked intents are resolved.
- *Purchase coordinator*: it crashes between the paid request and the store, its
  store replies are lost, the answer never comes or cannot be read, the request is
  performed later, the same intent is taken up again or by two processes. Correct, as far
  as the store can see to it: no paid order becomes untraceable, no intent is resolved
  without an order it paid for, and no two orders are linked to one intent.
- *Recovery worker*: the result of every write is ignored, the snapshot may be
  stale or partial, one lease covers a whole batch. Correct: outcomes are the
  provider's, nothing is given up before its deadline, every order settles.
- *SMS poller*: an answer arrives together with a stop, a 429 asks for more than is
  left, jitter moves every delay, answers have no tag. Correct: the backoff and
  Retry-After are kept, a stop is final, the last snapshot is reported, what is
  returned is so, and the wait ends.
- *Watcher*: the orders change between two calls, the future is dropped at an await,
  the limit is exceeded, a poll fails. Correct: no event is lost, repeated or
  outdated, the limit is checked before anything changes, a stop outranks events.

`PROJECT.json` lists every component, the hazards with the line where each one
bites and the properties that cover it, and maps every definition to the lines it
models.

## 2. Modules

| Module | Models | Extends / instantiates |
|---|---|---|
| `OrderLedger` | abstract: what the service records of orders and intents | |
| `OrderStore` | every writing operation of the PostgreSQL store, claims in memory, clocks | refines `OrderLedger` |
| `SmsWire` | the untagged documents of `sms/check` and `purchase/sms` and what they decode to | |
| `PurchaseCoordinator` | buying with the store: crashes, lost replies, a late provider | composes with `OrderStore`; `SmsWire` |
| `RecoveryWorker` | worker loop, purchase persistence, provider, crashes and faults | composes with `OrderStore`; `SmsWire` |
| `ApiCall` | abstract: the promise of one SDK call | |
| `Transport` | one call with its retries | refines `ApiCall` |
| `ClientBuilder` | `build`: which settings make a client and what it takes from them | |
| `Admission` | concurrent attempts, semaphore and start slots | `ClientBuilder` |
| `CancelRule` | `decode_api_error` and `CancelTimeLockRule`: how a time lock is recognised | |
| `CancelWorkflow` | `cancel_with_reconciliation` and its provider | `CancelRule`; instantiates `ApiCall` per cancellation |
| `Polling` | the delay policy of the polling workflows | |
| `PollSms` | `wait_for_sms`, `wait_for_code_with` | `Polling`, `SmsWire` |
| `ChangeFeed` | abstract: what a watcher tells the one who calls it | |
| `ActiveWatcher` | `ActiveOrdersWatcher` over changing orders | `Polling`; refines `ChangeFeed` |
| `OrderStoreProofs`, `PurchaseProofs`, `RecoveryWorkerProofs`, `TransportProofs`, `AdmissionProofs`, `CancelWorkflowProofs`, `PollSmsProofs`, `ActiveWatcherProofs` | theorems and proofs | the module they are named for, TLAPS and its theorem modules; the second and third also `OrderStoreProofs` |
| `MC*` | small instances for TLC | the module they are named for |

Operators whose comment begins "Fault variant" are deliberate mistakes (a dropped
guard, a forgotten reset). They are used only to show that each property notices
such a mistake; no specification refers to them.

### Order store

One action per public operation that writes; each is one SQL statement or one
transaction, so each is atomic. `rows` is the order table, `intents` the ledger,
`held[w]` the `ClaimedOrder` values in worker `w`'s memory. A row is leased or
it is not (both lease columns or neither), and `version` grows with every claim and
every write under a claim. `Matches(w, c)` is the WHERE clause of `update_claim`:
same order, owner *name* and version. `acked = FALSE` is a commit whose reply was
lost: the row has moved on and the claim in memory has not. A clock reading is any
instant within `Skew` of the true time. An operation whose WHERE clause selects nothing returns
`StaleClaim` and changes nothing; it is not enabled.

Abstracted: encryption and fingerprints of order ids (an order is its own key),
`created_at`, `updated_at`, `poll_attempts`.

### Purchase coordinator

The repository has the operations and says how they are to be used; the coordinator
itself is the application's, so its control is marked external and follows the comments.
Nothing is assumed of when coordinators run, how many there are, or what they remember.
`coord[k]` is where coordinator `k` is, for which intent, and the order its request
buys; `payer[o]` the intent of the request that may buy order `o`; `request[o]` what became
of that request (sent once; performed or refused, perhaps after the answer was given up
on: the promise of `ApiCall`). An order stands for a request, since each request that is
performed buys one. Every store call may commit with its reply lost (`Replied`), a
coordinator may `Crash` anywhere, and the answer may be a document that cannot be read. Both
ways to persist are there: the one transaction, and the two older calls.

`record_purchase_intent` answers alike for a new intent and for a recorded one
(`ON CONFLICT DO NOTHING`), so it keeps nobody from paying for an intent again. The model
has this behaviour: `RecordIntent` is enabled for every intent, two coordinators may
pay for one intent, and the store's part is what it does then. The second order is rejected
(`PersistRejected`, the conflict of `record_purchase_for_intent`) and stays without a row, or
the two older calls store it without a link. That an intent pays at most once is
therefore *not* a property of this code and none is stated.

### Recovery worker

`pc[w]` follows the loop: idle, snapshot in flight, batch, check in flight. `todo`
is the rest of the batch, `snap` the set the snapshot shows as pending.
`Crash` empties a process' memory at any point; `NotWritten` is a write that
found its claim stale or no database; the worker ignores it, as the code does. Shutdown between two
claims has the effect of a crash there. The snapshot may leave out pending orders. What
a check returns is what `SmsWire` makes of one of the provider's documents.

### Transport and ApiCall

`pc` follows one call: start, admit, send, headers, body, decode, pause. Every wait
takes any time up to its timeout and is added to `elapsed`. `delivered` and
`performed` are what the provider knows. The provider answers with any status and any kind
of body, at any moment, under one assumption, `Honest`: the body of a success status
decodes as success only if the operation was performed, and a 429,
another 4xx or a failure document means that it was not (a 5xx is exempt, whether or not the
code retries it: it may stand for either). `Abandon` is the
caller dropping the future at an await.

`ApiCall` keeps of this only deliveries, performance and one of the verdicts
done, not done, unknown, server error, abandoned.

### Client builder and admission

`ClientBuilder` has every condition of `build` and `RetryPolicy::validate`, the
fallback of the QPS timeout, and the interval of the limiter with its rounding.
`Admission` starts from any accepted builder. Its state is the semaphore with its FIFO
queue and the next start slot. An attempt reads
the slot, sleeps without a permit, joins the line, takes a permit and looks at
the slot again; if another attempt took it, it gives the permit back and starts
over against its first deadline. A client without a limit skips the slots. A timer
fires when it is due: time does not pass while a step can be taken. The lock of the schedule is held for an instant, so waiting
for it takes no time; but several attempts may want it in the same instant, and one whose
deadline is that instant may give up there (`LockTimeout`). `Leave` is an attempt that ended
in flight or was dropped at any await, those for the lock included.

### Cancel workflow

`order` and `locked` are the provider's, `wire` is a cancellation of unknown fate
that may still be performed, `effected` whether one of this workflow's was. The
workflow alternates an attempt with `reconcile_once` (`sms/check`, then
`sms/active`, read one after the other) and decides. The caller's token and the
deadline may end it only where the code looks at them. A cancellation's answer is
related to its effect by `ApiCall`, instantiated with the call's deliveries and
verdict, so what the workflow relies on is what `Transport` is shown to give.
Whether a refusal counts as a time lock is computed (`RuleFires`): the body of the
answer is decoded with the keys in the order of `decode_api_error` and compared with
the rule. Observations are honest about the order at the moment of the read: a pending order
is not reported as gone, though a single read may fail, and `sms/check` may show a
message on an order that is still pending.

### SMS poller and watcher

`Polling` has the delay policy both share; a delay is a set, since jitter is random.
In `PollSms` every select looks at the token first, then at the deadline, then at its
own future, so an answer that is at hand when a stop comes is lost. `interval`,
`wakeAt` and `lastObserved` are the code's locals. In `ActiveWatcher` `pc` is where
`next()` is, "idle" outside it; a dropped future (`Drop`) returns there and keeps the
watcher's fields. `RecordSnapshot` is the whole of `record_snapshot`, limit check first;
rows of one answer may name an order twice and the last one counts. `told` is what the
caller has been told and is a history variable, as are `checks`, `latest`,
`notBefore` and `floor`.

## 3. What the runs check

Twelve runs, one question each. Those that pass:

| Run | Properties | What it shows |
|---|---|---|
| `purchase` | `PTypeOK`, `PaidOrderTraceable`, `ResolvedHasItsOrder`, `LinkedIntentResolved`, `ImplementsLedger` | Two coordinators over two intents, which they may share and pay for twice, beside a worker, with two crashes or lost replies anywhere: what was paid for is not forgotten, and the store links and resolves consistently. 352,132 states up to symmetry. |
| `worker` | `WTypeOK`, `OneCurrentClaim`, `OutcomeIsAuthoritative`, `SettledIsFinal`, `EveryOrderSettles` | Two workers with the *same* owner name over one order, with a crash, a failed write or a lost reply: fencing holds, outcomes are the provider's, every order settles. 219,254 states. |
| `transport` | `TypeOK`, `AtMostOneDelivery`, `HonestOutcome`, `BoundedOccupation`, `ImplementsApiCall`, `EveryCallReturns` | One call of each safety class against every provider. 107,343 states. |
| `admission` | `TypeOK`, `PermitsConserved`, `StartRate`, `BoundedWait`, `EveryWaitEnds` | Three concurrent calls, with a retry each, over two permits, with and without a rate limit, on the clients that a set of builders makes. 149,401 states. |
| `cancel` | `TypeOK`, `DispositionTruthful`, `NoLiveNumberAbandoned`, `ReconciliationsBounded`, `NoUnsafeCancel`, `WorkflowEnds` | Three attempts and three rounds against a provider that locks, refuses, delivers, ends the order or performs a request late. 20,340 states. |
| `poll_sms` | `TypeOK`, `BackoffKept`, `LatestObservationKept`, `ResultIsReal`, `StopIsFinal`, `Ends` | One wait against documents of every shape, 429s with a short and a long Retry-After, and a token cancelled at any point. 134,386 states. |
| `watcher` | `TypeOK`, `QueueIsTheDifference`, `LimitHolds`, `RetryAfterRespected`, `StopOutranksEvents`, `ImplementsFeed`, `EventuallyTold` | Three orders that appear, change and vanish over a limit of two, with two troubles (a 429, a failed poll, a dropped future) at any point and in any order. 225,561 states. |

Those that find a disagreement between the code and what the repository says of it:

| Run | Claim (where) | What the code does |
|---|---|---|
| `order_store_retry` | a read-only retry must not downgrade `reconcile_only` to `polling` (`docs/production-research.md:207`) | `release_for_retry` writes back the state the claim was granted with, and `mark_reconcile_only` does not move the version: an order marked after it was claimed becomes `polling` again. |
| `worker_lease` | a claim must outlive the longest provider call made while it is held (`examples/axum.rs:48`) | One lease of twice the longest call covers the snapshot and all checks of a batch; the third call made under it may run past it. The version still fences the late write, so the cost is a repeated check. |
| `worker_prose` | an end inferred from the message of `sms/check` is to be corroborated, since the provider puts prose into answers for orders that have not ended (`docs/api-contract.md:162`) | The worker records `Terminated` on such an answer alone, and the order is never polled again. `cancel_with_reconciliation` does corroborate. |
| `transport_bound` | `max_in_flight_duration` bounds one call (`src/client.rs:152`) | An attempt spends up to one request timeout on the headers and another on the body; one is counted. With the example's settings: 180 s claimed, 270 s possible. |
| `cancel_unknown` | once a cancellation is sent the caller relies on the disposition (`docs/api-contract.md:164`) | A deadline or the token during the wait between two checks returns an error and drops the `OutcomeUnknown` disposition. |

### Bounds, and why they are enough

- *Purchase*: two coordinators, two intents and two orders, because a violation needs an
  intent that pays twice, an order with two intents or an intent with the other's order; two
  faults, so that a crash can follow a lost reply. The clock stands still: the coordinator
  uses it for the stamps of a row only. One worker claims each row once (`MaxVersion`).
  Orders, intents and coordinators are symmetric: no definition names or compares
  particular ones, and the properties of the run quantify over all of them and are
  safety properties.
- *Worker*: two workers are the least that can disagree, and one row is enough, since
  no statement of a claim relates two rows. A lease of twice the longest call, five units
  of time and one fault let a lease run out under its holder, be taken over and
  settle; `LastFault` leaves room for an orphaned lease to run out before the clock
  stops, and `MaxVersion` is above what the longest behaviour reaches, so neither bound
  makes or hides a counterexample. Clocks agree in every passing run (`Skew = 0`; with a skew of
  one this run has several million states), so these say nothing of clocks that
  disagree: that part is the theorems' (`Fencing`, `NoEarlyExpiry`), which hold for any skew.
  A lease that does not exceed the longest call is refused by `from_pool`, hence
  `LeaseOfWorker`.
- *Transport*: three attempts give a first, a middle and a last one; the delays are
  the smallest for which backoff, cap, jitter and Retry-After differ.
- *Admission*: with two permits and three calls one always waits; the limit of three in
  a second of five units makes the interval round, `MaxTries = 2` lets a call come back
  while others are in line, and a call asks only when its longest wait fits into the
  clock. Seven more builders break one condition of `build` each.
- *Cancel*: three attempts and three rounds, so that the counter of rounds and the
  counter of attempts are both advanced before they are compared.
- *Poller*: intervals of 2, 3, 3 show base, cap and the stay at the cap; the Retry-After
  values lie below and above every delay, and a deadline of 9 leaves room for four
  checks and cuts the last sleep short. Waits start at any time up to the deadline.
- *Watcher*: three orders over a limit of two exceed it; two changes let an order vanish
  and come back, or two orders change between two polls; two troubles let a call be
  dropped while the Retry-After of a 429 still runs, and the next call find it.
  Answers have up to three rows (`MaxRows`): all three orders, or two and one of them
  again, which must not count against the limit. `MaxChanges` and `MaxTroubles` are
  bounds of the model too.

`CHECK_DEADLOCK FALSE` is set throughout: a call and a workflow end, the clock
stops at its bound, and a settled order gives a worker nothing to do.

### Fairness

- `PurchaseCoordinator`: none. Nothing in the repository schedules a coordinator, so no
  liveness is claimed for purchases.
- `RecoveryWorker`: weak fairness of each worker's cycle and of the clock. Every
  await in the loop is bounded (database operations return or fail, SDK calls
  return, sleeps end) and `tokio` runs what is ready. Faults, purchases, marks and the
  provider's decisions are *not* fair: an order settles even if its SMS never comes.
- `Transport`: weak fairness of the call's own steps; each wait is under a timeout.
- `Admission`: weak fairness of the steps of each attempt that need only the executor,
  and of time. That an attempt in flight ever ends is *not* assumed.
- `CancelWorkflow`: weak fairness of the workflow: every call returns
  (`EveryCallReturns`), every wait ends. Nothing is assumed of provider, token or deadline.
- `PollSms`: weak fairness of the workflow's steps and of time. The provider need not answer:
  the deadline ends the wait.
- `ActiveWatcher`: weak fairness of the caller and the watcher, of time, and of the
  provider answering; "eventually told" means nothing to a caller who stops calling.

## 4. What is proved

The theorems hold for every value of the constants, under the named assumptions of
the modules, which TLC also evaluates on each run. Every safety property that a
passing run checks is a theorem. Three more are proved and in no run,
because a run's property already fails when they do or they follow the guards closely:
`CurrentClaimIsFresh`, `ExpiredOnlyAfterDeadline`, and `RetryAfterRespected` of the poller.

**Order store** (`OrderStoreProofs`): `TypeCorrect`, `Fencing`, `FreshClaims`,
`LinkedIntents`, `SettledForever`, `StoreImplementsLedger`. The inductive invariant
is the conjunction of the checked invariants with

- `ClaimsNotAhead`: no claim in memory has a version above its row's. Without it a new claim of the row
  could meet an old one with the same version.
- `AbsentIsBlank`: a row not yet recorded is blank. Without it recording a purchase could
  revive a lease that a claim still matches.

A claim transaction writes a version above all claims in memory, so it fences them
all; a write clears the owner, so nothing matches until the next claim. Nothing
is assumed of the clocks: fencing does not depend on them, nor on the names of the owners.
Settled rows are final because a claim that matches belongs to an open row.

**Purchases** (`PurchaseProofs`): `PTypeCorrect`, `ResolvedIsStored`,
`PaidOrdersTraceable`, `PurchasesUseTheStore`, `PurchasesImplementLedger`,
`PurchasesAreFenced`, for any number of coordinators on the same or on different
intents. `PInv` adds that an order stands for a request exactly once that is out
(`RequestHasPayer`), that an intent is recorded before anything is done for it
(`IntentFirst`), and what a coordinator relies on at its stage (`StageHolds`): the order it
is about to persist was paid for by its own intent, and the two older calls
come to resolving only with the order in the store. No step of another coordinator or of a
worker takes this away, because rows and links stay. So a resolved intent has an
order it paid for in the store, and a paid order without a row either has an open intent or
is not the only one its intent paid for. `PSpec => Spec` of the store, so the
store's theorems apply: of two orders one intent paid for, at most one is linked.

**Recovery worker** (`RecoveryWorkerProofs`): `WTypeCorrect`, `OutcomesAuthoritative`,
`NoEarlyExpiry`, `WorkersUseTheStore`, `WorkersAreFenced`, `WorkersImplementLedger`,
`SizedLeaseSuffices`. Every step moves a row in
one of a few justified ways (`Moves`): an outcome is written only if the provider has
decided it by then, an expiry only past the row's deadline, which no claim
carries wrongly (`DeadlinesKept`). `WSpec => Spec` of the store, so fencing holds for any
number of workers, crashes and faults. `DeadlinesAssumption` says that the deadlines
of the store include those a purchase of this life gets.

`SizedLeaseSuffices` is the other side of the finding of `worker_lease`. It has a
hypothesis of its own, `SizedLease`: the worker loses no time between its calls
(`Prompt`), and the lease is at least `Limit + 1` of the longest calls (the snapshot and
one check for each claim) plus twice the skew. Then no claim of a batch is ever
lost to another worker, whatever crashes, lost replies and failed writes there are.
The invariant counts the calls left in the cycle against what is left of the lease
(`BatchCovered`). The longest call is `BoundedOccupation` of the transport, not
`max_in_flight_duration`.

**One SDK call** (`TransportProofs`): `CallTypeCorrect`, `MutationSentOnce`,
`OutcomeHonest`, `OccupationBounded`, `CallImplementsApiCall`, `DoubledBoundSuffices`,
`CallStepsBudgeted`. The invariant adds what
each stage knows: how many requests were delivered when it is reached
(`Deliveries`), that the answer in hand is honest (`HonestReply`), and how much of
the caller's time has been spent by it (`Budget`). The time bound follows by
arithmetic from one attempt's stages and the longest pause. `DoubledBoundSuffices` says how
far `max_in_flight_duration` is off (the finding of `transport_bound`): never by more
than its double, which is the lease that `examples/axum.rs` takes, so that lease
does cover one call. `CallStepsBudgeted` is what is left of `EveryCallReturns`
without fairness: each step uses up one of at most six per attempt.

**Admission** (`AdmissionProofs`): `TypeCorrect`, `PermitsKept`, `RateKept`,
`WaitBounded`, for any finite set of calls and any client that `build` accepts. The
invariant adds what bounds a wait at each of its stages (`Stage`) and that the next slot is
at least one interval per start away from the first (`Schedule`). The rate then
follows from the rounding of the interval. `LineKept` is a second invariant: the line
holds each waiting attempt once, in the order of arrival, and nobody else. From it
follow two action properties that no run checks: time never passes over a free permit
that a call is waiting for (`PermitsNeverIdle`), and no call overtakes another
(`NoOvertaking`). `LoopDoesNotSpin` measures the loop of `acquire_admission`: an attempt
has at most six steps to take until time passes, and an attempt that starts takes
from the others what they could have done.

**Cancel workflow** (`CancelWorkflowProofs`): `CancelTypeCorrect`, `TellsTheTruth`,
`RetriesAreSafe`, `NumbersNotAbandoned`, `ReadsBounded`, `StepsBudgeted`,
`EffectsAreTold`, for any limits, rule and
error body. The invariant adds how the counters relate at each stage
(`Counters`), which attempts may have been or may still be performed (`Effects`),
that an observation stays true because an order never becomes pending again
(`Observed`), and that the workflow only goes on with an order it has not seen
settled (`Unsettled`). `OptionsAssumption` leaves out a rule on a 5xx status,
which the code accepts: with one, a cancellation that may have been performed
would be repeated (a hazard without a property). `StepsBudgeted` is what is left of
`WorkflowEnds` without fairness: every step uses up one of a number that the
two options determine. `EffectsAreTold` bounds the finding of `cancel_unknown`: only the token
and the deadline hide what became of a cancellation.

**SMS poller** (`PollSmsProofs`): `TypeCorrect`, `RetryAfterFirst`,
`LastSnapshotReported`, `ResultsAreReal`, `StopsAtOnce`, `BackoffIsKept`,
`DeadlineRationsChecks`. The invariant says that the
sleep that is on ends no earlier than the Retry-After or at the deadline
(`SleepRespects`), and that an answer in flight stays true, since an order settles
once (`ReplyIsReal`). The earliest time of the k-th check is a recursive function of k. The
library's induction theorem over Nat has an operator parameter and cannot be used;
the section on induction starts from `WFMin` instead, takes a set for the predicate
and a function value for the recursive step, and shows that the recursion has a
solution (`Recursion`). `BackoffInv` then relates the interval, the number
of checks and the clock, and `DeadlineRationsChecks` follows, since `Earliest` grows by at
least the least jitter of the base interval.

**Watcher** (`ActiveWatcherProofs`): `TypeCorrect`, `NothingLost`, `LimitKept`,
`RetryAfterFirst`, `StopsAtOnce`, `WatcherImplementsFeed`, `SnapshotDetermined`. The queue is empty whenever
`next()` waits or polls (`AsksWhenEmpty`), so everything observed has been told when
a snapshot is compared, and the new queue is exactly what differs from it
(`NewQueue`); returning its head is telling the least difference (`QueueHead`).
`SnapshotDetermined` shows that collecting rows and sorting keys leave no choice: every
listing has exactly one view and every view exactly one queue (`KeyOrderExists`,
`KeyOrderUnique`, by induction on the number of orders), so that the guards of `Observe`
and `ExceedLimit` leave no answer without a step.

**Only model-checked.** Liveness (`EveryOrderSettles`, `EveryCallReturns`,
`EveryWaitEnds`, `WorkflowEnds`, `Ends`, `EventuallyTold`): the prover does not
handle fairness or ENABLED. For a call, an admission and the cancel
workflow the part that needs neither is proved, as the measures above: what is left to TLC is that
a step is possible until the end. The SMS poller has no such measure, because a
jitter of 100 % allows delays of nothing; `DeadlineRationsChecks` is about the others.

## 5. What is not modelled, and why

- Construction of URLs and of the HTTP client, credentials, redaction, the text of
  errors, encryption of order ids: conversions without state of their own. A row that cannot be
  decrypted (it fails its whole batch) is listed as a hazard no property covers.
- Types and lenient decoding, and the wrappers other than `sms/check` and
  `purchase/sms`: pure conversions of provider documents into values that travel along;
  whether a body decodes is a choice of the transport model, and the two documents whose
  decoding decides control are in `SmsWire`.
- HTTP routes, contract and acceptance scripts: reads, or no part of the running system.
- The endpoint table: a call has any of the three safety classes.
- The transport composed with admission: `Transport` takes an admission to be
  any wait within the two timeouts, which is what `BoundedWait` and `EveryWaitEnds` give.
- What an application does with an order whose purchase had an unknown outcome, or with the
  second order of an intent that paid twice: neither the store nor the provider says which
  intent an order was bought for, so this is its own ledger's business.
