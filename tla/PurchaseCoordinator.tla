------------------------ MODULE PurchaseCoordinator ------------------------
(***************************************************************************)
(* Buying a number with the order store of the example: the integration    *)
(* points that persist_purchase_before_polling (examples/axum.rs) asks a   *)
(* purchase coordinator to use, over OrderStore.tla and the promise of one *)
(* paid call (ApiCall.tla).                                                *)
(*                                                                         *)
(* A coordinator records an intent, sends the paid request, and its answer *)
(* decides: an order is persisted, OutcomeUnknown marks the intent, any    *)
(* other error ends the attempt.  It may crash at any point, and a store   *)
(* reply may be lost after the commit.  Meanwhile workers claim and write  *)
(* the rows.                                                               *)
(*                                                                         *)
(* The coordinator itself is the application's: nothing is assumed of when *)
(* it runs, and nothing of what it remembers.  record_purchase_intent      *)
(* answers alike for a new intent and for a recorded one, so a coordinator *)
(* that starts over, or a second one beside it, may pay for the same       *)
(* intent again.  How an application finds the order of an attempt whose   *)
(* outcome is unknown is its own ledger's business and is left out.        *)
(***************************************************************************)
EXTENDS OrderStore, SmsWire

CONSTANTS Coordinators,  \* processes that buy
          MaxCrashes     \* bound on crashes and lost replies

ASSUME CrashAssumption == MaxCrashes \in Nat

VARIABLES coord,    \* coord[k]: where coordinator k is, for which intent, and
                    \* the order its paid request buys
          payer,    \* payer[o]: the intent of the request that may buy o, or
                    \* NULL while there is none
          request,  \* request[o]: what became of that request
          crashes   \* crashes and lost replies so far

coordVars == <<coord, payer, request, crashes>>

allVars == <<rows, intents, held, now, coordVars>>

Stages == {"idle", "recorded", "calling", "bought", "stored", "ambiguous"}

Stage == [pc : Stages, intent : Intents \cup {NULL}, order : Orders \cup {NULL}]

Idle == [pc |-> "idle", intent |-> NULL, order |-> NULL]

PInit ==
    /\ Init
    /\ coord = [k \in Coordinators |-> Idle]
    /\ payer = [o \in Orders |-> NULL]
    /\ request = [o \in Orders |-> "none"]
    /\ crashes = 0

Fault ==
    /\ crashes < MaxCrashes
    /\ crashes' = crashes + 1

Move(k, stage) == coord' = [coord EXCEPT ![k] = stage]

Goto(k, p) == Move(k, [coord[k] EXCEPT !.pc = p])

(* A store call has committed: its reply arrives and the coordinator goes    *)
(* on, or it is lost and the coordinator is where it was.                    *)
Replied(k, stage) ==
    \/ Move(k, stage) /\ UNCHANGED crashes
    \/ UNCHANGED coord /\ Fault

-----------------------------------------------------------------------------
(* The coordinator k. *)

(* record_purchase_intent: Ok for an intent that is recorded already, too.   *)
RecordIntent(k, i) ==
    /\ coord[k] = Idle
    /\ RecordPurchaseIntent(i)
    /\ Replied(k, [pc |-> "recorded", intent |-> i, order |-> NULL])
    /\ UNCHANGED <<payer, request>>

(* purchase/sms goes out.  Each request that is performed buys an order of   *)
(* its own, so the order stands for the request from the start.              *)
Request(k, o) ==
    /\ coord[k].pc = "recorded"
    /\ payer[o] = NULL
    /\ payer' = [payer EXCEPT ![o] = coord[k].intent]
    /\ request' = [request EXCEPT ![o] = "sent"]
    /\ Move(k, [pc |-> "calling", intent |-> coord[k].intent, order |-> o])
    /\ UNCHANGED <<vars, crashes>>

(* The answer of a performed purchase is decoded.  With an order the         *)
(* coordinator goes on to persist it; a document that cannot be read is      *)
(* OutcomeUnknown, and one with only an activation token names no order that *)
(* could be persisted.                                                       *)
Answered(k) ==
    /\ coord[k].pc = "calling"
    /\ request[coord[k].order] = "performed"
    /\ \E d \in PurchaseDocument :
          Goto(k, IF PurchaseSmsResponse(d) = "order" THEN "bought" ELSE "ambiguous")
    /\ UNCHANGED <<vars, payer, request, crashes>>

(* An error that is not OutcomeUnknown: the request was refused, or the      *)
(* provider said so with a 5xx.  The attempt is over.                        *)
AnswerFailed(k) ==
    /\ coord[k].pc = "calling"
    /\ request[coord[k].order] \in {"performed", "refused"}
    /\ Move(k, Idle)
    /\ UNCHANGED <<vars, payer, request, crashes>>

(* Error::OutcomeUnknown: the request may be performed even later. *)
AnswerUnknown(k) ==
    /\ coord[k].pc = "calling"
    /\ Goto(k, "ambiguous")
    /\ UNCHANGED <<vars, payer, request, crashes>>

(* mark_purchase_intent_reconcile_only, which fails for an intent that is    *)
(* marked or resolved.                                                       *)
MarkAmbiguous(k) ==
    /\ coord[k].pc = "ambiguous"
    /\ LET i == coord[k].intent
       IN  \/ MarkPurchaseIntentReconcileOnly(i)
           \/ intents[i] # "pending" /\ UNCHANGED vars
    /\ Replied(k, Idle)
    /\ UNCHANGED <<payer, request>>

(* persist_purchase_before_polling; repeating it is idempotent. *)
PersistForIntent(k, t) ==
    /\ coord[k].pc = "bought"
    /\ \E d \in Deadlines :
          RecordPurchaseForIntent(coord[k].intent, coord[k].order, d, t)
    /\ Replied(k, Idle)
    /\ UNCHANGED <<payer, request>>

(* The intent has another order: this one stays without a row. *)
PersistRejected(k) ==
    /\ coord[k].pc = "bought"
    /\ Conflict(coord[k].intent, coord[k].order)
    /\ Move(k, Idle)
    /\ UNCHANGED <<vars, payer, request, crashes>>

(* Fault variant: the intent is resolved before the order is stored. *)
ResolvingStore(k, t) ==
    /\ coord[k].pc = "bought"
    /\ ResolvePurchaseIntent(coord[k].intent)
    /\ UNCHANGED <<coord, payer, request, crashes>>

(* The two calls kept for compatibility: the order first, then the intent.   *)
Store(k, t) ==
    /\ coord[k].pc = "bought"
    /\ LET o == coord[k].order
       IN  \/ \E d \in Deadlines : RecordPurchase(o, d, t)
           \/ rows[o].state # "absent" /\ UNCHANGED vars
    /\ Replied(k, [coord[k] EXCEPT !.pc = "stored"])
    /\ UNCHANGED <<payer, request>>

Resolve(k) ==
    /\ coord[k].pc = "stored"
    /\ LET i == coord[k].intent
       IN  \/ ResolvePurchaseIntent(i)
           \/ intents[i] = "resolved" /\ UNCHANGED vars
    /\ Replied(k, Idle)
    /\ UNCHANGED <<payer, request>>

Crash(k) ==
    /\ coord[k] # Idle
    /\ Fault
    /\ Move(k, Idle)
    /\ UNCHANGED <<vars, payer, request>>

-----------------------------------------------------------------------------
(* The provider receives the request, perhaps late, at most once. *)

Perform(o) ==
    /\ request[o] = "sent"
    /\ request' = [request EXCEPT ![o] = "performed"]
    /\ UNCHANGED <<vars, coord, payer, crashes>>

Refuse(o) ==
    /\ request[o] = "sent"
    /\ request' = [request EXCEPT ![o] = "refused"]
    /\ UNCHANGED <<vars, coord, payer, crashes>>

-----------------------------------------------------------------------------
Answer(k) == Answered(k) \/ AnswerFailed(k) \/ AnswerUnknown(k)

Coordinate(k) ==
    \/ \E i \in Intents : RecordIntent(k, i)
    \/ \E o \in Orders : Request(k, o)
    \/ Answer(k) \/ MarkAmbiguous(k)
    \/ \E t \in Readings : PersistForIntent(k, t) \/ Store(k, t)
    \/ PersistRejected(k) \/ Resolve(k) \/ Crash(k)

(* Workers and other marks.  The clock stands still: the coordinator reads   *)
(* it only for the stamps of a row, and RecoveryWorker.tla is about leases.  *)
Elsewhere ==
    /\ \/ \E w \in Workers : WorkerStep(w)
       \/ \E o \in Orders : MarkReconcileOnly(o)
    /\ UNCHANGED coordVars

PNext ==
    \/ \E k \in Coordinators : Coordinate(k)
    \/ \E o \in Orders : Perform(o) \/ Refuse(o)
    \/ Elsewhere

PSpec == PInit /\ [][PNext]_allVars

-----------------------------------------------------------------------------
PTypeOK ==
    /\ TypeOK
    /\ coord \in [Coordinators -> Stage]
    /\ \A k \in Coordinators :
          /\ coord[k].pc # "idle" => coord[k].intent \in Intents
          /\ coord[k].pc \in {"calling", "bought", "stored"} => coord[k].order \in Orders
    /\ payer \in [Orders -> Intents \cup {NULL}]
    /\ request \in [Orders -> {"none", "sent", "performed", "refused"}]
    /\ crashes \in 0..MaxCrashes

(* An order that was paid for and is not in the store has left its intent    *)
(* open, whenever a coordinator crashed and whichever reply was lost: it can *)
(* still be found and is not forgotten as resolved.  The exception is an     *)
(* intent that paid twice, which the store cannot prevent: then another of   *)
(* its orders is in the store.                                               *)
PaidOrderTraceable ==
    \A o \in Orders :
        request[o] = "performed" /\ rows[o].state = "absent" =>
            \/ intents[payer[o]] \in {"pending", "reconcile_only"}
            \/ \E p \in Orders \ {o} : payer[p] = payer[o] /\ rows[p].state # "absent"

(* docs/production-research.md asks that no commit boundary shows an intent  *)
(* that is resolved without its order, with one transaction or with the two  *)
(* calls, and that a link names the intent the order was bought for.         *)
ResolvedHasItsOrder ==
    /\ \A i \in Intents :
          intents[i] = "resolved" =>
              \E o \in Orders : /\ payer[o] = i /\ request[o] = "performed"
                                /\ rows[o].state # "absent"
    /\ \A o \in Orders : rows[o].intent # NULL => rows[o].intent = payer[o]
=============================================================================
