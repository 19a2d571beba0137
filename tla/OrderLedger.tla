---------------------------- MODULE OrderLedger ----------------------------
(***************************************************************************)
(* What the durable order store promises, with no lease, version, claim,   *)
(* worker or clock: an order is opened once, may move between the two open *)
(* states, and is settled at most once, for good.  A purchase intent is    *)
(* declared before the paid request; linking an order to it resolves it in *)
(* the same step, and no two orders are ever linked to one intent.         *)
(*                                                                         *)
(* OrderStore.tla implements this specification.                           *)
(***************************************************************************)

CONSTANTS Orders,   \* provider orders
          Intents,  \* application correlations recorded before a purchase
          NULL      \* SQL NULL

VARIABLES order,    \* order[o]:  the state of the order, "absent" at first
          link,     \* link[o]:   the intent the order was bought for, or NULL
          intent    \* intent[i]: the state of the intent, "absent" at first

ledgerVars == <<order, link, intent>>

Open == {"polling", "reconcile_only"}

Settled == {"received", "terminated", "expired", "failed"}

Init ==
    /\ order = [o \in Orders |-> "absent"]
    /\ link = [o \in Orders |-> NULL]
    /\ intent = [i \in Intents |-> "absent"]

(* An order bought outside the intent protocol. *)
OpenOrder(o) ==
    /\ order[o] = "absent"
    /\ order' = [order EXCEPT ![o] = "polling"]
    /\ UNCHANGED <<link, intent>>

(* The order bought for a declared intent: opened if it is new, linked, and *)
(* the intent resolved, in one step.                                        *)
Fulfil(o, i) ==
    /\ intent[i] # "absent"
    /\ link[o] \in {NULL, i}
    /\ \A p \in Orders \ {o} : link[p] # i
    /\ order' = [order EXCEPT ![o] = IF @ = "absent" THEN "polling" ELSE @]
    /\ link' = [link EXCEPT ![o] = i]
    /\ intent' = [intent EXCEPT ![i] = "resolved"]

(* Only an open order changes state. *)
Progress(o, s) ==
    /\ order[o] \in Open
    /\ order' = [order EXCEPT ![o] = s]
    /\ UNCHANGED <<link, intent>>

DeclareIntent(i) ==
    /\ intent[i] = "absent"
    /\ intent' = [intent EXCEPT ![i] = "pending"]
    /\ UNCHANGED <<order, link>>

(* An intent only moves towards "resolved". *)
AdvanceIntent(i, s) ==
    /\ <<intent[i], s>> \in {<<"pending", "reconcile_only">>,
                             <<"pending", "resolved">>,
                             <<"reconcile_only", "resolved">>}
    /\ intent' = [intent EXCEPT ![i] = s]
    /\ UNCHANGED <<order, link>>

Next ==
    \/ \E o \in Orders : OpenOrder(o)
    \/ \E o \in Orders, i \in Intents : Fulfil(o, i)
    \/ \E o \in Orders, s \in Open \cup Settled : Progress(o, s)
    \/ \E i \in Intents : DeclareIntent(i)
    \/ \E i \in Intents, s \in {"reconcile_only", "resolved"} : AdvanceIntent(i, s)

Spec == Init /\ [][Next]_ledgerVars
=============================================================================
