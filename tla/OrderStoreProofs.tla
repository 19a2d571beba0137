-------------------------- MODULE OrderStoreProofs --------------------------
(***************************************************************************)
(* Proofs about the order store, for every number of orders, intents and   *)
(* workers, every assignment of owner names, every lease, clock skew and   *)
(* bound.  The inductive invariant is IInv: the invariants the runs check, *)
(* strengthened by what makes them survive a step, namely that no claim in *)
(* memory is ahead of its row and that an order not yet recorded has a     *)
(* blank row.                                                              *)
(***************************************************************************)
EXTENDS OrderStore, TLAPS

ClaimsNotAhead ==
    \A w \in Workers : \A c \in held[w] :
        /\ c.version <= rows[c.order].version
        /\ rows[c.order].state # "absent"

AbsentIsBlank == \A o \in Orders : rows[o].state = "absent" => rows[o] = NoRow

IInv ==
    /\ TypeOK
    /\ ClaimsNotAhead
    /\ AbsentIsBlank
    /\ OneCurrentClaim
    /\ CurrentClaimIsFresh
    /\ LinkedIntentResolved

-----------------------------------------------------------------------------
(* Type correctness. *)

(* Clock readings and the instants a caller may schedule are naturals. *)
LEMMA TimesAreNaturals == Time \subseteq Nat /\ Readings \subseteq Nat
  BY BoundsAssumption DEF Time, Readings

(* A write under a claim keeps the row and the claim well typed. *)
LEMMA UpdateTyped ==
  ASSUME TypeOK, NEW w \in Workers, NEW c \in held[w], NEW n \in Nat,
         NEW s \in Open \cup Settled, NEW acked \in BOOLEAN,
         UpdateClaim(w, c, s, n, acked)
  PROVE  TypeOK'
<1>1. c \in Claim
  BY DEF TypeOK
<1>2. rows[c.order] \in Row /\ c.version + 1 \in Nat
  BY <1>1 DEF TypeOK, Claim
<1>3. Released(c, s, n) \in Row
  <2> DEFINE r == rows[c.order]
             v == c.version + 1
  <2>1. r \in Row /\ v \in Nat
    BY <1>2
  <2> HIDE DEF r, v
  <2>2. [r EXCEPT !.state = s, !.nextPoll = n, !.leaseOwner = NULL,
                  !.leaseUntil = NULL, !.version = v] \in Row
    BY <2>1 DEF Row, Columns
  <2> QED
    BY <2>2 DEF Released, r, v
<1>4. rows' \in [Orders -> Row]
  BY <1>3 DEF UpdateClaim, TypeOK
<1>5. [c EXCEPT !.version = @ + 1, !.state = s] \in Claim
  <2>1. \A v \in Nat : [c EXCEPT !.version = v, !.state = s] \in Claim
    BY <1>1 DEF Claim
  <2> QED
    BY <1>2, <2>1
<1>6. held' \in [Workers -> SUBSET Claim]
  BY <1>5 DEF UpdateClaim, TypeOK
<1> QED
  BY <1>4, <1>6 DEF UpdateClaim, TypeOK

(* So does a claim transaction. *)
LEMMA ClaimTyped ==
  ASSUME TypeOK, NEW w \in Workers, NEW S \in SUBSET Orders, NEW t \in Nat,
         NEW acked \in BOOLEAN, ClaimDue(w, S, t, acked)
  PROVE  TypeOK'
<1>1. ASSUME NEW o \in S PROVE Leased(w, o, t) \in Row
  <2>1. /\ rows[o] \in Row /\ Owner[w] \in OwnerNames
        /\ t + Lease \in Nat /\ rows[o].version + 1 \in Nat
    BY OwnerAssumption, LeaseAssumption DEF TypeOK, Row, Columns
  <2>2. Owner[w] # NULL /\ \A u \in Nat : u # NULL
    BY OwnerAssumption, NullAssumption
  <2>3. \A u, v \in Nat :
           [rows[o] EXCEPT !.leaseOwner = Owner[w], !.leaseUntil = u,
                           !.version = v] \in Row
    BY <2>1, <2>2 DEF Row, Columns
  <2> QED
    BY <2>1, <2>3 DEF Leased
<1>2. \A o \in S : ClaimOf(o) \in Claim
  BY DEF TypeOK, ClaimDue, Due, ClaimOf, Claim, Row, Columns
<1>3. rows' \in [Orders -> Row]
  BY <1>1 DEF ClaimDue, TypeOK
<1>4. held' \in [Workers -> SUBSET Claim]
  BY <1>2 DEF ClaimDue, TypeOK
<1> QED
  BY <1>3, <1>4 DEF ClaimDue, TypeOK

(* And recording a purchase. *)
LEMMA BoundTyped ==
  ASSUME TypeOK, NEW i \in Intents \cup {NULL}, NEW o \in Orders,
         NEW d \in Deadlines, NEW t \in Nat
  PROVE  Bound(o, i, d, t) \in Row /\ NewRow(i, d, t) \in Row
<1>1. rows[o] \in Row /\ d \in Nat
  BY BoundsAssumption DEF TypeOK
<1>2. NewRow(i, d, t) \in Row
  BY <1>1 DEF NewRow, Row, Columns, Open
<1>3. [rows[o] EXCEPT !.intent = i] \in Row
  BY <1>1 DEF Row, Columns
<1> QED
  BY <1>1, <1>2, <1>3 DEF Bound

(* Every write under a claim is update_claim with one of the six states. *)
LEMMA WriteIsUpdate ==
  ASSUME TypeOK, NEW w \in Workers, NEW c \in held[w], NEW n \in Time,
         NEW acked \in BOOLEAN, WriteStep(w, c, n, acked)
  PROVE  \E s \in Open \cup Settled : UpdateClaim(w, c, s, n, acked)
  BY DEF WriteStep, RecordPending, RecordTerminal, RecordExpired,
         ReleaseForRetry, ReleaseOrFail, RecordReconcileOnly, Open, Settled

(* Every step keeps the types. *)
LEMMA TypeStep == TypeOK /\ [Next]_vars => TypeOK'
<1> SUFFICES ASSUME TypeOK, [Next]_vars PROVE TypeOK'
  OBVIOUS
<1> USE TimesAreNaturals
<1>1. CASE LedgerStep
  <2>1. PICK i \in Intents :
          \/ RecordPurchaseIntent(i)
          \/ ResolvePurchaseIntent(i)
          \/ MarkPurchaseIntentReconcileOnly(i)
          \/ \E o \in Orders, d \in Deadlines, t \in Readings :
                RecordPurchaseForIntent(i, o, d, t)
    BY <1>1 DEF LedgerStep
  <2>2. CASE \/ RecordPurchaseIntent(i)
             \/ ResolvePurchaseIntent(i)
             \/ MarkPurchaseIntentReconcileOnly(i)
    BY <2>2 DEF TypeOK, IntentStates, RecordPurchaseIntent,
                ResolvePurchaseIntent, MarkPurchaseIntentReconcileOnly
  <2>3. CASE \E o \in Orders, d \in Deadlines, t \in Readings :
                RecordPurchaseForIntent(i, o, d, t)
    <3>1. PICK o \in Orders, d \in Deadlines, t \in Readings :
             RecordPurchaseForIntent(i, o, d, t)
      BY <2>3
    <3>2. Bound(o, i, d, t) \in Row
      BY BoundTyped
    <3> QED
      BY <3>1, <3>2 DEF TypeOK, IntentStates, RecordPurchaseForIntent
  <2> QED
    BY <2>1, <2>2, <2>3
<1>2. CASE PurchaseStep
  <2>1. PICK o \in Orders :
          \/ \E d \in Deadlines, t \in Readings : RecordPurchase(o, d, t)
          \/ MarkReconcileOnly(o)
    BY <1>2 DEF PurchaseStep
  <2>2. CASE \E d \in Deadlines, t \in Readings : RecordPurchase(o, d, t)
    <3>1. PICK d \in Deadlines, t \in Readings : RecordPurchase(o, d, t)
      BY <2>2
    <3>2. NewRow(NULL, d, t) \in Row
      BY BoundTyped
    <3> QED
      BY <3>1, <3>2 DEF TypeOK, RecordPurchase
  <2>3. CASE MarkReconcileOnly(o)
    <3>1. [rows[o] EXCEPT !.state = "reconcile_only"] \in Row
      BY DEF TypeOK, Row, Columns, Open
    <3> QED
      BY <2>3, <3>1 DEF TypeOK, MarkReconcileOnly
  <2> QED
    BY <2>1, <2>2, <2>3
<1>3. CASE \E w \in Workers : WorkerStep(w)
  <2>1. PICK w \in Workers : WorkerStep(w)
    BY <1>3
  <2>2. CASE \E S \in SUBSET Orders, t \in Readings, acked \in BOOLEAN :
                ClaimDue(w, S, t, acked)
    BY <2>2, ClaimTyped
  <2>3. CASE \E c \in held[w], n \in Time, acked \in BOOLEAN :
                WriteStep(w, c, n, acked)
    <3>1. PICK c \in held[w], n \in Time, acked \in BOOLEAN :
             WriteStep(w, c, n, acked)
      BY <2>3
    <3>2. PICK s \in Open \cup Settled : UpdateClaim(w, c, s, n, acked)
      BY <3>1, WriteIsUpdate
    <3> QED
      BY <3>2, UpdateTyped
  <2>4. CASE DropClaims(w)
    BY <2>4 DEF TypeOK, DropClaims
  <2> QED
    BY <2>1, <2>2, <2>3, <2>4 DEF WorkerStep
<1>4. CASE Tick
  BY <1>4 DEF TypeOK, Tick
<1>5. CASE UNCHANGED vars
  BY <1>5 DEF TypeOK, vars
<1> QED
  BY <1>1, <1>2, <1>3, <1>4, <1>5 DEF Next

(* The empty store is well typed. *)
LEMMA TypeInit == Init => TypeOK
  BY DEF Init, TypeOK, NoRow, Row, Columns, IntentStates

(* Every state the store reaches is well typed: rows, intents and the claims *)
(* the workers hold, whatever operations are interleaved.                    *)
THEOREM TypeCorrect == Spec => []TypeOK
  BY TypeInit, TypeStep, PTL DEF Spec

-----------------------------------------------------------------------------
(* The inductive invariant. *)

(* The owner column of a leased row is never NULL. *)
LEMMA OwnerNotNull == \A w \in Workers : Owner[w] # NULL
  BY OwnerAssumption, NullAssumption

(* The empty store, with no claim in memory, satisfies IInv. *)
LEMMA IInvInit == Init => IInv
<1> SUFFICES ASSUME Init PROVE IInv
  OBVIOUS
<1>1. TypeOK
  BY TypeInit
<1>2. ClaimsNotAhead /\ OneCurrentClaim /\ CurrentClaimIsFresh
  BY DEF Init, ClaimsNotAhead, OneCurrentClaim, CurrentClaimIsFresh
<1>3. AbsentIsBlank /\ LinkedIntentResolved
  BY DEF Init, AbsentIsBlank, LinkedIntentResolved, NoRow
<1> QED
  BY <1>1, <1>2, <1>3 DEF IInv

(* A claim transaction: the version it writes is above every version a claim *)
(* in memory carries, so every older claim on the row is fenced at once.     *)
LEMMA ClaimStep ==
  ASSUME IInv, TypeOK', NEW w \in Workers, NEW S \in SUBSET Orders,
         NEW t \in Nat, NEW acked \in BOOLEAN, ClaimDue(w, S, t, acked)
  PROVE  IInv'
<1> DEFINE newClaims == {ClaimOf(o) : o \in S}
<1>1. \A v \in Workers : \A c \in held'[v] :
         c \in held[v] \/ (v = w /\ c \in newClaims)
  BY DEF ClaimDue, IInv, TypeOK
<1>2. \A o \in Orders :
         rows'[o] = IF o \in S THEN Leased(w, o, t) ELSE rows[o]
  BY DEF ClaimDue
<1>3. \A o \in S : /\ rows'[o].version = rows[o].version + 1
                   /\ rows'[o].leaseOwner = Owner[w]
                   /\ rows'[o].state = rows[o].state
                   /\ rows'[o].deadline = rows[o].deadline
                   /\ rows'[o].intent = rows[o].intent
                   /\ rows[o].state \in Open
                   /\ rows[o].version \in Nat
  BY <1>2 DEF Leased, ClaimDue, Due, IInv, TypeOK, Row, Columns
<1>4. \A v \in Workers : \A c \in held[v] :
         c.order \in Orders /\ c.version <= rows[c.order].version
         /\ c.version \in Nat /\ rows[c.order].state # "absent"
  BY DEF IInv, TypeOK, Claim, ClaimsNotAhead
<1>5. \A v \in Workers : \A c \in held[v] : c.order \in S => ~Matches(v, c)'
  BY <1>3, <1>4 DEF Matches
<1>6. \A v \in Workers : \A c \in held[v] :
         c.order \notin S => (Matches(v, c)' <=> Matches(v, c))
  BY <1>2, <1>4 DEF Matches
<1>7. \A c \in newClaims :
         /\ c.order \in S
         /\ c = ClaimOf(c.order)
         /\ c.version = rows'[c.order].version
         /\ c.state = rows'[c.order].state /\ c.state \in Open
         /\ c.deadline = rows'[c.order].deadline
  BY <1>3 DEF ClaimOf
<1>8. ClaimsNotAhead'
  <2> SUFFICES ASSUME NEW v \in Workers, NEW c \in held'[v]
               PROVE  c.version <= rows'[c.order].version
                      /\ rows'[c.order].state # "absent"
    BY DEF ClaimsNotAhead
  <2>1. CASE c \in newClaims
    <3>1. c.order \in Orders /\ rows'[c.order].version \in Nat
      BY <2>1, <1>3, <1>7
    <3> QED
      BY <2>1, <1>7, <3>1 DEF Open
  <2>2. CASE c \in held[v]
    BY <2>2, <1>2, <1>3, <1>4 DEF Open, IInv, TypeOK, Row, Columns
  <2> QED
    BY <1>1, <2>1, <2>2
<1>9. OneCurrentClaim'
  <2> SUFFICES ASSUME NEW v1 \in Workers, NEW v2 \in Workers,
                      NEW c1 \in held'[v1], NEW c2 \in held'[v2],
                      c1.order = c2.order, Matches(v1, c1)', Matches(v2, c2)'
               PROVE  v1 = v2 /\ c1 = c2
    BY DEF OneCurrentClaim
  <2>1. CASE c1.order \in S
    BY <2>1, <1>1, <1>5, <1>7
  <2>2. CASE c1.order \notin S
    <3>1. c1 \in held[v1] /\ c2 \in held[v2]
      BY <2>2, <1>1, <1>7
    <3>2. Matches(v1, c1) /\ Matches(v2, c2)
      BY <2>2, <3>1, <1>6
    <3> QED
      BY <3>1, <3>2 DEF IInv, OneCurrentClaim
  <2> QED
    BY <2>1, <2>2
<1>10. CurrentClaimIsFresh'
  <2> SUFFICES ASSUME NEW v \in Workers, NEW c \in held'[v], Matches(v, c)'
               PROVE  /\ rows'[c.order].state \in {c.state, "reconcile_only"}
                      /\ c.state \in Open
                      /\ c.deadline = rows'[c.order].deadline
    BY DEF CurrentClaimIsFresh
  <2>1. CASE c.order \in S
    BY <2>1, <1>1, <1>5, <1>7
  <2>2. CASE c.order \notin S
    <3>1. c \in held[v] /\ Matches(v, c)
      BY <2>2, <1>1, <1>6, <1>7
    <3> QED
      BY <2>2, <3>1, <1>2, <1>4 DEF IInv, CurrentClaimIsFresh
  <2> QED
    BY <2>1, <2>2
<1>11. AbsentIsBlank'
  BY <1>2, <1>3 DEF IInv, AbsentIsBlank, Open
<1>12. \A o \in Orders : rows'[o].intent = rows[o].intent
  BY <1>2, <1>3
<1>13. LinkedIntentResolved'
  BY <1>12 DEF IInv, LinkedIntentResolved, IntentFree, ClaimDue
<1> QED
  BY <1>8, <1>9, <1>10, <1>11, <1>13 DEF IInv

(* A write under a claim: afterwards the lease owner is NULL, so no claim can *)
(* write the row until it is claimed again.                                  *)
LEMMA UpdateStep ==
  ASSUME IInv, TypeOK', NEW w \in Workers, NEW c \in held[w], NEW n \in Nat,
         NEW s \in Open \cup Settled, NEW acked \in BOOLEAN,
         UpdateClaim(w, c, s, n, acked)
  PROVE  IInv'
<1> DEFINE o == c.order
           k == [c EXCEPT !.version = @ + 1, !.state = s]
<1>1. c \in Claim /\ o \in Orders /\ rows[o] \in Row
  BY DEF IInv, TypeOK, Claim
<1>2. \A p \in Orders : rows'[p] = IF p = o THEN Released(c, s, n) ELSE rows[p]
  BY <1>1 DEF UpdateClaim, IInv, TypeOK
<1>3. /\ rows'[o].leaseOwner = NULL
      /\ rows'[o].version = rows[o].version + 1
      /\ rows'[o].version = c.version + 1
      /\ rows'[o].state = s
      /\ rows'[o].intent = rows[o].intent
      /\ rows[o].version \in Nat
  <2>1. rows[o].version = c.version /\ rows[o].version \in Nat
    BY <1>1 DEF UpdateClaim, Matches, Row, Columns
  <2>2. rows'[o] = Released(c, s, n)
    BY <1>1, <1>2
  <2> DEFINE r == rows[o]
  <2>3. r \in Row
    BY <1>1
  <2> HIDE DEF r
  <2>4. \A v \in Nat :
          LET x == [r EXCEPT !.state = s, !.nextPoll = n, !.leaseOwner = NULL,
                             !.leaseUntil = NULL, !.version = v]
          IN  /\ x.leaseOwner = NULL /\ x.version = v /\ x.state = s
              /\ x.intent = r.intent
    BY <2>3 DEF Row, Columns
  <2>5. c.version + 1 \in Nat
    BY <2>1
  <2> QED
    BY <2>1, <2>2, <2>4, <2>5 DEF Released, r
<1>4. k.order = o /\ k.version = c.version + 1
  BY <1>1 DEF Claim
<1>5. \A v \in Workers : \A b \in held'[v] : b \in held[v] \/ b = k
  BY DEF UpdateClaim, IInv, TypeOK
<1>6. \A v \in Workers : \A b \in held[v] :
         b.order \in Orders /\ b.version <= rows[b.order].version
         /\ b.version \in Nat /\ rows[b.order].state # "absent"
  BY DEF IInv, TypeOK, Claim, ClaimsNotAhead
<1>7. \A v \in Workers : \A b \in held'[v] :
         Matches(v, b)' => b.order # o /\ b \in held[v] /\ Matches(v, b)
  <2> SUFFICES ASSUME NEW v \in Workers, NEW b \in held'[v], Matches(v, b)'
               PROVE  b.order # o /\ b \in held[v] /\ Matches(v, b)
    OBVIOUS
  <2>1. b.order # o
    BY <1>3, OwnerNotNull DEF Matches
  <2>2. b \in held[v]
    BY <2>1, <1>4, <1>5
  <2> QED
    BY <2>1, <2>2, <1>2, <1>6 DEF Matches
<1>8. ClaimsNotAhead'
  <2> SUFFICES ASSUME NEW v \in Workers, NEW b \in held'[v]
               PROVE  b.version <= rows'[b.order].version
                      /\ rows'[b.order].state # "absent"
    BY DEF ClaimsNotAhead
  <2>1. CASE b = k
    BY <2>1, <1>1, <1>3, <1>4 DEF Claim, Open, Settled
  <2>2. CASE b \in held[v]
    BY <2>2, <1>2, <1>3, <1>6 DEF Open, Settled, IInv, TypeOK, Row, Columns
  <2> QED
    BY <1>5, <2>1, <2>2
<1>9. OneCurrentClaim'
  <2> SUFFICES ASSUME NEW v1 \in Workers, NEW v2 \in Workers,
                      NEW c1 \in held'[v1], NEW c2 \in held'[v2],
                      c1.order = c2.order, Matches(v1, c1)', Matches(v2, c2)'
               PROVE  v1 = v2 /\ c1 = c2
    BY DEF OneCurrentClaim
  <2> QED
    BY <1>7 DEF IInv, OneCurrentClaim
<1>10. CurrentClaimIsFresh'
  <2> SUFFICES ASSUME NEW v \in Workers, NEW b \in held'[v], Matches(v, b)'
               PROVE  /\ rows'[b.order].state \in {b.state, "reconcile_only"}
                      /\ b.state \in Open
                      /\ b.deadline = rows'[b.order].deadline
    BY DEF CurrentClaimIsFresh
  <2> QED
    BY <1>2, <1>6, <1>7 DEF IInv, CurrentClaimIsFresh
<1>11. AbsentIsBlank' /\ LinkedIntentResolved'
  BY <1>2, <1>3 DEF IInv, AbsentIsBlank, LinkedIntentResolved, IntentFree,
                    UpdateClaim, Open, Settled
<1> QED
  BY <1>8, <1>9, <1>10, <1>11 DEF IInv

(* Recording a purchase, with or without an intent, touches no leased row's  *)
(* lease, version or state.                                                  *)
LEMMA RowKeptStep ==
  ASSUME IInv, TypeOK', UNCHANGED held,
         \A o \in Orders :
            \/ rows[o].state = "absent"
            \/ /\ rows'[o].state \in {rows[o].state, "reconcile_only"}
               /\ rows'[o].version = rows[o].version
               /\ rows'[o].leaseOwner = rows[o].leaseOwner
               /\ rows'[o].deadline = rows[o].deadline
  PROVE  ClaimsNotAhead' /\ OneCurrentClaim' /\ CurrentClaimIsFresh'
<1>1. \A w \in Workers : \A c \in held[w] :
         /\ c.order \in Orders
         /\ rows'[c.order].state \in {rows[c.order].state, "reconcile_only"}
         /\ rows[c.order].state # "absent"
         /\ rows'[c.order].version = rows[c.order].version
         /\ rows'[c.order].deadline = rows[c.order].deadline
         /\ Matches(w, c)' <=> Matches(w, c)
  BY DEF IInv, TypeOK, Claim, ClaimsNotAhead, Matches
<1>2. ClaimsNotAhead'
  BY <1>1 DEF IInv, ClaimsNotAhead
<1>3. OneCurrentClaim'
  BY <1>1 DEF IInv, OneCurrentClaim
<1>4. CurrentClaimIsFresh'
  BY <1>1 DEF IInv, CurrentClaimIsFresh
<1> QED
  BY <1>2, <1>3, <1>4

(* The row that record_purchase_for_intent leaves. *)
LEMMA BoundRow ==
  ASSUME TypeOK, AbsentIsBlank, NEW o \in Orders, NEW i \in Intents,
         NEW d \in Deadlines, NEW t \in Nat, Bound(o, i, d, t).intent = i
  PROVE  /\ rows[o].intent \in {NULL, i}
         /\ rows[o].state = "absent" => Bound(o, i, d, t).state = "polling"
         /\ rows[o].state # "absent" =>
              /\ Bound(o, i, d, t).state = rows[o].state
              /\ Bound(o, i, d, t).version = rows[o].version
              /\ Bound(o, i, d, t).leaseOwner = rows[o].leaseOwner
              /\ Bound(o, i, d, t).deadline = rows[o].deadline
              /\ Bound(o, i, d, t) = [rows[o] EXCEPT !.intent = i]
<1>1. rows[o] \in Row
  BY DEF TypeOK
<1>2. CASE rows[o].state = "absent"
  BY <1>2 DEF Bound, NewRow, AbsentIsBlank, NoRow
<1>3. CASE rows[o].state # "absent" /\ rows[o].intent = NULL
  BY <1>1, <1>3 DEF Bound, Row, Columns
<1>4. CASE rows[o].state # "absent" /\ rows[o].intent # NULL
  BY <1>1, <1>4 DEF Bound, Row, Columns
<1> QED
  BY <1>2, <1>3, <1>4

(* record_purchase_for_intent: an unresolved intent links no order yet. *)
LEMMA ForIntentStep ==
  ASSUME IInv, TypeOK', NEW o \in Orders, NEW i \in Intents,
         NEW d \in Deadlines, NEW t \in Nat, RecordPurchaseForIntent(i, o, d, t)
  PROVE  IInv'
<1> DEFINE b == Bound(o, i, d, t)
<1>1. b.intent = i
  BY DEF RecordPurchaseForIntent
<1>2. \A p \in Orders : rows'[p] = IF p = o THEN b ELSE rows[p]
  BY DEF RecordPurchaseForIntent, IInv, TypeOK
<1>3. /\ rows[o].state = "absent" => b.state = "polling"
      /\ rows[o].state # "absent" =>
           /\ b.state = rows[o].state
           /\ b.version = rows[o].version
           /\ b.leaseOwner = rows[o].leaseOwner
           /\ b.deadline = rows[o].deadline
  BY <1>1, BoundRow DEF IInv
<1>4. ClaimsNotAhead' /\ OneCurrentClaim' /\ CurrentClaimIsFresh'
  <2> HIDE DEF b
  <2>1. UNCHANGED held
    BY DEF RecordPurchaseForIntent
  <2>2. \A p \in Orders :
           \/ rows[p].state = "absent"
           \/ /\ rows'[p].state \in {rows[p].state, "reconcile_only"}
              /\ rows'[p].version = rows[p].version
              /\ rows'[p].leaseOwner = rows[p].leaseOwner
              /\ rows'[p].deadline = rows[p].deadline
    BY <1>2, <1>3
  <2> QED
    BY <2>1, <2>2, RowKeptStep
<1>5. AbsentIsBlank'
  <2> HIDE DEF b
  <2> QED
    BY <1>2, <1>3 DEF IInv, AbsentIsBlank
<1>6. LinkedIntentResolved'
  <2>1. intents' = [intents EXCEPT ![i] = "resolved"]
        /\ intents \in [Intents -> IntentStates]
    BY DEF RecordPurchaseForIntent, IInv, TypeOK
  <2>2. \A p \in Orders \ {o} : rows[p].intent # i
    BY DEF RecordPurchaseForIntent, IntentFree
  <2>3. \A p \in Orders : rows[p].intent \in Intents \cup {NULL}
    BY DEF IInv, TypeOK, Row, Columns
  <2> HIDE DEF b
  <2>4. \A p \in Orders : rows'[p].intent = IF p = o THEN i ELSE rows[p].intent
    BY <1>1, <1>2 DEF b
  <2>5. \A p \in Orders : rows'[p].intent # NULL =>
           intents'[rows'[p].intent] = "resolved"
    BY <2>1, <2>3, <2>4 DEF IInv, LinkedIntentResolved
  <2>6. \A p, q \in Orders :
           p # q /\ rows'[p].intent # NULL => rows'[q].intent # rows'[p].intent
    BY <2>2, <2>4 DEF IInv, LinkedIntentResolved, IntentFree
  <2> QED
    BY <2>5, <2>6 DEF LinkedIntentResolved, IntentFree
<1> QED
  BY <1>4, <1>5, <1>6 DEF IInv

(* record_purchase: the row is new and linked to no intent, or unchanged. *)
LEMMA RecordPurchaseStep ==
  ASSUME IInv, TypeOK', NEW o \in Orders, NEW d \in Deadlines, NEW t \in Nat,
         RecordPurchase(o, d, t)
  PROVE  IInv'
<1>1. \A p \in Orders :
         rows'[p] = IF p = o THEN NewRow(NULL, d, t) ELSE rows[p]
  BY DEF RecordPurchase, IInv, TypeOK
<1>2. rows[o].state = "absent" /\ UNCHANGED <<held, intents>>
  BY DEF RecordPurchase
<1>3. ClaimsNotAhead' /\ OneCurrentClaim' /\ CurrentClaimIsFresh'
  BY <1>1, <1>2, RowKeptStep
<1>4. AbsentIsBlank' /\ LinkedIntentResolved'
  BY <1>1, <1>2 DEF IInv, AbsentIsBlank, LinkedIntentResolved, IntentFree,
                    NewRow
<1> QED
  BY <1>3, <1>4 DEF IInv

(* mark_reconcile_only leaves the lease, the version and the deadline. *)
LEMMA MarkStep ==
  ASSUME IInv, TypeOK', NEW o \in Orders, MarkReconcileOnly(o)
  PROVE  IInv'
<1>1. \A p \in Orders : /\ rows[p] \in Row
                        /\ p # o => rows'[p] = rows[p]
  BY DEF MarkReconcileOnly, IInv, TypeOK
<1>2. rows'[o] = [rows[o] EXCEPT !.state = "reconcile_only"]
  BY DEF MarkReconcileOnly, IInv, TypeOK
<1>3. /\ rows'[o].state = "reconcile_only"
      /\ rows'[o].version = rows[o].version
      /\ rows'[o].leaseOwner = rows[o].leaseOwner
      /\ rows'[o].deadline = rows[o].deadline
      /\ rows'[o].intent = rows[o].intent
      /\ rows[o].state \in Open
  BY <1>1, <1>2 DEF Row, Columns, MarkReconcileOnly
<1>4. UNCHANGED <<held, intents>>
  BY DEF MarkReconcileOnly
<1>5. ClaimsNotAhead' /\ OneCurrentClaim' /\ CurrentClaimIsFresh'
  BY <1>1, <1>3, <1>4, RowKeptStep
<1>6. AbsentIsBlank' /\ LinkedIntentResolved'
  BY <1>1, <1>3, <1>4 DEF IInv, AbsentIsBlank, LinkedIntentResolved, IntentFree
<1> QED
  BY <1>5, <1>6 DEF IInv

(* Steps on intents alone keep a resolved one. *)
LEMMA IntentStep ==
  ASSUME IInv, TypeOK', NEW i \in Intents,
         \/ RecordPurchaseIntent(i)
         \/ ResolvePurchaseIntent(i)
         \/ MarkPurchaseIntentReconcileOnly(i)
  PROVE  IInv'
<1>1. /\ \A j \in Intents : intents[j] = "resolved" => intents'[j] = "resolved"
      /\ UNCHANGED <<rows, held>>
  BY DEF RecordPurchaseIntent, ResolvePurchaseIntent,
         MarkPurchaseIntentReconcileOnly, IInv, TypeOK
<1>2. ClaimsNotAhead' /\ OneCurrentClaim' /\ CurrentClaimIsFresh'
  BY <1>1 DEF IInv, ClaimsNotAhead, OneCurrentClaim, CurrentClaimIsFresh, Matches
<1>3. AbsentIsBlank'
  BY <1>1 DEF IInv, AbsentIsBlank
<1>4. LinkedIntentResolved'
  <2>1. \A o \in Orders : rows[o].intent \in Intents \cup {NULL}
    BY DEF IInv, TypeOK, Row, Columns
  <2> QED
    BY <1>1, <2>1 DEF IInv, LinkedIntentResolved, IntentFree
<1> QED
  BY <1>2, <1>3, <1>4 DEF IInv

(* Losing claims, and time, can only make fewer claims current. *)
LEMMA DropStep ==
  ASSUME IInv, TypeOK', UNCHANGED <<rows, intents>>,
         \A w \in Workers : held'[w] \subseteq held[w]
  PROVE  IInv'
<1>1. ClaimsNotAhead' /\ OneCurrentClaim' /\ CurrentClaimIsFresh'
  BY DEF IInv, ClaimsNotAhead, OneCurrentClaim, CurrentClaimIsFresh, Matches
<1>2. AbsentIsBlank' /\ LinkedIntentResolved'
  BY DEF IInv, AbsentIsBlank, LinkedIntentResolved, IntentFree
<1> QED
  BY <1>1, <1>2 DEF IInv

(* Every step of the store keeps IInv. *)
LEMMA IInvStep == IInv /\ [Next]_vars => IInv'
<1> SUFFICES ASSUME IInv, [Next]_vars PROVE IInv'
  OBVIOUS
<1>0. TypeOK'
  BY TypeStep DEF IInv
<1> USE TimesAreNaturals, <1>0
<1>1. CASE LedgerStep
  <2>1. PICK i \in Intents :
          \/ RecordPurchaseIntent(i)
          \/ ResolvePurchaseIntent(i)
          \/ MarkPurchaseIntentReconcileOnly(i)
          \/ \E o \in Orders, d \in Deadlines, t \in Readings :
                RecordPurchaseForIntent(i, o, d, t)
    BY <1>1 DEF LedgerStep
  <2> QED
    BY <2>1, IntentStep, ForIntentStep
<1>2. CASE PurchaseStep
  BY <1>2, RecordPurchaseStep, MarkStep DEF PurchaseStep
<1>3. CASE \E w \in Workers : WorkerStep(w)
  <2>1. PICK w \in Workers : WorkerStep(w)
    BY <1>3
  <2>2. CASE \E S \in SUBSET Orders, t \in Readings, acked \in BOOLEAN :
                ClaimDue(w, S, t, acked)
    BY <2>2, ClaimStep
  <2>3. CASE \E c \in held[w], n \in Time, acked \in BOOLEAN :
                WriteStep(w, c, n, acked)
    <3>1. PICK c \in held[w], n \in Time, acked \in BOOLEAN :
             WriteStep(w, c, n, acked)
      BY <2>3
    <3>2. PICK s \in Open \cup Settled : UpdateClaim(w, c, s, n, acked)
      BY <3>1, WriteIsUpdate DEF IInv
    <3> QED
      BY <3>2, UpdateStep
  <2>4. CASE DropClaims(w)
    <3>1. \A v \in Workers : held'[v] \subseteq held[v]
      BY <2>4 DEF DropClaims, IInv, TypeOK
    <3> QED
      BY <2>4, <3>1, DropStep DEF DropClaims
  <2> QED
    BY <2>1, <2>2, <2>3, <2>4 DEF WorkerStep
<1>4. CASE Tick
  BY <1>4, DropStep DEF Tick
<1>5. CASE UNCHANGED vars
  BY <1>5, DropStep DEF vars
<1> QED
  BY <1>1, <1>2, <1>3, <1>4, <1>5 DEF Next

(* IInv holds in every reachable state of the store. *)
LEMMA Invariance == Spec => []IInv
  BY IInvInit, IInvStep, PTL DEF Spec

(* Fencing, for any number of workers and any owner names: of all the claims *)
(* in memory at most one can still write a given row.                        *)
THEOREM Fencing == Spec => []OneCurrentClaim
<1>1. IInv => OneCurrentClaim
  BY DEF IInv
<1> QED
  BY Invariance, <1>1, PTL

(* The claim that can still write belongs to an open row whose state it knows *)
(* up to a reconciliation mark.                                               *)
THEOREM FreshClaims == Spec => []CurrentClaimIsFresh
<1>1. IInv => CurrentClaimIsFresh
  BY DEF IInv
<1> QED
  BY Invariance, <1>1, PTL

(* Orders and intents stay consistent across the two tables. *)
THEOREM LinkedIntents == Spec => []LinkedIntentResolved
<1>1. IInv => LinkedIntentResolved
  BY DEF IInv
<1> QED
  BY Invariance, <1>1, PTL

-----------------------------------------------------------------------------
(* Steps that keep every row. *)

(* A row keeps everything when only its intent is rewritten with its value.  *)
LEMMA SameRow ==
  ASSUME TypeOK, NEW o \in Orders
  PROVE  rows[o] = [rows[o] EXCEPT !.intent = rows[o].intent]
  BY DEF TypeOK, Row, Columns

(* Under the invariant a claim that can write belongs to an open row. *)
LEMMA WriterSeesOpenRow ==
  ASSUME IInv, NEW w \in Workers, NEW c \in held[w], Matches(w, c)
  PROVE  c.order \in Orders /\ rows[c.order].state \in Open
  BY DEF IInv, TypeOK, Claim, CurrentClaimIsFresh, Open

(* No step touches a settled row but for its link to an intent. *)
LEMMA SettledStep == IInv /\ [Next]_vars => [SettledRowsKept]_vars
<1> SUFFICES ASSUME IInv, Next, NEW o \in Orders, rows[o].state \in Settled
             PROVE  rows'[o] = [rows[o] EXCEPT !.intent = rows'[o].intent]
  BY DEF SettledRowsKept
<1> USE TimesAreNaturals
<1>1. rows[o].state \notin Open /\ rows[o].state # "absent" /\ TypeOK
  BY DEF Open, Settled, IInv
<1>2. SUFFICES ASSUME rows'[o] # rows[o]
               PROVE  rows'[o] = [rows[o] EXCEPT !.intent = rows'[o].intent]
  BY <1>1, SameRow
<1>3. CASE LedgerStep
  <2>1. PICK i \in Intents, d \in Deadlines, t \in Readings, p \in Orders :
           RecordPurchaseForIntent(i, p, d, t)
    BY <1>2, <1>3 DEF LedgerStep, RecordPurchaseIntent, ResolvePurchaseIntent,
                      MarkPurchaseIntentReconcileOnly
  <2>2. p = o /\ rows'[o] = Bound(o, i, d, t)
    BY <1>1, <1>2, <2>1 DEF RecordPurchaseForIntent, TypeOK
  <2>3. Bound(o, i, d, t) = [rows[o] EXCEPT !.intent = i]
    BY <1>1, <2>1, <2>2, BoundRow DEF RecordPurchaseForIntent, IInv
  <2>4. rows'[o].intent = i
    BY <2>1, <2>2 DEF RecordPurchaseForIntent
  <2> QED
    BY <2>2, <2>3, <2>4
<1>4. CASE PurchaseStep
  BY <1>1, <1>2, <1>4 DEF PurchaseStep, RecordPurchase, MarkReconcileOnly, TypeOK
<1>5. CASE \E w \in Workers : WorkerStep(w)
  <2>1. PICK w \in Workers : WorkerStep(w)
    BY <1>5
  <2>2. CASE \E S \in SUBSET Orders, t \in Readings, acked \in BOOLEAN :
                ClaimDue(w, S, t, acked)
    BY <1>1, <1>2, <2>2 DEF ClaimDue, Due
  <2>3. CASE \E c \in held[w], n \in Time, acked \in BOOLEAN :
                WriteStep(w, c, n, acked)
    <3>1. PICK c \in held[w], n \in Time, acked \in BOOLEAN :
             WriteStep(w, c, n, acked)
      BY <2>3
    <3>2. PICK s \in Open \cup Settled : UpdateClaim(w, c, s, n, acked)
      BY <3>1, WriteIsUpdate DEF IInv
    <3>3. c.order # o
      BY <1>1, <3>2, WriterSeesOpenRow DEF UpdateClaim
    <3> QED
      BY <1>1, <1>2, <3>2, <3>3 DEF UpdateClaim, TypeOK
  <2>4. CASE DropClaims(w)
    BY <1>2, <2>4 DEF DropClaims
  <2> QED
    BY <2>1, <2>2, <2>3, <2>4 DEF WorkerStep
<1>6. CASE Tick
  BY <1>2, <1>6 DEF Tick
<1> QED
  BY <1>3, <1>4, <1>5, <1>6 DEF Next

(* The outcome of a settled order is never overwritten, by any interleaving  *)
(* of claims, expired leases, late writes, lost replies and marks.           *)
THEOREM SettledForever == Spec => SettledIsFinal
  BY Invariance, SettledStep, PTL DEF Spec, SettledIsFinal

-----------------------------------------------------------------------------
(* Refinement. *)

(* The empty store is an empty ledger. *)
LEMMA LedgerInit == Init => Ledger!Init
  BY DEF Init, Ledger!Init, NoRow

(* A step that changes the state of one row is a step of the ledger. *)
LEMMA LedgerProgress ==
  ASSUME IInv, NEW o \in Orders, NEW s \in Open \cup Settled,
         rows[o].state \in Open, UNCHANGED intents,
         rows'[o].state = s, rows'[o].intent = rows[o].intent,
         \A p \in Orders \ {o} : rows'[p] = rows[p]
  PROVE  Ledger!Next
<1>1. Ledger!Progress(o, s)
  BY DEF Ledger!Progress, Ledger!Open, Open
<1> QED
  BY <1>1 DEF Ledger!Next, Ledger!Open, Ledger!Settled, Open, Settled

(* Every step of the store is a step of the ledger or invisible in it. *)
LEMMA LedgerStepImplements == IInv /\ [Next]_vars => [Ledger!Next]_(Ledger!ledgerVars)
<1> SUFFICES ASSUME IInv, [Next]_vars
             PROVE  Ledger!Next \/ UNCHANGED Ledger!ledgerVars
  OBVIOUS
<1> USE TimesAreNaturals
<1>0. TypeOK /\ \A o \in Orders : rows[o] \in Row
  BY DEF IInv, TypeOK
<1>1. CASE LedgerStep
  <2>1. PICK i \in Intents :
          \/ RecordPurchaseIntent(i)
          \/ ResolvePurchaseIntent(i)
          \/ MarkPurchaseIntentReconcileOnly(i)
          \/ \E o \in Orders, d \in Deadlines, t \in Readings :
                RecordPurchaseForIntent(i, o, d, t)
    BY <1>1 DEF LedgerStep
  <2>2. CASE RecordPurchaseIntent(i)
    <3>1. CASE intents[i] = "absent"
      BY <2>2, <3>1 DEF RecordPurchaseIntent, Ledger!Next, Ledger!DeclareIntent
    <3>2. CASE intents[i] # "absent"
      <4>1. intents' = intents /\ UNCHANGED rows
        BY <1>0, <2>2, <3>2 DEF RecordPurchaseIntent, TypeOK
      <4> QED BY <4>1 DEF Ledger!ledgerVars
    <3> QED BY <3>1, <3>2
  <2>3. CASE ResolvePurchaseIntent(i)
    <3>1. Ledger!AdvanceIntent(i, "resolved")
      BY <2>3 DEF ResolvePurchaseIntent, Ledger!AdvanceIntent
    <3> QED
      BY <3>1 DEF Ledger!Next
  <2>4. CASE MarkPurchaseIntentReconcileOnly(i)
    <3>1. Ledger!AdvanceIntent(i, "reconcile_only")
      BY <2>4 DEF MarkPurchaseIntentReconcileOnly, Ledger!AdvanceIntent
    <3> QED
      BY <3>1 DEF Ledger!Next
  <2>5. CASE \E o \in Orders, d \in Deadlines, t \in Readings :
                RecordPurchaseForIntent(i, o, d, t)
    <3>1. PICK o \in Orders, d \in Deadlines, t \in Readings :
             RecordPurchaseForIntent(i, o, d, t)
      BY <2>5
    <3> DEFINE b == Bound(o, i, d, t)
    <3>2. b.intent = i
      BY <3>1 DEF RecordPurchaseForIntent
    <3>3. /\ rows[o].intent \in {NULL, i}
          /\ b.state = IF rows[o].state = "absent" THEN "polling"
                       ELSE rows[o].state
      BY <3>2, BoundRow DEF IInv
    <3>4. /\ \A p \in Orders : rows'[p] = IF p = o THEN b ELSE rows[p]
          /\ intents' = [intents EXCEPT ![i] = "resolved"]
          /\ intents[i] # "absent"
          /\ \A p \in Orders \ {o} : rows[p].intent # i
      BY <1>0, <3>1 DEF RecordPurchaseForIntent, IntentFree, TypeOK
    <3> HIDE DEF b
    <3>5. Ledger!Fulfil(o, i)
      BY <3>2, <3>3, <3>4 DEF Ledger!Fulfil
    <3> QED
      BY <3>5 DEF Ledger!Next
  <2> QED
    BY <2>1, <2>2, <2>3, <2>4, <2>5
<1>2. CASE PurchaseStep
  <2>1. PICK o \in Orders :
          \/ \E d \in Deadlines, t \in Readings : RecordPurchase(o, d, t)
          \/ MarkReconcileOnly(o)
    BY <1>2 DEF PurchaseStep
  <2>2. CASE \E d \in Deadlines, t \in Readings : RecordPurchase(o, d, t)
    <3>1. PICK d \in Deadlines, t \in Readings : RecordPurchase(o, d, t)
      BY <2>2
    <3>2. /\ \A p \in Orders \ {o} : rows'[p] = rows[p]
          /\ rows'[o].state = "polling" /\ rows'[o].intent = NULL
          /\ rows[o].state = "absent" /\ rows[o].intent = NULL
          /\ UNCHANGED intents
      BY <1>0, <3>1 DEF RecordPurchase, NewRow, IInv, AbsentIsBlank, NoRow, TypeOK
    <3>3. Ledger!OpenOrder(o)
      BY <3>2 DEF Ledger!OpenOrder
    <3> QED
      BY <3>3 DEF Ledger!Next
  <2>3. CASE MarkReconcileOnly(o)
    <3>1. /\ rows'[o] = [rows[o] EXCEPT !.state = "reconcile_only"]
          /\ \A p \in Orders \ {o} : rows'[p] = rows[p]
          /\ rows[o].state \in Open /\ UNCHANGED intents
      BY <1>0, <2>3 DEF MarkReconcileOnly, TypeOK
    <3>2. rows'[o].state = "reconcile_only" /\ rows'[o].intent = rows[o].intent
      BY <1>0, <3>1 DEF Row, Columns
    <3>3. "reconcile_only" \in Open \cup Settled
      BY DEF Open
    <3> QED
      BY <3>1, <3>2, <3>3, LedgerProgress
  <2> QED
    BY <2>1, <2>2, <2>3
<1>3. CASE \E w \in Workers : WorkerStep(w)
  <2>1. PICK w \in Workers : WorkerStep(w)
    BY <1>3
  <2>2. CASE \E S \in SUBSET Orders, t \in Readings, acked \in BOOLEAN :
                ClaimDue(w, S, t, acked)
    <3>1. PICK S \in SUBSET Orders, t \in Readings, acked \in BOOLEAN :
             ClaimDue(w, S, t, acked)
      BY <2>2
    <3>2. \A o \in Orders : Leased(w, o, t).state = rows[o].state
                           /\ Leased(w, o, t).intent = rows[o].intent
      BY <1>0 DEF Leased, Row, Columns
    <3>3. \A o \in Orders : rows'[o].state = rows[o].state
                           /\ rows'[o].intent = rows[o].intent
      BY <3>1, <3>2 DEF ClaimDue
    <3> QED
      BY <3>1, <3>3 DEF ClaimDue, Ledger!ledgerVars
  <2>3. CASE \E c \in held[w], n \in Time, acked \in BOOLEAN :
                WriteStep(w, c, n, acked)
    <3>1. PICK c \in held[w], n \in Time, acked \in BOOLEAN :
             WriteStep(w, c, n, acked)
      BY <2>3
    <3>2. PICK s \in Open \cup Settled : UpdateClaim(w, c, s, n, acked)
      BY <3>1, WriteIsUpdate DEF IInv
    <3>3. c.order \in Orders /\ rows[c.order].state \in Open
      BY <3>2, WriterSeesOpenRow DEF UpdateClaim
    <3>4. /\ rows'[c.order] = Released(c, s, n)
          /\ \A p \in Orders \ {c.order} : rows'[p] = rows[p]
          /\ UNCHANGED intents
      BY <1>0, <3>2, <3>3 DEF UpdateClaim, TypeOK
    <3>5. Released(c, s, n).state = s
          /\ Released(c, s, n).intent = rows[c.order].intent
      BY <1>0, <3>3 DEF Released, Row, Columns
    <3> QED
      BY <3>3, <3>4, <3>5, LedgerProgress
  <2>4. CASE DropClaims(w)
    BY <2>4 DEF DropClaims, Ledger!ledgerVars
  <2> QED
    BY <2>1, <2>2, <2>3, <2>4 DEF WorkerStep
<1>4. CASE Tick
  BY <1>4 DEF Tick, Ledger!ledgerVars
<1>5. CASE UNCHANGED vars
  BY <1>5 DEF vars, Ledger!ledgerVars
<1> QED
  BY <1>1, <1>2, <1>3, <1>4, <1>5 DEF Next

(* The store implements the ledger. *)
THEOREM StoreImplementsLedger == Spec => ImplementsLedger
  BY Invariance, LedgerInit, LedgerStepImplements, PTL
     DEF Spec, ImplementsLedger, Ledger!Spec
=============================================================================
