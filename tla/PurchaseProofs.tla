--------------------------- MODULE PurchaseProofs ---------------------------
(***************************************************************************)
(* Proofs about buying with the order store, for any number of             *)
(* coordinators, intents, orders, workers and crashes.  Every step is one  *)
(* of the store's or leaves it alone.  PInv relates where a coordinator is *)
(* to what became of its request and to the table: an order is stored or   *)
(* linked only by the coordinator whose request bought it, and only for    *)
(* the intent that was recorded before the request went out.               *)
(***************************************************************************)
EXTENDS PurchaseCoordinator, OrderStoreProofs

(* An order stands for a request from the moment the request goes out. *)
RequestHasPayer == \A o \in Orders : payer[o] = NULL <=> request[o] = "none"

(* An intent is recorded before anything is done for it. *)
IntentFirst ==
    \A i \in Intents :
        intents[i] = "absent" =>
            /\ \A o \in Orders : payer[o] # i
            /\ \A k \in Coordinators : coord[k].intent # i

(* What coordinator k relies on at its stage. *)
StageHolds(k) ==
    LET o == coord[k].order
    IN  /\ coord[k].pc \in {"calling", "bought", "stored"} => payer[o] = coord[k].intent
        /\ coord[k].pc \in {"bought", "stored"} => request[o] = "performed"
        /\ coord[k].pc = "stored" => rows[o].state # "absent"

Buying ==
    /\ RequestHasPayer
    /\ IntentFirst
    /\ \A k \in Coordinators : StageHolds(k)
    /\ ResolvedHasItsOrder

PInv == IInv /\ PTypeOK /\ Buying

-----------------------------------------------------------------------------
(* What a step may do to the table. *)

(* Rows stay, and so do their links. *)
RowsStay ==
    \A o \in Orders :
        /\ rows[o].state # "absent" => rows'[o].state # "absent"
        /\ rows'[o].intent = rows[o].intent

(* A write under a claim keeps its row and the row's link. *)
LEMMA UpdateStays ==
    ASSUME TypeOK, NEW w \in Workers, NEW c \in held[w], NEW n, NEW acked,
           NEW s \in Open \cup Settled, UpdateClaim(w, c, s, n, acked)
    PROVE  RowsStay
<1>1. rows \in [Orders -> Row] /\ c.order \in Orders
  BY DEF TypeOK, Claim
<1>2. rows' = [rows EXCEPT ![c.order] = Released(c, s, n)]
  BY DEF UpdateClaim
<1>3. ASSUME NEW o \in Orders
      PROVE  /\ rows[o].state # "absent" => rows'[o].state # "absent"
             /\ rows'[o].intent = rows[o].intent
  <2>1. CASE o # c.order
    BY <1>1, <1>2, <2>1
  <2>2. CASE o = c.order
    <3>1. rows'[o] = Released(c, s, n)
      BY <1>1, <1>2, <2>2
    <3> QED BY <1>1, <2>2, <3>1 DEF Released, Row, Columns, Open, Settled
  <2> QED BY <2>1, <2>2
<1> QED BY <1>3 DEF RowsStay

(* So does every step of a worker. *)
LEMMA WorkerStays == ASSUME TypeOK, NEW w \in Workers, WorkerStep(w) PROVE RowsStay
<1>1. ASSUME NEW S \in SUBSET Orders, NEW t, NEW acked, ClaimDue(w, S, t, acked)
      PROVE  RowsStay
  <2>1. rows \in [Orders -> Row]
    BY DEF TypeOK
  <2>2. \A o \in Orders : rows'[o] = IF o \in S THEN Leased(w, o, t) ELSE rows[o]
    BY <1>1 DEF ClaimDue
  <2> QED BY <2>1, <2>2 DEF RowsStay, Leased, Row, Columns
<1>2. ASSUME NEW c \in held[w], NEW n \in Time, NEW acked \in BOOLEAN,
             WriteStep(w, c, n, acked)
      PROVE  RowsStay
  BY <1>2, WriteIsUpdate, UpdateStays, TimesAreNaturals
<1>3. CASE DropClaims(w)
  BY <1>3 DEF DropClaims, RowsStay
<1> QED BY <1>1, <1>2, <1>3 DEF WorkerStep

(* So does a reconciliation mark. *)
LEMMA MarkStays == ASSUME TypeOK, NEW o \in Orders, MarkReconcileOnly(o) PROVE RowsStay
BY DEF TypeOK, MarkReconcileOnly, RowsStay, Row, Columns

(* A recorded order gets a row without a link; the other rows stay. *)
LEMMA RecordStays ==
    ASSUME TypeOK, NEW o \in Orders, NEW d, NEW t, RecordPurchase(o, d, t)
    PROVE  (\A p \in Orders : rows[p].state # "absent" => rows'[p].state # "absent")
           /\ rows'[o].state # "absent" /\ rows'[o].intent = NULL
           /\ \A p \in Orders \ {o} : rows'[p] = rows[p]
BY DEF TypeOK, RecordPurchase, NewRow

(* The order bought for an intent gets a row and the link. *)
LEMMA BindStays ==
    ASSUME TypeOK, NEW i \in Intents, NEW o \in Orders, NEW d, NEW t,
           RecordPurchaseForIntent(i, o, d, t)
    PROVE  /\ \A p \in Orders \ {o} : rows'[p] = rows[p]
           /\ rows'[o].state # "absent" /\ rows'[o].intent = i
           /\ intents' = [intents EXCEPT ![i] = "resolved"]
<1>1. rows \in [Orders -> Row] /\ rows' = [rows EXCEPT ![o] = Bound(o, i, d, t)]
      /\ Bound(o, i, d, t).intent = i
  BY DEF TypeOK, RecordPurchaseForIntent
<1>2. Bound(o, i, d, t).state # "absent"
  BY <1>1 DEF Bound, NewRow, Row, Columns
<1> QED BY <1>1, <1>2 DEF RecordPurchaseForIntent

-----------------------------------------------------------------------------
(* Every step is a step or a stutter of the store. *)
LEMMA PStoreStep == ASSUME PTypeOK, [PNext]_allVars PROVE [Next]_vars
<1> USE DEF Next, LedgerStep, PurchaseStep
<1>1. CASE UNCHANGED allVars
  BY <1>1 DEF allVars, vars
<1>2. CASE Elsewhere
  BY <1>2 DEF Elsewhere
<1>3. ASSUME NEW o \in Orders, Perform(o) \/ Refuse(o) PROVE [Next]_vars
  BY <1>3 DEF Perform, Refuse
<1>4. ASSUME NEW k \in Coordinators, Coordinate(k) PROVE [Next]_vars
  <2>1. ASSUME NEW i \in Intents, RecordIntent(k, i) PROVE [Next]_vars
    BY <2>1 DEF RecordIntent
  <2>2. ASSUME NEW o \in Orders, Request(k, o) PROVE [Next]_vars
    BY <2>2 DEF Request
  <2>3. CASE Answer(k) \/ PersistRejected(k) \/ Crash(k)
    BY <2>3 DEF Answer, Answered, AnswerFailed, AnswerUnknown, PersistRejected, Crash
  <2>4. CASE MarkAmbiguous(k)
    BY <1>4, <2>4 DEF MarkAmbiguous, PTypeOK
  <2>5. CASE Resolve(k)
    BY <1>4, <2>5 DEF Resolve, PTypeOK
  <2>6. ASSUME NEW t \in Readings, PersistForIntent(k, t) PROVE [Next]_vars
    BY <1>4, <2>6 DEF PersistForIntent, PTypeOK
  <2>7. ASSUME NEW t \in Readings, Store(k, t) PROVE [Next]_vars
    BY <1>4, <2>7 DEF Store, PTypeOK
  <2> QED BY <1>4, <2>1, <2>2, <2>3, <2>4, <2>5, <2>6, <2>7 DEF Coordinate
<1> QED BY <1>1, <1>2, <1>3, <1>4 DEF PNext

-----------------------------------------------------------------------------
(* Types. *)

(* What is said of the coordinators' own variables. *)
CoordTyped ==
    /\ coord \in [Coordinators -> Stage]
    /\ \A k \in Coordinators :
          /\ coord[k].pc # "idle" => coord[k].intent \in Intents
          /\ coord[k].pc \in {"calling", "bought", "stored"} => coord[k].order \in Orders
    /\ payer \in [Orders -> Intents \cup {NULL}]
    /\ request \in [Orders -> {"none", "sent", "performed", "refused"}]
    /\ crashes \in 0..MaxCrashes

(* A stage a coordinator may be in. *)
GoodStage(s) ==
    /\ s \in Stage
    /\ s.pc # "idle" => s.intent \in Intents
    /\ s.pc \in {"calling", "bought", "stored"} => s.order \in Orders

(* The initial state is well typed. *)
LEMMA PTypeInit == PInit => PTypeOK
BY TypeInit, CrashAssumption DEF PInit, PTypeOK, Stage, Stages, Idle

(* A move of one coordinator leaves the others where they are. *)
LEMMA MoveTyped ==
    ASSUME CoordTyped, NEW k \in Coordinators, NEW s, GoodStage(s), Move(k, s)
    PROVE  /\ coord'[k] = s
           /\ \A j \in Coordinators \ {k} : coord'[j] = coord[j]
           /\ coord' \in [Coordinators -> Stage]
           /\ \A j \in Coordinators :
                 /\ coord'[j].pc # "idle" => coord'[j].intent \in Intents
                 /\ coord'[j].pc \in {"calling", "bought", "stored"} =>
                       coord'[j].order \in Orders
BY DEF CoordTyped, Move, GoodStage

(* Only the place of a coordinator changes. *)
LEMMA GotoStage ==
    ASSUME CoordTyped, NEW k \in Coordinators, coord[k].pc # "idle",
           NEW p \in Stages, p = "stored" \/ p = "bought" => coord[k].order \in Orders,
           p # "calling"
    PROVE  /\ GoodStage([coord[k] EXCEPT !.pc = p])
           /\ [coord[k] EXCEPT !.pc = p].pc = p
           /\ [coord[k] EXCEPT !.pc = p].intent = coord[k].intent
           /\ [coord[k] EXCEPT !.pc = p].order = coord[k].order
BY DEF CoordTyped, GoodStage, Stage, Stages

(* The idle stage is one. *)
LEMMA IdleStage == GoodStage(Idle) /\ Idle.pc = "idle" /\ Idle.intent = NULL
BY DEF GoodStage, Idle, Stage, Stages

(* A reply moves a coordinator or leaves it, and counts what was lost. *)
LEMMA RepliedTyped ==
    ASSUME CoordTyped, NEW k \in Coordinators, NEW s, GoodStage(s), Replied(k, s)
    PROVE  /\ coord'[k] \in {s, coord[k]}
           /\ \A j \in Coordinators \ {k} : coord'[j] = coord[j]
           /\ coord' \in [Coordinators -> Stage]
           /\ \A j \in Coordinators :
                 /\ coord'[j].pc # "idle" => coord'[j].intent \in Intents
                 /\ coord'[j].pc \in {"calling", "bought", "stored"} =>
                       coord'[j].order \in Orders
           /\ crashes' \in 0..MaxCrashes
<1>1. CASE Move(k, s) /\ UNCHANGED crashes
  BY <1>1, MoveTyped DEF CoordTyped
<1>2. CASE UNCHANGED coord /\ Fault
  BY <1>2, CrashAssumption DEF CoordTyped, Fault
<1> QED BY <1>1, <1>2 DEF Replied

(* What a step of coordinator k does to its own variables, and the stage it  *)
(* is in afterwards.                                                         *)
Moved(k) ==
    /\ CoordTyped'
    /\ \A j \in Coordinators \ {k} : coord'[j] = coord[j]

(* The steps of a coordinator that is answered, or ends its attempt. *)
LEMMA AnswerMoves ==
    ASSUME CoordTyped, NEW k \in Coordinators,
           Answer(k) \/ PersistRejected(k) \/ Crash(k)
    PROVE  /\ Moved(k) /\ UNCHANGED <<vars, payer, request>>
           /\ \/ coord'[k] = Idle
              \/ /\ coord'[k].pc = "ambiguous"
                 /\ coord'[k].intent = coord[k].intent
              \/ /\ coord'[k].pc = "bought" /\ coord[k].pc = "calling"
                 /\ request[coord[k].order] = "performed"
                 /\ coord'[k].intent = coord[k].intent
                 /\ coord'[k].order = coord[k].order
<1>1. CASE Answered(k)
  <2>1. PICK d \in PurchaseDocument :
           Goto(k, IF PurchaseSmsResponse(d) = "order" THEN "bought" ELSE "ambiguous")
    BY <1>1 DEF Answered
  <2>2. /\ coord[k].pc = "calling" /\ coord[k].order \in Orders
        /\ request[coord[k].order] = "performed"
        /\ UNCHANGED <<vars, payer, request, crashes>>
    BY <1>1 DEF Answered, CoordTyped
  <2>3. CASE Move(k, [coord[k] EXCEPT !.pc = "bought"])
    <3>1. GoodStage([coord[k] EXCEPT !.pc = "bought"])
      BY <2>2, GotoStage DEF Stages
    <3>2. coord'[k] = [coord[k] EXCEPT !.pc = "bought"] /\ Moved(k)
      BY <2>2, <2>3, <3>1, MoveTyped DEF Moved, CoordTyped
    <3> QED BY <2>2, <3>2, GotoStage DEF Stages
  <2>4. CASE Move(k, [coord[k] EXCEPT !.pc = "ambiguous"])
    <3>1. GoodStage([coord[k] EXCEPT !.pc = "ambiguous"])
      BY <2>2, GotoStage DEF Stages
    <3>2. coord'[k] = [coord[k] EXCEPT !.pc = "ambiguous"] /\ Moved(k)
      BY <2>2, <2>4, <3>1, MoveTyped DEF Moved, CoordTyped
    <3> QED BY <2>2, <3>2, GotoStage DEF Stages
  <2> QED BY <2>1, <2>3, <2>4 DEF Goto
<1>2. CASE AnswerUnknown(k)
  <2>1. /\ coord[k].pc = "calling" /\ UNCHANGED <<vars, payer, request, crashes>>
        /\ Move(k, [coord[k] EXCEPT !.pc = "ambiguous"])
    BY <1>2 DEF AnswerUnknown, Goto
  <2>2. GoodStage([coord[k] EXCEPT !.pc = "ambiguous"])
    BY <2>1, GotoStage DEF Stages
  <2>3. coord'[k] = [coord[k] EXCEPT !.pc = "ambiguous"] /\ Moved(k)
    BY <2>1, <2>2, MoveTyped DEF Moved, CoordTyped
  <2> QED BY <2>1, <2>3, GotoStage DEF Stages
<1>3. CASE AnswerFailed(k) \/ PersistRejected(k) \/ Crash(k)
  <2>1. /\ Move(k, Idle) /\ UNCHANGED <<vars, payer, request>>
        /\ crashes' \in 0..MaxCrashes
    BY <1>3, CrashAssumption DEF AnswerFailed, PersistRejected, Crash, Fault, CoordTyped
  <2> QED BY <2>1, IdleStage, MoveTyped DEF Moved, CoordTyped
<1> QED BY <1>1, <1>2, <1>3 DEF Answer

(* RecordIntent: a coordinator starts on a recorded intent. *)
LEMMA RecordIntentMoves ==
    ASSUME CoordTyped, NEW k \in Coordinators, NEW i \in Intents, RecordIntent(k, i)
    PROVE  /\ Moved(k) /\ UNCHANGED <<rows, payer, request>>
           /\ coord'[k].pc \in {"idle", "recorded"}
           /\ coord'[k].intent \in {coord[k].intent, i}
           /\ intents' = [intents EXCEPT ![i] = IF @ = "absent" THEN "pending" ELSE @]
<1> DEFINE s == [pc |-> "recorded", intent |-> i, order |-> NULL]
<1>1. /\ coord[k] = Idle /\ Replied(k, s)
      /\ UNCHANGED <<rows, payer, request>>
      /\ intents' = [intents EXCEPT ![i] = IF @ = "absent" THEN "pending" ELSE @]
  BY DEF RecordIntent, RecordPurchaseIntent
<1>2. GoodStage(s) /\ s.pc = "recorded" /\ s.intent = i
  BY DEF GoodStage, Stage, Stages
<1> HIDE DEF s
<1> QED BY <1>1, <1>2, RepliedTyped, IdleStage DEF Moved, CoordTyped

(* Request: an order that had no payer gets one. *)
LEMMA RequestMoves ==
    ASSUME CoordTyped, NEW k \in Coordinators, NEW o \in Orders, Request(k, o)
    PROVE  /\ Moved(k) /\ UNCHANGED vars
           /\ coord[k].pc = "recorded" /\ coord[k].intent \in Intents
           /\ coord'[k].pc = "calling" /\ coord'[k].order = o
           /\ coord'[k].intent = coord[k].intent
           /\ payer[o] = NULL /\ payer' = [payer EXCEPT ![o] = coord[k].intent]
           /\ request' = [request EXCEPT ![o] = "sent"]
<1> DEFINE s == [pc |-> "calling", intent |-> coord[k].intent, order |-> o]
<1>1. /\ coord[k].pc = "recorded" /\ Move(k, s) /\ UNCHANGED vars
      /\ payer[o] = NULL /\ payer' = [payer EXCEPT ![o] = coord[k].intent]
      /\ request' = [request EXCEPT ![o] = "sent"] /\ UNCHANGED crashes
  BY DEF Request
<1>2. coord[k].intent \in Intents
  BY <1>1 DEF CoordTyped
<1>3. GoodStage(s) /\ s.pc = "calling" /\ s.intent = coord[k].intent /\ s.order = o
  BY <1>2 DEF GoodStage, Stage, Stages
<1> HIDE DEF s
<1> QED BY <1>1, <1>2, <1>3, MoveTyped DEF Moved, CoordTyped

(* The store calls that end an attempt. *)
LEMMA EndMoves ==
    ASSUME CoordTyped, NEW k \in Coordinators, Replied(k, Idle),
           UNCHANGED <<payer, request>>
    PROVE  Moved(k) /\ coord'[k] \in {Idle, coord[k]}
BY RepliedTyped, IdleStage DEF Moved, CoordTyped

(* Store: the order of the coordinator is in the table. *)
LEMMA StoreMoves ==
    ASSUME CoordTyped, NEW k \in Coordinators, NEW t \in Readings, Store(k, t)
    PROVE  /\ Moved(k) /\ UNCHANGED <<payer, request>>
           /\ coord[k].pc = "bought" /\ coord[k].order \in Orders
           /\ coord'[k].pc \in {"bought", "stored"}
           /\ coord'[k].intent = coord[k].intent
           /\ coord'[k].order = coord[k].order
<1> DEFINE s == [coord[k] EXCEPT !.pc = "stored"]
<1>1. /\ coord[k].pc = "bought" /\ Replied(k, s) /\ UNCHANGED <<payer, request>>
      /\ coord[k].order \in Orders
  BY DEF Store, CoordTyped
<1>2. /\ GoodStage(s) /\ s.pc = "stored"
      /\ s.intent = coord[k].intent /\ s.order = coord[k].order
  BY <1>1, GotoStage DEF Stages
<1> HIDE DEF s
<1> QED BY <1>1, <1>2, RepliedTyped DEF Moved, CoordTyped

(* Every step keeps the types. *)
LEMMA PTypeStep == PTypeOK /\ [PNext]_allVars => PTypeOK'
<1> SUFFICES ASSUME PTypeOK, [PNext]_allVars PROVE PTypeOK'
  OBVIOUS
<1>1. TypeOK' /\ CoordTyped
  BY PStoreStep, TypeStep DEF PTypeOK, CoordTyped
<1>2. SUFFICES CoordTyped'
  BY <1>1 DEF PTypeOK, CoordTyped
<1>3. CASE UNCHANGED coordVars
  BY <1>1, <1>3 DEF coordVars, CoordTyped
<1>4. ASSUME NEW o \in Orders, Perform(o) \/ Refuse(o) PROVE CoordTyped'
  BY <1>1, <1>4 DEF Perform, Refuse, CoordTyped
<1>5. ASSUME NEW k \in Coordinators, Coordinate(k) PROVE CoordTyped'
  <2>1. ASSUME NEW i \in Intents, RecordIntent(k, i) PROVE CoordTyped'
    BY <1>1, <2>1, RecordIntentMoves DEF Moved
  <2>2. ASSUME NEW o \in Orders, Request(k, o) PROVE CoordTyped'
    BY <1>1, <2>2, RequestMoves DEF Moved
  <2>3. CASE Answer(k) \/ PersistRejected(k) \/ Crash(k)
    BY <1>1, <2>3, AnswerMoves DEF Moved
  <2>4. CASE MarkAmbiguous(k) \/ Resolve(k)
    BY <1>1, <2>4, EndMoves DEF MarkAmbiguous, Resolve, Moved
  <2>5. ASSUME NEW t \in Readings, PersistForIntent(k, t) PROVE CoordTyped'
    BY <1>1, <2>5, EndMoves DEF PersistForIntent, Moved
  <2>6. ASSUME NEW t \in Readings, Store(k, t) PROVE CoordTyped'
    BY <1>1, <2>6, StoreMoves DEF Moved
  <2> QED BY <1>5, <2>1, <2>2, <2>3, <2>4, <2>5, <2>6 DEF Coordinate
<1> QED
  BY <1>3, <1>4, <1>5 DEF PNext, Elsewhere, allVars, coordVars

(* Every reachable state is well typed. *)
THEOREM PTypeCorrect == PSpec => []PTypeOK
BY PTypeInit, PTypeStep, PTL DEF PSpec

-----------------------------------------------------------------------------
(* The inductive invariant. *)

(* The initial state satisfies PInv. *)
LEMMA PInvInit == PInit => PInv
<1> SUFFICES ASSUME PInit PROVE PInv
  OBVIOUS
<1>1. IInv /\ PTypeOK
  BY IInvInit, PTypeInit DEF PInit
<1>2. Buying
  BY NullAssumption DEF PInit, Init, NoRow, Buying, RequestHasPayer, IntentFirst,
         StageHolds, ResolvedHasItsOrder, Idle
<1> QED BY <1>1, <1>2 DEF PInv

(* What no step takes back: a payer, a performed request, a row. *)
Kept ==
    \A o \in Orders :
        /\ payer[o] # NULL => payer'[o] = payer[o]
        /\ request[o] = "performed" => request'[o] = "performed"
        /\ rows[o].state # "absent" => rows'[o].state # "absent"

(* So a coordinator that stays where it is keeps what it relies on.          *)
LEMMA StageKept ==
    ASSUME PInv, Kept, NEW k \in Coordinators, coord'[k] = coord[k]
    PROVE  StageHolds(k)'
<1>1. StageHolds(k) /\ RequestHasPayer /\ PTypeOK
  BY DEF PInv, Buying
<1>2. NULL \notin Intents
  BY NullAssumption
<1> QED BY <1>1, <1>2 DEF StageHolds, PTypeOK, Kept

(* A link names a payer, and a resolved intent has its order, after every    *)
(* step that links only so and resolves only what is stored.                 *)
LEMMA LinksKept ==
    ASSUME PInv, Kept,
           \A o \in Orders :
              rows'[o].intent # NULL =>
                 \/ rows'[o].intent = rows[o].intent
                 \/ rows'[o].intent = payer[o],
           \A i \in Intents :
              intents'[i] = "resolved" =>
                 \/ intents[i] = "resolved"
                 \/ \E o \in Orders : /\ payer[o] = i /\ request[o] = "performed"
                                      /\ rows'[o].state # "absent"
    PROVE  ResolvedHasItsOrder'
<1>1. ResolvedHasItsOrder /\ NULL \notin Intents
  BY NullAssumption DEF PInv, Buying
<1>2. ASSUME NEW i \in Intents, intents'[i] = "resolved"
      PROVE  \E o \in Orders : /\ payer'[o] = i /\ request'[o] = "performed"
                               /\ rows'[o].state # "absent"
  <2>1. PICK o \in Orders : /\ payer[o] = i /\ request[o] = "performed"
                            /\ rows'[o].state # "absent"
    BY <1>1, <1>2 DEF ResolvedHasItsOrder, Kept
  <2> QED BY <1>1, <2>1 DEF Kept
<1>3. ASSUME NEW o \in Orders, rows'[o].intent # NULL
      PROVE  rows'[o].intent = payer'[o]
  BY <1>1, <1>3 DEF ResolvedHasItsOrder, Kept
<1> QED BY <1>2, <1>3 DEF ResolvedHasItsOrder

(* A step that sends no request keeps Buying when it keeps what was bought   *)
(* and links and resolves as in LinksKept; k is the one coordinator that     *)
(* moves, within its intent or to a recorded one.                            *)
LEMMA NothingSent ==
    ASSUME PInv, UNCHANGED <<payer, request>>, NEW k \in Coordinators,
           \A j \in Coordinators \ {k} : coord'[j] = coord[j],
           StageHolds(k)',
           \A o \in Orders :
              /\ rows[o].state # "absent" => rows'[o].state # "absent"
              /\ rows'[o].intent \in {NULL, rows[o].intent, payer[o]},
           \A i \in Intents :
              /\ intents'[i] = "absent" =>
                    intents[i] = "absent" /\ coord'[k].intent \in {NULL, coord[k].intent}
              /\ intents'[i] = "resolved" =>
                    \/ intents[i] = "resolved"
                    \/ \E o \in Orders : /\ payer[o] = i /\ request[o] = "performed"
                                         /\ rows'[o].state # "absent"
    PROVE  Buying'
<1>1. Kept
  BY DEF Kept
<1>2. \A j \in Coordinators : StageHolds(j)'
  BY <1>1, StageKept
<1>3. ResolvedHasItsOrder'
  BY <1>1, LinksKept
<1>4. RequestHasPayer' /\ IntentFirst'
  BY NullAssumption DEF PInv, Buying, RequestHasPayer, IntentFirst
<1> QED BY <1>2, <1>3, <1>4 DEF Buying

(* No step of a coordinator breaks Buying. *)
LEMMA CoordinateStep ==
    ASSUME PInv, PTypeOK', NEW k \in Coordinators, Coordinate(k)
    PROVE  Buying'
<1>1. /\ PTypeOK /\ TypeOK /\ IInv /\ CoordTyped /\ NULL \notin Intents
      /\ coord[k].pc # "idle" => coord[k].intent \in Intents
      /\ coord[k].pc \in {"calling", "bought", "stored"} => coord[k].order \in Orders
      /\ intents \in [Intents -> IntentStates]
  BY NullAssumption DEF PInv, PTypeOK, TypeOK, CoordTyped
<1>2. RequestHasPayer /\ IntentFirst /\ StageHolds(k) /\ ResolvedHasItsOrder
  BY DEF PInv, Buying
<1>3. ASSUME NEW i \in Intents, RecordIntent(k, i) PROVE Buying'
  <2>1. /\ Moved(k) /\ UNCHANGED <<rows, payer, request>>
        /\ coord'[k].pc \in {"idle", "recorded"}
        /\ coord'[k].intent \in {coord[k].intent, i}
        /\ intents' = [intents EXCEPT ![i] = IF @ = "absent" THEN "pending" ELSE @]
    BY <1>1, <1>3, RecordIntentMoves
  <2>2. coord[k].intent = NULL
    BY <1>3 DEF RecordIntent, Idle
  <2>3. \A j \in Intents :
           /\ intents'[j] = "absent" => intents[j] = "absent" /\ j # i
           /\ intents'[j] = "resolved" => intents[j] = "resolved"
    BY <1>1, <2>1
  <2>4. Kept
    BY <2>1 DEF Kept
  <2>5. StageHolds(k)' /\ \A j \in Coordinators : StageHolds(j)'
    BY <2>1, <2>4, StageKept DEF StageHolds, Moved
  <2>6. ResolvedHasItsOrder'
    BY <2>1, <2>3, <2>4, LinksKept
  <2>7. RequestHasPayer' /\ IntentFirst'
    BY <1>1, <1>2, <2>1, <2>2, <2>3 DEF RequestHasPayer, IntentFirst, Moved
  <2> QED BY <2>5, <2>6, <2>7 DEF Buying
<1>4. ASSUME NEW o \in Orders, Request(k, o) PROVE Buying'
  <2>1. /\ Moved(k) /\ UNCHANGED <<rows, intents>>
        /\ coord[k].pc = "recorded" /\ coord[k].intent \in Intents
        /\ coord'[k].pc = "calling" /\ coord'[k].order = o
        /\ coord'[k].intent = coord[k].intent
        /\ payer[o] = NULL /\ payer' = [payer EXCEPT ![o] = coord[k].intent]
        /\ request' = [request EXCEPT ![o] = "sent"]
    BY <1>1, <1>4, RequestMoves DEF vars
  <2>2. request[o] = "none" /\ payer'[o] = coord[k].intent /\ request'[o] = "sent"
    BY <1>1, <1>2, <2>1 DEF RequestHasPayer, PTypeOK
  <2>3. Kept
    BY <1>1, <2>1, <2>2 DEF Kept, PTypeOK
  <2>4. StageHolds(k)'
    BY <2>1, <2>2 DEF StageHolds
  <2>5. \A j \in Coordinators : StageHolds(j)'
    BY <2>1, <2>3, <2>4, StageKept DEF Moved
  <2>6. ResolvedHasItsOrder'
    BY <2>1, <2>3, LinksKept
  <2>7. RequestHasPayer'
    BY <1>1, <1>2, <2>1, <2>2 DEF RequestHasPayer, PTypeOK
  <2>8. IntentFirst'
    BY <1>1, <1>2, <2>1 DEF IntentFirst, PTypeOK, Moved
  <2> QED BY <2>5, <2>6, <2>7, <2>8 DEF Buying
<1>5. CASE Answer(k) \/ PersistRejected(k) \/ Crash(k)
  <2>1. /\ Moved(k) /\ UNCHANGED <<rows, intents, payer, request>>
        /\ \/ coord'[k] = Idle
           \/ /\ coord'[k].pc = "ambiguous"
              /\ coord'[k].intent = coord[k].intent
           \/ /\ coord'[k].pc = "bought" /\ coord[k].pc = "calling"
              /\ request[coord[k].order] = "performed"
              /\ coord'[k].intent = coord[k].intent
              /\ coord'[k].order = coord[k].order
    BY <1>1, <1>5, AnswerMoves DEF vars
  <2>2. StageHolds(k)' /\ coord'[k].intent \in {NULL, coord[k].intent}
    BY <1>2, <2>1 DEF StageHolds, Idle
  <2> QED BY <2>1, <2>2, NothingSent DEF Moved
<1>6. CASE MarkAmbiguous(k)
  <2>1. /\ UNCHANGED <<rows, payer, request>> /\ coord[k].pc = "ambiguous"
        /\ intents' \in {intents, [intents EXCEPT ![coord[k].intent] = "reconcile_only"]}
        /\ Replied(k, Idle)
    BY <1>6 DEF MarkAmbiguous, MarkPurchaseIntentReconcileOnly, vars
  <2>2. Moved(k) /\ coord'[k] \in {Idle, coord[k]}
    BY <1>1, <2>1, EndMoves
  <2>3. \A j \in Intents : intents'[j] \in {intents[j], "reconcile_only"}
    BY <1>1, <2>1
  <2>4. StageHolds(k)' /\ coord'[k].intent \in {NULL, coord[k].intent}
    BY <2>1, <2>2 DEF StageHolds, Idle
  <2> QED BY <2>1, <2>2, <2>3, <2>4, NothingSent DEF Moved
<1>7. CASE Resolve(k)
  <2>1. /\ UNCHANGED <<rows, payer, request>> /\ coord[k].pc = "stored"
        /\ intents' \in {intents, [intents EXCEPT ![coord[k].intent] = "resolved"]}
        /\ Replied(k, Idle)
    BY <1>7 DEF Resolve, ResolvePurchaseIntent, vars
  <2>2. Moved(k) /\ coord'[k] \in {Idle, coord[k]}
    BY <1>1, <2>1, EndMoves
  <2>3. \A j \in Intents :
           /\ intents'[j] = "absent" => intents[j] = "absent"
           /\ intents'[j] = "resolved" => intents[j] = "resolved" \/ j = coord[k].intent
    BY <1>1, <2>1
  <2>4. StageHolds(k)' /\ coord'[k].intent \in {NULL, coord[k].intent}
    BY <1>2, <2>1, <2>2 DEF StageHolds, Idle
  <2>5. LET o == coord[k].order
        IN  /\ o \in Orders /\ payer[o] = coord[k].intent
            /\ request[o] = "performed" /\ rows'[o].state # "absent"
    BY <1>1, <1>2, <2>1 DEF StageHolds
  <2> QED BY <2>1, <2>2, <2>3, <2>4, <2>5, NothingSent DEF Moved
<1>8. ASSUME NEW t \in Readings, PersistForIntent(k, t) PROVE Buying'
  <2> DEFINE i == coord[k].intent
             o == coord[k].order
  <2>1. /\ coord[k].pc = "bought" /\ i \in Intents /\ o \in Orders
        /\ Replied(k, Idle) /\ UNCHANGED <<payer, request>>
    BY <1>1, <1>8 DEF PersistForIntent
  <2>2. PICK d \in Deadlines : RecordPurchaseForIntent(i, o, d, t)
    BY <1>8 DEF PersistForIntent
  <2>3. /\ \A p \in Orders \ {o} : rows'[p] = rows[p]
        /\ rows'[o].state # "absent" /\ rows'[o].intent = i
        /\ intents' = [intents EXCEPT ![i] = "resolved"]
    BY <1>1, <2>1, <2>2, BindStays
  <2>4. payer[o] = i /\ request[o] = "performed"
    BY <1>2, <2>1 DEF StageHolds
  <2>5. Moved(k) /\ coord'[k] \in {Idle, coord[k]}
    BY <1>1, <2>1, EndMoves
  <2>6. StageHolds(k)' /\ coord'[k].intent \in {NULL, coord[k].intent}
    BY <2>1, <2>4, <2>5 DEF StageHolds, Idle
  <2>7. \A j \in Intents :
           /\ intents'[j] = "absent" => intents[j] = "absent"
           /\ intents'[j] = "resolved" => intents[j] = "resolved" \/ j = i
    BY <1>1, <2>3
  <2> HIDE DEF i, o
  <2> QED BY <2>1, <2>3, <2>4, <2>5, <2>6, <2>7, NothingSent DEF Moved, i
<1>9. ASSUME NEW t \in Readings, Store(k, t) PROVE Buying'
  <2> DEFINE o == coord[k].order
  <2>1. /\ Moved(k) /\ UNCHANGED <<payer, request>>
        /\ coord[k].pc = "bought" /\ o \in Orders
        /\ coord'[k].pc \in {"bought", "stored"}
        /\ coord'[k].intent = coord[k].intent /\ coord'[k].order = o
    BY <1>1, <1>9, StoreMoves
  <2>2. /\ rows'[o].state # "absent" /\ UNCHANGED intents
        /\ \A p \in Orders :
              /\ rows[p].state # "absent" => rows'[p].state # "absent"
              /\ rows'[p].intent \in {NULL, rows[p].intent}
    <3>1. CASE \E d \in Deadlines : RecordPurchase(o, d, t)
      <4>1. PICK d \in Deadlines : RecordPurchase(o, d, t)
        BY <3>1
      <4> QED BY <1>1, <2>1, <4>1, RecordStays DEF RecordPurchase
    <3>2. CASE rows[o].state # "absent" /\ UNCHANGED vars
      BY <3>2 DEF vars
    <3> QED BY <1>9, <3>1, <3>2 DEF Store
  <2>3. StageHolds(k)'
    BY <1>2, <2>1, <2>2 DEF StageHolds
  <2> QED BY <2>1, <2>2, <2>3, NothingSent DEF Moved
<1> QED
  BY <1>3, <1>4, <1>5, <1>6, <1>7, <1>8, <1>9 DEF Coordinate

(* No answer of the provider, and no step of a worker, breaks Buying.        *)
LEMMA OthersStep ==
    ASSUME PInv, UNCHANGED <<intents, coord, payer>>, Kept, RequestHasPayer',
           \A o \in Orders : rows'[o].intent = rows[o].intent
    PROVE  Buying'
<1>1. \A k \in Coordinators : StageHolds(k)'
  BY StageKept
<1>2. ResolvedHasItsOrder'
  BY LinksKept
<1>3. IntentFirst'
  BY DEF PInv, Buying, IntentFirst
<1> QED BY <1>1, <1>2, <1>3 DEF Buying

(* Every step keeps PInv. *)
LEMMA PInvStep == PInv /\ [PNext]_allVars => PInv'
<1> SUFFICES ASSUME PInv, [PNext]_allVars PROVE PInv'
  OBVIOUS
<1>1. TypeOK /\ PTypeOK /\ IInv' /\ PTypeOK' /\ RequestHasPayer
  BY PStoreStep, IInvStep, PTypeStep DEF PInv, PTypeOK, Buying
<1>2. SUFFICES Buying'
  BY <1>1 DEF PInv
<1>3. CASE Elsewhere
  <2>1. RowsStay
    BY <1>1, <1>3, WorkerStays, MarkStays DEF Elsewhere
  <2>2. UNCHANGED intents
    <3>1. ASSUME NEW w \in Workers, NEW c \in held[w], NEW n \in Time,
                 NEW acked \in BOOLEAN, WriteStep(w, c, n, acked)
          PROVE  UNCHANGED intents
      BY <1>1, <3>1, WriteIsUpdate DEF UpdateClaim
    <3>2. ASSUME NEW w \in Workers, WorkerStep(w) PROVE UNCHANGED intents
      BY <3>1, <3>2 DEF WorkerStep, ClaimDue, DropClaims
    <3>3. ASSUME NEW o \in Orders, MarkReconcileOnly(o) PROVE UNCHANGED intents
      BY <3>3 DEF MarkReconcileOnly
    <3> QED BY <1>3, <3>2, <3>3 DEF Elsewhere
  <2>3. UNCHANGED <<coord, payer, request>>
    BY <1>3 DEF Elsewhere, coordVars
  <2> QED BY <1>1, <2>1, <2>2, <2>3, OthersStep DEF RowsStay, Kept, RequestHasPayer
<1>4. ASSUME NEW o \in Orders, Perform(o) \/ Refuse(o) PROVE Buying'
  <2>1. /\ UNCHANGED <<rows, intents, coord, payer>> /\ request[o] = "sent"
        /\ \E r \in {"performed", "refused"} : request' = [request EXCEPT ![o] = r]
    BY <1>4 DEF Perform, Refuse, vars
  <2>2. \A p \in Orders \ {o} : request'[p] = request[p]
    BY <1>1, <2>1 DEF PTypeOK
  <2>3. request'[o] # "none"
    BY <1>1, <2>1 DEF PTypeOK
  <2>4. Kept /\ RequestHasPayer'
    BY <1>1, <2>1, <2>2, <2>3 DEF Kept, RequestHasPayer
  <2> QED BY <2>1, <2>4, OthersStep
<1>5. CASE UNCHANGED allVars
  <2>1. UNCHANGED <<rows, intents, coord, payer, request>>
    BY <1>5 DEF allVars, coordVars
  <2> QED BY <1>1, <2>1, OthersStep DEF Kept, RequestHasPayer
<1> QED
  BY <1>3, <1>4, <1>5, <1>1, CoordinateStep DEF PNext

(* PInv holds in every reachable state. *)
LEMMA PInvariance == PSpec => []PInv
BY PInvInit, PInvStep, PTL DEF PSpec

-----------------------------------------------------------------------------
(* A resolved intent has an order in the store that its request bought, and  *)
(* a link names the intent that paid: whatever crashed, whichever reply was  *)
(* lost, and however many coordinators worked on the intent.                 *)
THEOREM ResolvedIsStored == PSpec => []ResolvedHasItsOrder
<1>1. PInv => ResolvedHasItsOrder
  BY DEF PInv, Buying
<1> QED BY PInvariance, <1>1, PTL

(* A paid order that is not in the store has an open intent, or one that     *)
(* paid twice and whose other order is in the store.                         *)
THEOREM PaidOrdersTraceable == PSpec => []PaidOrderTraceable
<1>1. ASSUME PInv, NEW o \in Orders, request[o] = "performed",
             rows[o].state = "absent"
      PROVE  \/ intents[payer[o]] \in {"pending", "reconcile_only"}
             \/ \E p \in Orders \ {o} : payer[p] = payer[o] /\ rows[p].state # "absent"
  <2>1. payer[o] \in Intents /\ intents[payer[o]] \in IntentStates
    BY <1>1 DEF PInv, PTypeOK, TypeOK, Buying, RequestHasPayer
  <2>2. intents[payer[o]] # "absent"
    BY <1>1, <2>1 DEF PInv, Buying, IntentFirst
  <2>3. CASE intents[payer[o]] = "resolved"
    BY <1>1, <2>1, <2>3 DEF PInv, Buying, ResolvedHasItsOrder
  <2> QED BY <2>1, <2>2, <2>3 DEF IntentStates
<1>2. PInv => PaidOrderTraceable
  BY <1>1 DEF PaidOrderTraceable
<1> QED BY PInvariance, <1>2, PTL

(* The coordinators and the workers together only take steps of the store,   *)
(* so all that is proved of the store holds here.                            *)
THEOREM PurchasesUseTheStore == PSpec => Spec
<1>1. PInit => Init
  BY DEF PInit
<1> QED BY <1>1, PStoreStep, PTypeCorrect, PTL DEF PSpec, Spec

(* So linked orders have a resolved intent of their own, and what is stored  *)
(* implements the ledger.                                                    *)
THEOREM PurchasesImplementLedger ==
    PSpec => []LinkedIntentResolved /\ ImplementsLedger
BY PurchasesUseTheStore, LinkedIntents, StoreImplementsLedger, PTL

(* And a paid order is fenced and final: through crashes of its coordinators *)
(* and lost replies, one claim at a time can write it, and an order that     *)
(* settled stays as it is.                                                   *)
THEOREM PurchasesAreFenced == PSpec => []OneCurrentClaim /\ SettledIsFinal
BY PurchasesUseTheStore, Fencing, SettledForever, PTL
=============================================================================
