-------------------------- MODULE TransportProofs --------------------------
(***************************************************************************)
(* Proofs about one SDK call, for every retry policy and every timeout.    *)
(* The inductive invariant IInv adds to the invariants the runs check what *)
(* each stage of the pipeline knows: how many requests were delivered when *)
(* it is reached, that the answer in hand is an honest one, and how much   *)
(* of the caller's time has been spent.  StepsLeft, at the end, is why a   *)
(* call ends.                                                              *)
(***************************************************************************)
EXTENDS Transport, TLAPS

(* At most one request per attempt, and only a read is tried again. *)
Deliveries ==
    /\ pc = "start" => attempt = 0 /\ delivered = 0
    /\ pc \in {"admit", "send"} => attempt >= 1 /\ delivered < attempt
    /\ pc \in {"headers", "body", "decode"} => attempt >= 1 /\ delivered >= 1
    /\ pc = "pause" => ReadOnly /\ CanRetry /\ attempt >= 1
    /\ delivered = 0 => ~performed

(* The answer in hand says the truth about a mutation. *)
HonestReply == ~ReadOnly /\ reply # NULL => Honest(reply, performed)

(* What n attempts and the pauses after them may take. *)
Spent(n) == n * (LongestAttempt + LongestPause)

(* What the stages of an attempt up to the present one may take. *)
Stage ==
    CASE pc = "admit" -> 0
      [] pc = "send" -> QpsWait + PermitWait
      [] pc \in {"headers", "body"} -> QpsWait + PermitWait + RequestTimeout
      [] OTHER -> LongestAttempt

Budget ==
    /\ attempt = 0 => elapsed = 0
    /\ attempt >= 1 => elapsed <= Spent(attempt - 1) + Stage
    /\ pause <= LongestPause

IInv ==
    /\ TypeOK
    /\ Deliveries
    /\ HonestReply
    /\ HonestOutcome
    /\ Budget

-----------------------------------------------------------------------------
(* Arithmetic of the delays. *)

(* LongestPause and LongestAttempt are durations. *)
LEMMA LongestTyped ==
  /\ LongestAttempt \in Nat /\ LongestPause \in Nat
  /\ MaxRetryAfter <= LongestPause
  /\ (MaxDelay * (100 + JitterPercent)) \div 100 <= LongestPause
<1>1. (MaxDelay * (100 + JitterPercent)) \div 100 \in Nat
  BY PolicyAssumption
<1> QED
  BY <1>1, PolicyAssumption, TimeoutAssumption DEF LongestAttempt, LongestPause

(* Every pause before another attempt is within LongestPause. *)
LEMMA DelaysBounded ==
  ASSUME TypeOK, NEW h \in RetryAfterHeader \cup {NULL},
         NEW d \in Delays(ParseRetryAfter(h))
  PROVE  d \in Nat /\ d <= LongestPause
<1>1. CASE h = NULL
  <2>1. d \in BackoffDelay(attempt)
    BY <1>1 DEF Delays, ParseRetryAfter
  <2> DEFINE e == Exponential(attempt)
  <2>2. e \in Int /\ e <= MaxDelay
    <3> DEFINE k == Least(attempt - 1, 31)
    <3>1. 2 ^ k \in Int
      BY DEF Least, TypeOK
    <3> HIDE DEF k
    <3>2. BaseDelay * 2 ^ k \in Int /\ MaxDelay \in Int
      BY <3>1, PolicyAssumption
    <3>3. e = Least(BaseDelay * 2 ^ k, MaxDelay)
      BY DEF Exponential, k
    <3> QED
      BY <3>2, <3>3 DEF Least
  <2> HIDE DEF e
  <2>3. d \in Nat /\ d <= (e * (100 + JitterPercent)) \div 100
    BY <2>1, <2>2, PolicyAssumption DEF BackoffDelay, e
  <2>4. (e * (100 + JitterPercent)) \div 100
           <= (MaxDelay * (100 + JitterPercent)) \div 100
    BY <2>2, PolicyAssumption
  <2> QED
    BY <2>2, <2>3, <2>4, LongestTyped, PolicyAssumption
<1>2. CASE h # NULL
  <2>1. ParseRetryAfter(h) = Least(h, MaxRetryAfter) /\ h \in Nat
    BY <1>2, PolicyAssumption DEF ParseRetryAfter, RetryAfterHeader
  <2>2. ParseRetryAfter(h) \in Nat /\ ParseRetryAfter(h) <= MaxRetryAfter
    BY <2>1, PolicyAssumption DEF Least
  <2>3. d = ParseRetryAfter(h)
    BY <2>2, NullAssumption DEF Delays
  <2> QED
    BY <2>2, <2>3, LongestTyped, PolicyAssumption
<1> QED
  BY <1>1, <1>2

(* The budget of attempts grows by one attempt and one pause at a time. *)
LEMMA SpentStep ==
  ASSUME NEW n \in Nat
  PROVE  Spent(n) \in Nat /\ Spent(n + 1) = Spent(n) + LongestAttempt + LongestPause
<1> DEFINE a == LongestAttempt
           p == LongestPause
<1>1. a \in Nat /\ p \in Nat
  BY LongestTyped
<1> HIDE DEF a, p
<1>2. n * (a + p) \in Nat /\ (n + 1) * (a + p) = n * (a + p) + a + p
  BY <1>1
<1> QED
  BY <1>2 DEF Spent, a, p

-----------------------------------------------------------------------------
(* The ways an attempt ends. *)

(* What an ending attempt has done to the provider and to the budget. *)
Accounted ==
    /\ delivered' \in 0..attempt
    /\ performed' \in BOOLEAN
    /\ delivered' = 0 => ~performed'
    /\ elapsed' \in Nat
    /\ attempt = 0 => elapsed' = 0
    /\ attempt >= 1 => elapsed' <= Spent(attempt - 1) + LongestAttempt

(* Returning a truthful result keeps the invariant. *)
LEMMA ReturnKeeps ==
  ASSUME IInv, Accounted, NEW r \in Result, Return(r), pc \in Calling,
         UNCHANGED <<safety, attempt>>,
         ~ReadOnly => /\ performed' => r \in {"Ok", "OutcomeUnknown", "ServerError"}
                      /\ r = "Ok" => performed'
  PROVE  IInv'
<1>1. pc' = "done" /\ result' = r /\ reply' = NULL /\ pause' = pause
  BY DEF Return
<1>2. TypeOK'
  BY <1>1, NullAssumption DEF IInv, TypeOK, Accounted, Attempts, ReadOnly
<1>3. Deliveries'
  BY <1>1 DEF Deliveries, Accounted
<1>4. HonestReply' /\ HonestOutcome'
  BY <1>1 DEF HonestReply, HonestOutcome, ReadOnly
<1>5. Stage' = LongestAttempt
  BY <1>1 DEF Stage, LongestAttempt
<1>6. Budget'
  BY <1>1, <1>5 DEF IInv, Budget, Accounted, Spent, LongestAttempt, LongestPause
<1> QED
  BY <1>2, <1>3, <1>4, <1>6 DEF IInv

(* So does pausing before another attempt of a read. *)
LEMMA PauseKeeps ==
  ASSUME IInv, Accounted, NEW h \in RetryAfterHeader \cup {NULL},
         ReadOnly, CanRetry, pc \in Calling, attempt >= 1,
         pc' = "pause", pause' \in Delays(ParseRetryAfter(h)), reply' = NULL,
         UNCHANGED <<safety, attempt, result>>
  PROVE  IInv'
<1>1. pause' \in Nat /\ pause' <= LongestPause
  BY DelaysBounded DEF IInv
<1>2. TypeOK'
  BY <1>1, NullAssumption DEF IInv, TypeOK, Accounted, Attempts, ReadOnly, Calling
<1>3. Deliveries'
  BY DEF Deliveries, Accounted, ReadOnly, CanRetry, Attempts
<1>4. HonestReply' /\ HonestOutcome'
  BY DEF HonestReply, HonestOutcome, ReadOnly
<1>5. Stage' = LongestAttempt
  BY DEF Stage, LongestAttempt
<1>6. Budget'
  BY <1>1, <1>5 DEF IInv, Budget, Accounted, Spent, LongestAttempt, LongestPause
<1> QED
  BY <1>2, <1>3, <1>4, <1>6 DEF IInv

(* And a retryable failure, which is one or the other. *)
LEMMA FailRetryableKeeps ==
  ASSUME IInv, Accounted, NEW h \in RetryAfterHeader \cup {NULL}, NEW r \in Result,
         FailRetryable(r, ParseRetryAfter(h)), pc \in Calling, attempt >= 1,
         UNCHANGED <<safety, attempt>>,
         ~ReadOnly => /\ performed' => r \in {"Ok", "OutcomeUnknown", "ServerError"}
                      /\ r = "Ok" => performed'
  PROVE  IInv'
<1>1. CASE ReadOnly /\ CanRetry
  BY <1>1, PauseKeeps DEF FailRetryable
<1>2. CASE ~(ReadOnly /\ CanRetry)
  BY <1>2, ReturnKeeps DEF FailRetryable
<1> QED
  BY <1>1, <1>2

(* The time an attempt has used when it ends is within its stage. *)
LEMMA TimeAccounted ==
  ASSUME IInv, pc \in {"admit", "send", "headers", "body", "decode"},
         NEW d \in Nat, elapsed' = elapsed + d,
         pc = "admit" => d <= QpsWait + PermitWait,
         pc \in {"send", "body"} => d <= RequestTimeout,
         pc \in {"headers", "decode"} => d = 0
  PROVE  /\ elapsed' \in Nat
         /\ attempt >= 1
         /\ elapsed' <= Spent(attempt - 1) + LongestAttempt
<1>1. attempt \in Nat /\ elapsed \in Nat /\ attempt >= 1
  BY PolicyAssumption DEF IInv, TypeOK, Deliveries, Attempts
<1>2. Spent(attempt - 1) \in Nat
  BY <1>1, SpentStep
<1>3. elapsed <= Spent(attempt - 1) + Stage
  BY <1>1 DEF IInv, Budget
<1>4. Stage + d <= LongestAttempt /\ Stage \in Nat
  BY TimeoutAssumption DEF Stage, LongestAttempt
<1> QED
  BY <1>1, <1>2, <1>3, <1>4, LongestTyped

-----------------------------------------------------------------------------
(* Every step keeps the invariant. *)

(* Before a request is sent. *)
LEMMA AdmissionSteps ==
  ASSUME IInv,
         \/ Reject \/ Begin
         \/ \E d \in 0..(QpsWait + PermitWait) :
               Admit(d) \/ \E phase \in {"QpsTimeout", "PermitTimeout"} : Refuse(phase, d)
  PROVE  IInv'
<1> USE PolicyAssumption, TimeoutAssumption
<1>1. CASE Reject
  <2>1. Accounted /\ pc \in Calling /\ attempt = 0
    BY <1>1 DEF Reject, Accounted, IInv, TypeOK, Deliveries, Budget, providerVars, Calling
  <2> QED
    BY <1>1, <2>1, ReturnKeeps
       DEF Reject, Result, Definite, IInv, Deliveries, providerVars
<1>2. CASE Begin
  <2>1. TypeOK'
    BY <1>2 DEF Begin, IInv, TypeOK, Deliveries, Attempts, ReadOnly, Calling, providerVars
  <2>2. Deliveries' /\ HonestReply' /\ HonestOutcome'
    BY <1>2 DEF Begin, IInv, TypeOK, Deliveries, HonestReply, HonestOutcome, ReadOnly,
                providerVars
  <2>3. elapsed' = 0 /\ attempt' = 1 /\ Stage' = 0
    BY <1>2 DEF Begin, IInv, Deliveries, Budget, Stage
  <2>4. Spent(0) \in Nat
    BY SpentStep
  <2>5. Budget'
    BY <1>2, <2>3, <2>4 DEF Begin, IInv, Budget, Spent, LongestAttempt, LongestPause
  <2> QED
    BY <2>1, <2>2, <2>5 DEF IInv
<1>3. ASSUME NEW d \in 0..(QpsWait + PermitWait), Admit(d)
      PROVE  IInv'
  <2>1. TypeOK'
    BY <1>3 DEF Admit, IInv, TypeOK, Attempts, ReadOnly, Calling, providerVars
  <2>2. Deliveries' /\ HonestReply' /\ HonestOutcome'
    BY <1>3 DEF Admit, IInv, Deliveries, HonestReply, HonestOutcome, ReadOnly, providerVars
  <2>3. attempt >= 1 /\ attempt \in Nat /\ elapsed \in Nat
    BY <1>3 DEF Admit, IInv, TypeOK, Deliveries, Attempts
  <2>4. Stage = 0 /\ Stage' = QpsWait + PermitWait
    BY <1>3 DEF Admit, Stage
  <2>5. Spent(attempt - 1) \in Nat
    BY <2>3, SpentStep
  <2>6. elapsed' <= Spent(attempt - 1) + Stage'
    BY <1>3, <2>3, <2>4, <2>5 DEF Admit, IInv, Budget
  <2>7. Budget'
    BY <1>3, <2>3, <2>6 DEF Admit, IInv, Budget, Spent, LongestAttempt, LongestPause
  <2> QED
    BY <2>1, <2>2, <2>7 DEF IInv
<1>4. ASSUME NEW d \in 0..(QpsWait + PermitWait),
             NEW phase \in {"QpsTimeout", "PermitTimeout"}, Refuse(phase, d)
      PROVE  IInv'
  <2>1. pc = "admit" /\ d \in Nat /\ elapsed' = elapsed + d
    BY <1>4 DEF Refuse
  <2>2. /\ elapsed' \in Nat /\ attempt >= 1
        /\ elapsed' <= Spent(attempt - 1) + LongestAttempt
    BY <2>1, TimeAccounted
  <2>3. Accounted
    BY <1>4, <2>1, <2>2 DEF Refuse, Accounted, IInv, TypeOK, Deliveries, providerVars
  <2>4. ~ReadOnly => ~performed'
    BY <1>4 DEF Refuse, IInv, TypeOK, Deliveries, Attempts, providerVars
  <2> QED
    BY <1>4, <2>3, <2>4, ReturnKeeps DEF Refuse, Result, Definite, Calling
<1> QED
  BY <1>1, <1>2, <1>3, <1>4

(* A mutation about to be sent was not received before. *)
LEMMA FirstDelivery ==
  ASSUME IInv, pc = "send", ~ReadOnly
  PROVE  delivered = 0 /\ ~performed
  BY DEF IInv, TypeOK, Deliveries, Attempts

(* While a request is sent. *)
LEMMA SendSteps ==
  ASSUME IInv, NEW d \in 0..RequestTimeout, SendStep(d)
  PROVE  IInv'
<1> USE PolicyAssumption, TimeoutAssumption
<1>1. pc = "send" /\ d \in Nat /\ d <= RequestTimeout /\ elapsed' = elapsed + d
  BY DEF SendStep, ConnectFails, SendFails, Respond
<1>2. /\ elapsed' \in Nat /\ attempt >= 1
      /\ elapsed' <= Spent(attempt - 1) + LongestAttempt
  BY <1>1, TimeAccounted
<1>3. /\ attempt \in Nat /\ delivered \in Nat /\ delivered < attempt
      /\ performed \in BOOLEAN
  BY <1>1 DEF IInv, TypeOK, Deliveries, Attempts
<1>4. CASE ConnectFails(d)
  <2>1. Accounted
    BY <1>2, <1>3, <1>4 DEF ConnectFails, Accounted, IInv, Deliveries, providerVars
  <2>2. ~ReadOnly => ~performed'
    BY <1>1, <1>4, FirstDelivery DEF ConnectFails, providerVars
  <2>3. FailRetryable("ConnectError", ParseRetryAfter(NULL))
    BY <1>4 DEF ConnectFails, ParseRetryAfter
  <2> QED
    BY <1>1, <1>2, <1>4, <2>1, <2>2, <2>3, FailRetryableKeeps
       DEF ConnectFails, Result, Definite, Calling
<1>5. ASSUME NEW error \in {"RequestTimeout", "TransportError"},
             NEW received \in BOOLEAN, NEW p \in BOOLEAN,
             SendFails(error, received, p, d)
      PROVE  IInv'
  <2>1. Accounted
    BY <1>2, <1>3, <1>5 DEF SendFails, Received, Accounted, IInv, Deliveries, providerVars
  <2>2. FailRetryable(AfterDelivery(error), ParseRetryAfter(NULL))
    BY <1>5 DEF SendFails, ParseRetryAfter
  <2>3. /\ AfterDelivery(error) \in Result
        /\ ~ReadOnly => AfterDelivery(error) = "OutcomeUnknown"
    BY DEF AfterDelivery, Result, Ambiguous
  <2> QED
    BY <1>1, <1>2, <1>5, <2>1, <2>2, <2>3, FailRetryableKeeps DEF SendFails, Calling
<1>6. ASSUME NEW r \in Reply, NEW p \in BOOLEAN, Respond(r, p, d)
      PROVE  IInv'
  <2>1. r # NULL
    BY NullAssumption
  <2>2. TypeOK'
    BY <1>2, <1>3, <1>6, <2>1
       DEF Respond, Received, IInv, TypeOK, Attempts, ReadOnly, Calling
  <2>3. Deliveries'
    BY <1>2, <1>3, <1>6 DEF Respond, Received, Deliveries
  <2>4. ~ReadOnly => performed' = p
    BY <1>1, <1>6, FirstDelivery DEF Respond, Received
  <2>5. HonestReply' /\ HonestOutcome'
    BY <1>6, <2>4 DEF Respond, HonestReply, HonestOutcome, Honest, ReadOnly
  <2>6. Stage = QpsWait + PermitWait /\ Stage' = Stage + RequestTimeout
    BY <1>1, <1>6 DEF Respond, Stage
  <2>7. Spent(attempt - 1) \in Nat
    BY <1>2, <1>3, SpentStep
  <2>8. elapsed' <= Spent(attempt - 1) + Stage'
    BY <1>1, <1>2, <1>3, <2>6, <2>7 DEF IInv, Budget, TypeOK
  <2>9. Budget'
    BY <1>2, <1>6, <2>8 DEF Respond, IInv, Budget, Spent, LongestAttempt, LongestPause
  <2> QED
    BY <2>2, <2>3, <2>5, <2>9 DEF IInv
<1> QED
  BY <1>4, <1>5, <1>6 DEF SendStep

(* With an answer in hand. *)
LEMMA AnswerSteps ==
  ASSUME IInv,
         \/ RateLimit \/ CheckLength \/ RetryServerError \/ Decode
         \/ \E d \in 0..RequestTimeout : ReadBody(d)
  PROVE  IInv'
<1> USE PolicyAssumption, TimeoutAssumption
<1> DEFINE InHand == pc \in {"headers", "body", "decode"}
<1>1. ASSUME InHand
      PROVE  /\ attempt \in Nat /\ attempt >= 1 /\ elapsed \in Nat
             /\ delivered \in 0..attempt /\ performed \in BOOLEAN
             /\ delivered = 0 => ~performed
             /\ reply \in Reply /\ reply # NULL
             /\ ~ReadOnly => Honest(reply, performed)
             /\ pc \in Calling
  BY <1>1 DEF IInv, TypeOK, Deliveries, HonestReply, Attempts, Calling
<1>2. ASSUME InHand, UNCHANGED <<attempt, providerVars>>, elapsed' = elapsed,
             pc # "body"
      PROVE  Accounted
  <2>1. /\ elapsed' \in Nat /\ elapsed' <= Spent(attempt - 1) + LongestAttempt
    <3>1. elapsed' = elapsed + 0
      BY <1>1, <1>2
    <3> QED
      BY <1>2, <3>1, TimeAccounted
  <2> QED
    BY <1>1, <1>2, <2>1 DEF Accounted, providerVars
<1>3. ASSUME InHand, NEW error \in Ambiguous
      PROVE  /\ AfterDelivery(error) \in Result
             /\ ~ReadOnly => AfterDelivery(error) = "OutcomeUnknown"
  BY <1>3 DEF AfterDelivery, Result
<1>4. CASE RateLimit
  <2>1. InHand /\ Accounted
    BY <1>2, <1>4 DEF RateLimit
  <2>2. reply.retryAfter \in RetryAfterHeader /\ (~ReadOnly => ~performed)
    BY <1>1, <1>4, <2>1 DEF RateLimit, Reply, Honest
  <2> QED
    BY <1>1, <1>4, <2>1, <2>2, FailRetryableKeeps
       DEF RateLimit, Result, Definite, providerVars
<1>5. CASE RetryServerError
  <2>1. InHand /\ Accounted
    BY <1>2, <1>5 DEF RetryServerError
  <2>2. FailRetryable("ServerError", ParseRetryAfter(NULL))
    BY <1>5 DEF RetryServerError, ParseRetryAfter
  <2> QED
    BY <1>1, <1>5, <2>1, <2>2, FailRetryableKeeps DEF RetryServerError, Result
<1>6. CASE Decode
  <2>1. InHand /\ Accounted
    BY <1>2, <1>6 DEF Decode
  <2>2. PICK r \in Result :
           /\ Return(r)
           /\ ~ReadOnly => /\ performed => r \in {"Ok", "OutcomeUnknown", "ServerError"}
                           /\ r = "Ok" => performed
    <3>1. "Decode" \in Ambiguous /\ {"ServerError", "Api", "Ok"} \subseteq Result
      BY DEF Ambiguous, Result, Definite
    <3> QED
      BY <1>1, <1>3, <1>6, <2>1, <3>1 DEF Decode, Honest
  <2>3. performed' = performed
    BY <1>6 DEF Decode, providerVars
  <2> QED
    BY <1>1, <1>6, <2>1, <2>2, <2>3, ReturnKeeps DEF Decode
<1>7. CASE CheckLength
  <2>1. InHand /\ Accounted
    BY <1>2, <1>7 DEF CheckLength
  <2>2. CASE reply.body = "declared_too_large"
    <3>1. "ResponseTooLarge" \in Ambiguous
      BY DEF Ambiguous
    <3> QED
      BY <1>1, <1>3, <1>7, <2>1, <2>2, <3>1, ReturnKeeps DEF CheckLength, providerVars
  <2>3. CASE reply.body # "declared_too_large"
    <3>1. /\ pc = "headers" /\ pc' = "body"
          /\ UNCHANGED <<safety, attempt, reply, pause, result, elapsed, delivered, performed>>
      BY <1>7, <2>3 DEF CheckLength, providerVars
    <3>2. TypeOK' /\ Deliveries' /\ HonestReply' /\ HonestOutcome'
      BY <3>1 DEF IInv, TypeOK, Deliveries, HonestReply, HonestOutcome, ReadOnly,
                  Attempts, CanRetry, Calling, Honest
    <3>3. Stage' = Stage
      BY <3>1 DEF Stage
    <3>4. Budget'
      BY <3>1, <3>3 DEF IInv, Budget, Spent, LongestAttempt, LongestPause
    <3> QED
      BY <3>2, <3>4 DEF IInv
  <2> QED
    BY <2>2, <2>3
<1>8. ASSUME NEW d \in 0..RequestTimeout, ReadBody(d)
      PROVE  IInv'
  <2>1. pc = "body" /\ d \in Nat /\ d <= RequestTimeout /\ elapsed' = elapsed + d
    BY <1>8 DEF ReadBody
  <2>2. /\ elapsed' \in Nat
        /\ elapsed' <= Spent(attempt - 1) + LongestAttempt
    BY <2>1, TimeAccounted
  <2>3. Accounted
    BY <1>1, <1>8, <2>1, <2>2 DEF ReadBody, Accounted, providerVars
  <2>4. CASE reply.body \in {"stalled", "too_large", "broken"}
    <3>1. PICK error \in Ambiguous : Return(AfterDelivery(error))
      BY <1>8, <2>4 DEF ReadBody, Ambiguous
    <3> QED
      BY <1>1, <1>3, <1>8, <2>1, <2>3, <3>1, ReturnKeeps DEF ReadBody
  <2>5. CASE reply.body \notin {"stalled", "too_large", "broken"}
    <3>1. /\ pc' = "decode"
          /\ UNCHANGED <<safety, attempt, reply, pause, result, delivered, performed>>
      BY <1>8, <2>5 DEF ReadBody, providerVars
    <3>2. TypeOK' /\ Deliveries' /\ HonestReply' /\ HonestOutcome'
      BY <2>1, <2>2, <3>1
         DEF IInv, TypeOK, Deliveries, HonestReply, HonestOutcome, ReadOnly,
             Attempts, CanRetry, Calling, Honest
    <3>3. Stage' = LongestAttempt
      BY <3>1 DEF Stage, LongestAttempt
    <3>4. Budget'
      BY <1>1, <2>1, <2>2, <3>1, <3>3
         DEF IInv, Budget, Spent, LongestAttempt, LongestPause
    <3> QED
      BY <3>2, <3>4 DEF IInv
  <2> QED
    BY <2>4, <2>5
<1> QED
  BY <1>4, <1>5, <1>6, <1>7, <1>8

(* Between two attempts, and when the caller gives up. *)
LEMMA OtherSteps ==
  ASSUME IInv,
         \/ Resume
         \/ \E received, p \in BOOLEAN : Abandon(received, p)
         \/ UNCHANGED vars
  PROVE  IInv'
<1> USE PolicyAssumption, TimeoutAssumption
<1>1. CASE Resume
  <2>1. /\ attempt \in Nat /\ attempt >= 1 /\ attempt < Attempts
        /\ attempt' = attempt + 1 /\ elapsed' = elapsed + pause
        /\ elapsed \in Nat /\ pause \in Nat /\ delivered \in 0..attempt
    BY <1>1 DEF Resume, IInv, TypeOK, Deliveries, Attempts, CanRetry
  <2>2. TypeOK'
    BY <1>1, <2>1 DEF Resume, IInv, TypeOK, Attempts, ReadOnly, Calling, providerVars
  <2>3. Deliveries' /\ HonestReply' /\ HonestOutcome'
    BY <1>1, <2>1 DEF Resume, IInv, TypeOK, Deliveries, HonestReply, HonestOutcome,
                      ReadOnly, providerVars
  <2>4. Stage = LongestAttempt /\ Stage' = 0
    BY <1>1 DEF Resume, Stage, LongestAttempt
  <2>5. elapsed <= Spent(attempt - 1) + LongestAttempt /\ pause <= LongestPause
    BY <2>1, <2>4 DEF IInv, Budget
  <2>6. /\ Spent(attempt - 1) \in Nat
        /\ Spent(attempt) = Spent(attempt - 1) + LongestAttempt + LongestPause
    <3>1. attempt - 1 \in Nat /\ (attempt - 1) + 1 = attempt
      BY <2>1
    <3> QED
      BY <3>1, SpentStep
  <2>7. elapsed' <= Spent(attempt' - 1) + Stage'
    BY <2>1, <2>4, <2>5, <2>6, LongestTyped
  <2>8. Budget'
    BY <1>1, <2>1, <2>7, LongestTyped
       DEF Resume, Budget, Spent, LongestAttempt, LongestPause
  <2> QED
    BY <2>2, <2>3, <2>8 DEF IInv
<1>2. ASSUME NEW received \in BOOLEAN, NEW p \in BOOLEAN, Abandon(received, p)
      PROVE  IInv'
  <2>1. /\ attempt \in Nat /\ attempt >= 1 /\ elapsed \in Nat
        /\ delivered \in 0..attempt /\ performed \in BOOLEAN
    BY <1>2 DEF Abandon, IInv, TypeOK, Deliveries, Attempts
  <2>2. delivered' \in 0..attempt /\ performed' \in BOOLEAN
        /\ (delivered' = 0 => ~performed')
    BY <1>2, <2>1 DEF Abandon, Received, IInv, Deliveries, providerVars
  <2>3. TypeOK'
    BY <1>2, <2>2 DEF Abandon, IInv, TypeOK, Attempts, ReadOnly, Calling
  <2>4. Deliveries' /\ HonestReply' /\ HonestOutcome'
    BY <1>2, <2>2 DEF Abandon, Deliveries, HonestReply, HonestOutcome
  <2>5. Stage' = LongestAttempt /\ Stage <= LongestAttempt /\ Stage \in Nat
    BY <1>2 DEF Abandon, Stage, LongestAttempt
  <2>6. Spent(attempt - 1) \in Nat
    BY <2>1, SpentStep
  <2>7. elapsed' <= Spent(attempt' - 1) + Stage'
    BY <1>2, <2>1, <2>5, <2>6, LongestTyped DEF Abandon, IInv, Budget
  <2>8. Budget'
    BY <1>2, <2>1, <2>7, LongestTyped
       DEF Abandon, IInv, Budget, Spent, LongestAttempt, LongestPause
  <2> QED
    BY <2>3, <2>4, <2>8 DEF IInv
<1>3. CASE UNCHANGED vars
  <2>1. TypeOK' /\ Deliveries' /\ HonestReply' /\ HonestOutcome'
    BY <1>3 DEF vars, IInv, TypeOK, Deliveries, HonestReply, HonestOutcome, ReadOnly,
                Attempts, CanRetry, Calling, Honest
  <2>2. Budget'
    BY <1>3 DEF vars, IInv, Budget, Stage, Spent, LongestAttempt, LongestPause
  <2> QED
    BY <2>1, <2>2 DEF IInv
<1> QED
  BY <1>1, <1>2, <1>3

-----------------------------------------------------------------------------
(* The invariant, and what follows from it. *)

(* It holds before anything is done. *)
LEMMA IInvInit == Init => IInv
<1> SUFFICES ASSUME Init PROVE IInv
  OBVIOUS
<1>1. TypeOK
  <2>1. attempt \in 0..Attempts /\ delivered \in 0..attempt
    BY PolicyAssumption DEF Init, Attempts
  <2>2. pc \in Calling /\ ~(pc \in {"headers", "body", "decode", "done"})
    BY DEF Init, Calling
  <2> QED
    BY <2>1, <2>2 DEF Init, TypeOK
<1>2. Deliveries /\ HonestReply /\ HonestOutcome
  BY DEF Init, Deliveries, HonestReply, HonestOutcome
<1>3. Budget
  BY LongestTyped DEF Init, Budget
<1> QED
  BY <1>1, <1>2, <1>3 DEF IInv

(* And every step keeps it. *)
LEMMA IInvStep == IInv /\ [Next]_vars => IInv'
<1> SUFFICES ASSUME IInv, [Next]_vars PROVE IInv'
  OBVIOUS
<1> QED
  BY AdmissionSteps, SendSteps, AnswerSteps, OtherSteps DEF Next, Step

(* A call is in the states of IInv from its beginning to its end. *)
LEMMA Invariance == Spec => []IInv
BY IInvInit, IInvStep, PTL DEF Spec

(* Each state of a call has its type, and a call in a given stage has an     *)
(* answer in hand, or a result, exactly when execute has.                    *)
THEOREM CallTypeCorrect == Spec => []TypeOK
<1>1. IInv => TypeOK
  BY DEF IInv
<1> QED
  BY <1>1, Invariance, PTL

(* Whatever the provider, the network and the caller do, a mutation is       *)
(* received at most once: execute retries only what it may send again.       *)
THEOREM MutationSentOnce == Spec => []AtMostOneDelivery
<1>1. IInv => AtMostOneDelivery
  BY DEF IInv, TypeOK, Attempts, AtMostOneDelivery
<1> QED
  BY <1>1, Invariance, PTL

(* A mutation that was performed never comes back as an error saying it was  *)
(* not, and Ok is never returned for one that was not: send_error and        *)
(* after_delivery_error tell apart what may have been received.              *)
THEOREM OutcomeHonest == Spec => []HonestOutcome
<1>1. IInv => HonestOutcome
  BY DEF IInv
<1> QED
  BY <1>1, Invariance, PTL

(* The budget of the attempts so far is within that of all of them. *)
LEMMA SpentWithin ==
  ASSUME NEW n \in Nat, n + 1 <= MaxAttempts
  PROVE  Spent(n) + LongestAttempt
           <= MaxAttempts * LongestAttempt + (MaxAttempts - 1) * LongestPause
<1> DEFINE a == LongestAttempt
           p == LongestPause
           m == MaxAttempts - 1
           k == m - n
<1>1. a \in Nat /\ p \in Nat /\ m \in Nat /\ k \in Nat
  BY LongestTyped, PolicyAssumption
<1>2. MaxAttempts = m + 1 /\ m = n + k
  BY PolicyAssumption
<1> HIDE DEF a, p, m, k
<1>3. m * (a + p) = n * (a + p) + k * (a + p) /\ k * (a + p) \in Nat /\ n * (a + p) \in Nat
  BY <1>1, <1>2
<1>4. (m + 1) * a + m * p = m * (a + p) + a
  BY <1>1
<1>5. Spent(n) = n * (a + p)
  BY DEF Spent, a, p
<1>6. Spent(n) + a <= MaxAttempts * a + m * p
  BY <1>1, <1>2, <1>3, <1>4, <1>5
<1> QED
  BY <1>6 DEF a, p, m

(* A call occupies its caller no longer than its attempts and the pauses     *)
(* between them may take.                                                    *)
THEOREM OccupationBounded == Spec => []BoundedOccupation
<1>1. IInv => BoundedOccupation
  <2> SUFFICES ASSUME IInv PROVE BoundedOccupation
    OBVIOUS
  <2>1. attempt \in Nat /\ attempt <= MaxAttempts /\ elapsed \in Nat
    BY PolicyAssumption DEF IInv, TypeOK, Attempts
  <2>2. CASE attempt = 0
    <3>1. elapsed = 0
      BY <2>2 DEF IInv, Budget
    <3>2. 0 <= Spent(0) /\ Spent(0) \in Nat
      BY SpentStep
    <3>3. Spent(0) + LongestAttempt
             <= MaxAttempts * LongestAttempt + (MaxAttempts - 1) * LongestPause
      BY SpentWithin, PolicyAssumption
    <3>4. MaxAttempts * LongestAttempt + (MaxAttempts - 1) * LongestPause \in Int
      BY LongestTyped, PolicyAssumption
    <3> QED
      BY <3>1, <3>2, <3>3, <3>4, LongestTyped DEF BoundedOccupation
  <2>3. CASE attempt >= 1
    <3>1. attempt - 1 \in Nat /\ (attempt - 1) + 1 <= MaxAttempts
      BY <2>1, <2>3
    <3>2. elapsed <= Spent(attempt - 1) + Stage
      BY <2>3 DEF IInv, Budget
    <3>3. Stage \in Nat /\ Stage <= LongestAttempt
      BY TimeoutAssumption DEF Stage, LongestAttempt
    <3>4. /\ Spent(attempt - 1) \in Nat
          /\ Spent(attempt - 1) + LongestAttempt
                <= MaxAttempts * LongestAttempt + (MaxAttempts - 1) * LongestPause
      BY <3>1, SpentStep, SpentWithin
    <3>5. MaxAttempts * LongestAttempt + (MaxAttempts - 1) * LongestPause \in Int
      BY LongestTyped, PolicyAssumption
    <3> QED
      BY <2>1, <3>2, <3>3, <3>4, <3>5, LongestTyped DEF BoundedOccupation
  <2> QED
    BY <2>1, <2>2, <2>3
<1> QED
  BY <1>1, Invariance, PTL

(* How far max_in_flight_duration is off.  It leaves out the timeout of the  *)
(* body and the jitter of a pause, and each at most doubles what it counts.  *)
LEMMA BoundAtMostDouble ==
  MaxAttempts * LongestAttempt + (MaxAttempts - 1) * LongestPause
     <= 2 * MaxInFlightDuration
<1> DEFINE a == QpsWait + PermitWait + RequestTimeout
           p == IF MaxDelay < MaxRetryAfter THEN MaxRetryAfter ELSE MaxDelay
           m == MaxAttempts - 1
<1>1. a \in Nat /\ p \in Nat /\ m \in Nat /\ MaxAttempts = m + 1
  BY PolicyAssumption, TimeoutAssumption
<1>2. LongestAttempt \in Nat /\ LongestAttempt <= 2 * a
  BY TimeoutAssumption DEF LongestAttempt
<1>3. LongestPause \in Nat /\ LongestPause <= 2 * p
  <2>1. JitterPercent \in Nat /\ JitterPercent <= 100 /\ MaxDelay \in Nat
    BY PolicyAssumption
  <2>2. MaxDelay * (100 + JitterPercent) <= MaxDelay * 200
    BY <2>1
  <2>3. MaxDelay * (100 + JitterPercent) \in Nat
    BY <2>1
  <2>4. (MaxDelay * (100 + JitterPercent)) \div 100 <= 2 * MaxDelay
    <3> DEFINE x == MaxDelay * (100 + JitterPercent)
    <3>1. x \in Nat /\ x <= MaxDelay * 200
      BY <2>2, <2>3
    <3> HIDE DEF x
    <3>2. x \div 100 <= 2 * MaxDelay
      BY <2>1, <3>1
    <3> QED
      BY <3>2 DEF x
  <2> QED
    BY <2>1, <2>4, LongestTyped, PolicyAssumption DEF LongestPause
<1>4. MaxInFlightDuration = (m + 1) * a + m * p
  BY <1>1 DEF MaxInFlightDuration
<1> HIDE DEF a, p, m
<1>5. (m + 1) * LongestAttempt <= (m + 1) * (2 * a) /\ m * LongestPause <= m * (2 * p)
  BY <1>1, <1>2, <1>3
<1>6. (m + 1) * (2 * a) + m * (2 * p) = 2 * ((m + 1) * a + m * p)
  BY <1>1
<1>7. /\ (m + 1) * LongestAttempt \in Int /\ m * LongestPause \in Int
      /\ (m + 1) * (2 * a) \in Int /\ m * (2 * p) \in Int
  BY <1>1, <1>2, <1>3
<1> QED
  BY <1>1, <1>4, <1>5, <1>6, <1>7 DEF m

(* Twice max_in_flight_duration, the lease that examples/axum.rs takes, does *)
(* cover one call, although max_in_flight_duration itself does not.          *)
WithinTwiceMaxInFlight == elapsed <= 2 * MaxInFlightDuration

(* A claim that examples/axum.rs leases for twice max_in_flight_duration     *)
(* outlives any one call made under it: the finding about the lease is about *)
(* the second and later calls of a batch.                                    *)
THEOREM DoubledBoundSuffices == Spec => []WithinTwiceMaxInFlight
<1>1. IInv /\ BoundedOccupation => WithinTwiceMaxInFlight
  <2> SUFFICES ASSUME IInv, BoundedOccupation PROVE WithinTwiceMaxInFlight
    OBVIOUS
  <2> DEFINE longest == MaxAttempts * LongestAttempt + (MaxAttempts - 1) * LongestPause
  <2>1. elapsed \in Nat /\ longest \in Int /\ MaxInFlightDuration \in Int
    BY LongestTyped, PolicyAssumption, TimeoutAssumption DEF IInv, TypeOK, MaxInFlightDuration
  <2>2. elapsed <= longest
    BY DEF BoundedOccupation
  <2>3. longest <= 2 * MaxInFlightDuration
    BY BoundAtMostDouble
  <2> HIDE DEF longest
  <2> QED
    BY <2>1, <2>2, <2>3 DEF WithinTwiceMaxInFlight
<1> QED
  BY <1>1, Invariance, OccupationBounded, PTL

-----------------------------------------------------------------------------
(* The pipeline implements ApiCall. *)

(* A call in progress has no verdict yet, and one that ends gets the verdict *)
(* of its result.                                                            *)
LEMMA VerdictKnown ==
  ASSUME IInv
  PROVE  /\ pc \in Calling => Verdict = "none"
         /\ pc' \in Calling => Verdict' = "none"
         /\ pc' = "dropped" => Verdict' = "abandoned"
         /\ pc' = "done" => Verdict' = VerdictOf(result')
<1>1. /\ pc \in Calling => pc # "done" /\ pc # "dropped"
      /\ pc' \in Calling => pc' # "done" /\ pc' # "dropped"
      /\ "done" \notin Calling /\ "dropped" \notin Calling
  BY DEF Calling
<1>2. pc \in Calling => Verdict = "none"
  BY <1>1 DEF Verdict
<1>3. pc' \in Calling => Verdict' = "none"
  BY <1>1 DEF Verdict
<1>4. pc' = "dropped" => Verdict' = "abandoned"
  BY <1>1 DEF Verdict
<1>5. pc' = "done" => Verdict' = VerdictOf(result')
  BY <1>1 DEF Verdict
<1> QED
  BY <1>2, <1>3, <1>4, <1>5

(* What a step has to show to be a step of ApiCall, or none. *)
LEMMA StepMaps ==
  ASSUME IInv, pc \in Calling, UNCHANGED safety,
         NEW received \in BOOLEAN, NEW p \in BOOLEAN,
         received => pc = "send",
         IF received THEN Received(p) ELSE UNCHANGED providerVars,
         Verdict' \in Call!Verdicts \cup {"none"},
         received => Verdict' \in {"none", "not_done", "unknown", "abandoned"},
         Verdict' # "none" => Call!Truthful(Verdict', delivered', performed')
  PROVE  [Call!Next]_(Call!callVars)
<1>1. Verdict = "none"
  BY VerdictKnown
<1>2. CASE received
  <2>1. Call!Receive(p)
    BY <1>2, FirstDelivery DEF Call!Receive, Received, ReadOnly
  <2>2. CASE Verdict' = "none"
    BY <1>1, <2>1, <2>2 DEF Call!Next, Call!Deliver
  <2>3. CASE Verdict' # "none"
    BY <1>1, <1>2, <2>1, <2>3 DEF Call!Next, Call!LoseAnswer
  <2> QED
    BY <2>2, <2>3
<1>3. CASE ~received
  <2>1. delivered' = delivered /\ performed' = performed /\ safety' = safety
    BY <1>3 DEF providerVars
  <2>2. CASE Verdict' = "none"
    BY <1>1, <2>1, <2>2 DEF Call!callVars
  <2>3. CASE Verdict' # "none"
    BY <1>1, <2>1, <2>3 DEF Call!Next, Call!Return
  <2> QED
    BY <2>2, <2>3
<1> QED
  BY <1>2, <1>3

(* What a result has to be for its verdict to be truthful. *)
Faithful(r, n, p) ==
    /\ r = "Ok" /\ ~ReadOnly => p
    /\ r \in (Definite \cup Ambiguous) /\ ~ReadOnly => ~p
    /\ r = "OutcomeUnknown" => ~ReadOnly
    /\ r = "ServerError" => n > 0

(* Such a result gives a truthful verdict. *)
LEMMA FaithfulVerdict ==
  ASSUME NEW r \in Result, NEW n, NEW p, Faithful(r, n, p)
  PROVE  /\ VerdictOf(r) \in Call!Verdicts
         /\ Call!Truthful(VerdictOf(r), n, p)
<1> USE DEF Faithful, VerdictOf, Call!Verdicts, Call!Truthful, ReadOnly
<1>1. CASE r = "Ok"
  BY <1>1
<1>2. CASE r = "OutcomeUnknown"
  BY <1>2
<1>3. CASE r = "ServerError"
  BY <1>3
<1>4. CASE r \in Definite \cup Ambiguous
  <2>1. r \notin {"Ok", "OutcomeUnknown", "ServerError"}
    BY <1>4 DEF Definite, Ambiguous
  <2> QED
    BY <1>4, <2>1
<1> QED
  BY <1>1, <1>2, <1>3, <1>4 DEF Result

(* Returning a result, and a failure that may be retried. *)
LEMMA EndMaps ==
  ASSUME IInv, pc \in Calling, UNCHANGED safety,
         NEW received \in BOOLEAN, NEW p \in BOOLEAN,
         received => pc = "send",
         IF received THEN Received(p) ELSE UNCHANGED providerVars,
         NEW r \in Result, NEW after,
         Return(r) \/ FailRetryable(r, after),
         Faithful(r, delivered', performed'),
         received => r \notin {"Ok", "ServerError"}
  PROVE  [Call!Next]_(Call!callVars)
<1>1. CASE pc' = "done" /\ result' = r
  <2>1. Verdict' = VerdictOf(r)
    BY <1>1, VerdictKnown
  <2>2. received => VerdictOf(r) \in {"not_done", "unknown"}
    BY DEF VerdictOf, Result
  <2>3. /\ VerdictOf(r) \in Call!Verdicts
        /\ Call!Truthful(VerdictOf(r), delivered', performed')
    BY FaithfulVerdict
  <2> QED
    BY <2>1, <2>2, <2>3, StepMaps
<1>2. CASE pc' = "pause"
  <2>1. Verdict' = "none"
    BY <1>2, VerdictKnown DEF Calling
  <2> QED
    BY <2>1, StepMaps
<1> QED
  BY <1>1, <1>2 DEF Return, FailRetryable

(* Every step of a call in the states of IInv is a step of ApiCall, or none. *)
LEMMA StepSimulation == IInv /\ [Next]_vars => [Call!Next]_(Call!callVars)
<1> SUFFICES ASSUME IInv, [Next]_vars
             PROVE  [Call!Next]_(Call!callVars)
  OBVIOUS
<1> USE DEF Calling
<1>1. /\ pc \in {"start", "admit"} /\ ~ReadOnly => ~performed
      /\ pc \in {"headers", "body", "decode"} =>
            /\ delivered > 0 /\ reply \in Reply
            /\ ~ReadOnly => Honest(reply, performed)
  BY DEF IInv, TypeOK, Deliveries, HonestReply, Attempts
<1>2. ASSUME NEW error \in Ambiguous, NEW n, NEW q
      PROVE  /\ AfterDelivery(error) \in Result \ {"Ok", "ServerError"}
             /\ Faithful(AfterDelivery(error), n, q)
  BY DEF AfterDelivery, Result, Ambiguous, Definite, Faithful
<1>3. ASSUME NEW error \in Definite, NEW n, NEW q, ~ReadOnly => ~q
      PROVE  error \in Result /\ Faithful(error, n, q)
  BY <1>3 DEF Faithful, Result, Definite
<1>4. CASE UNCHANGED vars
  BY <1>4 DEF vars, Call!callVars, Verdict
<1>5. CASE Reject
  BY <1>1, <1>3, <1>5, EndMaps DEF Reject, Definite, providerVars
<1>6. CASE Begin \/ Resume \/ \E d \in 0..(QpsWait + PermitWait) : Admit(d)
  <2>1. /\ pc \in Calling /\ pc' \in Calling
        /\ UNCHANGED safety /\ UNCHANGED providerVars
    BY <1>6 DEF Begin, Resume, Admit
  <2> QED
    BY <2>1, VerdictKnown, StepMaps
<1>7. ASSUME NEW d \in 0..(QpsWait + PermitWait),
             NEW phase \in {"QpsTimeout", "PermitTimeout"}, Refuse(phase, d)
      PROVE  [Call!Next]_(Call!callVars)
  BY <1>1, <1>3, <1>7, EndMaps DEF Refuse, Definite, providerVars
<1>8. ASSUME NEW d \in 0..RequestTimeout, ConnectFails(d)
      PROVE  [Call!Next]_(Call!callVars)
  <2>1. ~ReadOnly => ~performed'
    BY <1>8, FirstDelivery DEF ConnectFails, providerVars
  <2> QED
    BY <1>3, <1>8, <2>1, EndMaps DEF ConnectFails, Definite
<1>9. ASSUME NEW d \in 0..RequestTimeout,
             NEW error \in {"RequestTimeout", "TransportError"},
             NEW received \in BOOLEAN, NEW p \in BOOLEAN,
             SendFails(error, received, p, d)
      PROVE  [Call!Next]_(Call!callVars)
  <2>1. error \in Ambiguous
    BY DEF Ambiguous
  <2> QED
    BY <1>2, <1>9, <2>1, EndMaps DEF SendFails
<1>10. ASSUME NEW d \in 0..RequestTimeout, NEW r \in Reply, NEW p \in BOOLEAN,
              Respond(r, p, d)
       PROVE  [Call!Next]_(Call!callVars)
  <2>1. pc = "send" /\ pc' = "headers" /\ UNCHANGED safety /\ Received(p)
    BY <1>10 DEF Respond
  <2> QED
    BY <2>1, VerdictKnown, StepMaps
<1>11. CASE RateLimit
  <2>1. ~ReadOnly => ~performed'
    BY <1>1, <1>11 DEF RateLimit, Honest, providerVars
  <2> QED
    BY <1>3, <1>11, <2>1, EndMaps DEF RateLimit, Definite
<1>12. CASE CheckLength
  <2>1. CASE reply.body = "declared_too_large"
    BY <1>2, <1>12, <2>1, EndMaps DEF CheckLength, Ambiguous
  <2>2. CASE reply.body # "declared_too_large"
    <3>1. /\ pc \in Calling /\ pc' \in Calling
          /\ UNCHANGED safety /\ UNCHANGED providerVars
      BY <1>12, <2>2 DEF CheckLength
    <3> QED
      BY <3>1, VerdictKnown, StepMaps
  <2> QED
    BY <2>1, <2>2
<1>13. ASSUME NEW d \in 0..RequestTimeout, ReadBody(d)
       PROVE  [Call!Next]_(Call!callVars)
  <2>1. CASE reply.body \in {"stalled", "too_large", "broken"}
    <3>1. PICK error \in Ambiguous : Return(AfterDelivery(error))
      BY <1>13, <2>1 DEF ReadBody, Ambiguous
    <3> QED
      BY <1>2, <1>13, <3>1, EndMaps DEF ReadBody
  <2>2. CASE reply.body \notin {"stalled", "too_large", "broken"}
    <3>1. /\ pc \in Calling /\ pc' \in Calling
          /\ UNCHANGED safety /\ UNCHANGED providerVars
      BY <1>13, <2>2 DEF ReadBody
    <3> QED
      BY <3>1, VerdictKnown, StepMaps
  <2> QED
    BY <2>1, <2>2
<1>14. CASE RetryServerError
  <2>1. Faithful("ServerError", delivered', performed') /\ "ServerError" \in Result
    BY <1>1, <1>14 DEF RetryServerError, Faithful, Result, Definite, Ambiguous, providerVars
  <2> QED
    BY <1>14, <2>1, EndMaps DEF RetryServerError
<1>15. CASE Decode
  <2>1. /\ pc = "decode" /\ UNCHANGED safety /\ UNCHANGED providerVars
        /\ delivered' = delivered /\ performed' = performed
    BY <1>15 DEF Decode, providerVars
  <2>2. PICK r \in Result : Return(r) /\ Faithful(r, delivered', performed')
    <3>1. CASE Return(AfterDelivery("Decode"))
      BY <1>2, <3>1 DEF Ambiguous
    <3>2. CASE Return("ServerError")
      BY <1>1, <2>1, <3>2 DEF Faithful, Result, Definite, Ambiguous
    <3>3. CASE Return("Api") /\ (~ReadOnly => ~performed)
      BY <1>3, <2>1, <3>3 DEF Definite
    <3>4. CASE Return("Ok") /\ (~ReadOnly => performed)
      BY <2>1, <3>4 DEF Faithful, Result, Definite, Ambiguous
    <3> QED
      BY <1>1, <1>15, <2>1, <3>1, <3>2, <3>3, <3>4 DEF Decode, Honest
  <2> QED
    BY <2>1, <2>2, EndMaps
<1>16. ASSUME NEW received \in BOOLEAN, NEW p \in BOOLEAN, Abandon(received, p)
       PROVE  [Call!Next]_(Call!callVars)
  <2>1. Verdict' = "abandoned"
    BY <1>16, VerdictKnown DEF Abandon
  <2>2. Call!Truthful("abandoned", delivered', performed')
    BY DEF Call!Truthful
  <2>3. "abandoned" \in Call!Verdicts
    BY DEF Call!Verdicts
  <2> QED
    BY <1>16, <2>1, <2>2, <2>3, StepMaps DEF Abandon
<1> QED
  BY <1>4, <1>5, <1>6, <1>7, <1>8, <1>9, <1>10, <1>11, <1>12, <1>13, <1>14, <1>15, <1>16
     DEF Next, Step, SendStep

(* The pipeline of execute keeps the promise of ApiCall: whatever happens on *)
(* the way, a mutation is delivered at most once and the caller's verdict,   *)
(* if it names what happened, is true.                                       *)
THEOREM CallImplementsApiCall == Spec => ImplementsApiCall
<1>1. Init => Call!Init
  <2>1. Init => Verdict = "none"
    BY DEF Init, Verdict, Calling
  <2> QED
    BY <2>1 DEF Init, Call!Init, SafetyClass, Call!SafetyClass
<1> QED
  BY <1>1, Invariance, StepSimulation, PTL DEF Spec, ImplementsApiCall, Call!Spec

-----------------------------------------------------------------------------
(* How far a call is from returning, and why it does.  An attempt is at most *)
(* its admission, its answer in four parts and the pause after it.           *)
StagesLeft(where) ==
    CASE where = "admit" -> 6
      [] where = "send" -> 5
      [] where = "headers" -> 4
      [] where = "body" -> 3
      [] where = "decode" -> 2
      [] where \in {"start", "pause"} -> 1
      [] where \in {"done", "dropped"} -> 0

StepsLeft == 6 * (Attempts - attempt) + StagesLeft(pc)

StepsBounded == StepsLeft \in 0..(6 * Attempts + 1)

(* Every step uses one up, whatever the network and the provider do.         *)
StepsRunOut == StepsLeft' < StepsLeft

(* The attempts there may be do not change during a call. *)
LEMMA AttemptsFixed ==
  /\ Attempts \in Nat \ {0}
  /\ Next => Attempts' = Attempts
<1>1. Attempts \in Nat \ {0}
  BY PolicyAssumption DEF Attempts
<1>2. Next => UNCHANGED safety
  BY DEF Next, Step, SendStep, Reject, Begin, Admit, Refuse, ConnectFails, SendFails,
         Respond, RateLimit, CheckLength, ReadBody, RetryServerError, Decode, Resume, Abandon
<1> QED
  BY <1>1, <1>2 DEF Attempts, ReadOnly

(* A failed attempt ends the call or leads to a pause. *)
LEMMA FailureAdvances ==
  ASSUME NEW error, NEW h, FailRetryable(error, h)
  PROVE  pc' \in {"pause", "done"} /\ StagesLeft(pc') \in {0, 1}
<1>1. pc' \in {"pause", "done"}
  BY DEF FailRetryable, Return
<1> QED
  BY <1>1 DEF StagesLeft

(* Between two attempts every step leads to a later stage. *)
LEMMA StageAdvances ==
  ASSUME TypeOK, Next, ~Begin, ~Resume
  PROVE  /\ attempt' = attempt
         /\ StagesLeft(pc) \in 0..6 /\ StagesLeft(pc') \in 0..6
         /\ StagesLeft(pc') < StagesLeft(pc)
<1>1. CASE \/ Reject
           \/ \E d \in 0..(QpsWait + PermitWait) :
                 \/ Admit(d)
                 \/ \E phase \in {"QpsTimeout", "PermitTimeout"} : Refuse(phase, d)
  BY <1>1 DEF Reject, Admit, Refuse, Return, StagesLeft
<1>2. ASSUME NEW d \in 0..RequestTimeout, SendStep(d)
      PROVE  /\ attempt' = attempt
             /\ StagesLeft(pc) = 5 /\ StagesLeft(pc') \in {0, 1, 4}
  <2>1. pc = "send" /\ attempt' = attempt
    BY <1>2 DEF SendStep, ConnectFails, SendFails, Respond
  <2>2. StagesLeft(pc) = 5
    BY <2>1 DEF StagesLeft
  <2>3. CASE \E r \in Reply, p \in BOOLEAN : Respond(r, p, d)
    BY <2>1, <2>2, <2>3 DEF Respond, StagesLeft
  <2>4. CASE \E error, h : FailRetryable(error, h)
    BY <2>1, <2>2, <2>4, FailureAdvances
  <2>5. (\E r \in Reply, p \in BOOLEAN : Respond(r, p, d)) \/ (\E error, h : FailRetryable(error, h))
    BY <1>2 DEF SendStep, ConnectFails, SendFails
  <2> QED
    BY <2>3, <2>4, <2>5
<1>3. ASSUME RateLimit \/ RetryServerError
      PROVE  /\ attempt' = attempt
             /\ StagesLeft(pc) \in {2, 4} /\ StagesLeft(pc') \in {0, 1}
  <2>1. pc \in {"headers", "decode"} /\ attempt' = attempt
    BY <1>3 DEF RateLimit, RetryServerError
  <2>2. PICK error, h : FailRetryable(error, h)
    BY <1>3 DEF RateLimit, RetryServerError
  <2>3. StagesLeft(pc) \in {2, 4}
    BY <2>1 DEF StagesLeft
  <2> QED
    BY <2>1, <2>2, <2>3, FailureAdvances
<1>4. CASE CheckLength \/ (\E d \in 0..RequestTimeout : ReadBody(d))
  <2>1. /\ <<pc, pc'>> \in {<<"headers", "body">>, <<"headers", "done">>,
                               <<"body", "decode">>, <<"body", "done">>}
        /\ attempt' = attempt
    BY <1>4 DEF CheckLength, ReadBody, Return
  <2> QED
    BY <2>1 DEF StagesLeft
<1>5. CASE Decode
  <2>1. pc = "decode" /\ pc' = "done" /\ attempt' = attempt
    BY <1>5 DEF Decode, Return
  <2> QED
    BY <2>1 DEF StagesLeft
<1>6. CASE \E received, p \in BOOLEAN : Abandon(received, p)
  <2>1. pc \in {"admit", "send", "body", "pause"} /\ pc' = "dropped" /\ attempt' = attempt
    BY <1>6 DEF Abandon
  <2> QED
    BY <2>1 DEF StagesLeft
<1> QED
  BY <1>1, <1>2, <1>3, <1>4, <1>5, <1>6 DEF Next, Step

(* What remains is never more than at the start. *)
LEMMA StepsAreBounded == IInv => StepsBounded
<1> SUFFICES ASSUME IInv PROVE StepsBounded
  OBVIOUS
<1>1. attempt \in 0..Attempts /\ pc \in Calling \cup {"done", "dropped"}
  BY DEF IInv, TypeOK
<1>2. StagesLeft(pc) \in 0..6
  BY <1>1 DEF StagesLeft, Calling
<1>3. attempt = 0 => StagesLeft(pc) <= 1
  <2> SUFFICES ASSUME attempt = 0 PROVE StagesLeft(pc) <= 1
    OBVIOUS
  <2>1. pc \in {"start", "done", "dropped"}
    BY <1>1 DEF Calling, IInv, Deliveries
  <2> QED
    BY <2>1 DEF StagesLeft
<1> HIDE DEF StagesLeft
<1> QED
  BY <1>1, <1>2, <1>3, AttemptsFixed DEF StepsBounded, StepsLeft

(* Every step comes nearer to the end. *)
LEMMA StepsDecrease == IInv /\ [Next]_vars => [StepsRunOut]_vars
<1> SUFFICES ASSUME IInv, Next PROVE StepsRunOut
  OBVIOUS
<1>1. TypeOK /\ attempt \in Nat
  BY AttemptsFixed DEF IInv, TypeOK
<1>2. Attempts \in Nat /\ Attempts' = Attempts
  BY AttemptsFixed
<1>3. CASE Begin \/ Resume
  <2>1. pc \in {"start", "pause"} /\ pc' = "admit" /\ attempt' = attempt + 1
    BY <1>3 DEF Begin, Resume, IInv, Deliveries
  <2>2. StagesLeft(pc) = 1 /\ StagesLeft(pc') = 6
    BY <2>1 DEF StagesLeft
  <2> QED
    BY <1>1, <1>2, <2>1, <2>2 DEF StepsRunOut, StepsLeft
<1>4. CASE ~Begin /\ ~Resume
  BY <1>1, <1>2, <1>4, StageAdvances DEF StepsRunOut, StepsLeft
<1> QED
  BY <1>3, <1>4

(* Why every call returns (EveryCallReturns without its fairness): each step *)
(* of execute uses up one of at most six per attempt, and one before the     *)
(* first.  No answer of the provider, no failure of the network and no       *)
(* Retry-After makes it start over.                                          *)
THEOREM CallStepsBudgeted == Spec => []StepsBounded /\ [][StepsRunOut]_vars
BY Invariance, StepsAreBounded, StepsDecrease, PTL DEF Spec
=============================================================================
