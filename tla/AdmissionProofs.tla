-------------------------- MODULE AdmissionProofs --------------------------
(***************************************************************************)
(* Proofs about admission, for any settings a client is built from and any *)
(* number of calls.  IInv adds to the invariants the run checks what bounds*)
(* a wait at each of its stages, and how the schedule relates to the starts*)
(* committed so far.  The line of the semaphore and the loop of            *)
(* acquire_admission have sections of their own at the end.                *)
(***************************************************************************)
EXTENDS Admission, FiniteSetTheorems, SequenceTheorems, WellFoundedInduction, TLAPS

Holders == {c \in Calls : pc[c] \in Holding}

(* An attempt waits for a slot until its deadline, and in line for as long   *)
(* as a permit may take from the moment it joined; it joined in time.        *)
Stage(c) ==
    /\ pc[c] \in Waiting /\ Limited => deadline[c] = began[c] + Client.qpsWait
    /\ pc[c] \in {"slot", "sleep"} => Limited /\ now <= deadline[c]
    /\ pc[c] \in {"line", "recheck"} =>
          /\ now <= joined[c] + Client.permitWait
          /\ joined[c] <= began[c] + Client.qpsWait
    /\ pc[c] = "recheck" => Limited

Stages == \A c \in Calls : Stage(c)

(* Each start moved the schedule on by an interval, and never further than   *)
(* an interval past the clock.                                               *)
Schedule ==
    Limited =>
        /\ started = 0 => nextStart = NULL
        /\ started > 0 =>
              /\ nextStart \in Nat
              /\ started * Client.interval <= nextStart
              /\ nextStart <= now + Client.interval

IInv ==
    /\ TypeOK
    /\ PermitsConserved
    /\ Stages
    /\ Schedule

-----------------------------------------------------------------------------
(* The client a builder yields. *)

(* Rounding to the nearest unit loses at most half a unit (from_secs_f64).   *)
LEMMA Rounding ==
    ASSUME NEW rate \in 1..Second
    PROVE  /\ (2 * Second + rate) \div (2 * rate) \in Nat
           /\ 2 * rate * ((2 * Second + rate) \div (2 * rate)) >= 2 * Second - rate
<1> DEFINE n == 2 * Second + rate
           d == 2 * rate
<1>1. n \in Nat /\ d \in Nat \ {0}
  BY SecondAssumption
<1>2. n \div d \in Nat /\ d * (n \div d) > n - d
  <2> HIDE DEF n, d
  <2>1. n \div d \in Int /\ d * (n \div d) > n - d
    BY <1>1
  <2>2. n \div d \in Nat
    BY <1>1
  <2> QED BY <2>1, <2>2
<1> QED BY <1>2, SecondAssumption

(* An accepted builder yields a client with waits and an interval.           *)
LEMMA ClientType ==
    ASSUME TypeOK
    PROVE  /\ Client.qpsWait \in Nat /\ Client.permitWait \in Nat
           /\ Client.maxConcurrency \in Nat
           /\ Client.interval \in Nat \cup {NULL}
           /\ Limited <=> builder.maxPerSecond # NULL
           /\ Limited =>
                 /\ builder.maxPerSecond \in 1..Second
                 /\ Client.interval \in Nat
                 /\ 2 * builder.maxPerSecond * Client.interval
                       >= 2 * Second - builder.maxPerSecond
<1>1. builder \in Builder /\ Accepted(builder)
  BY BuildersAssumption DEF TypeOK
<1>2. builder.maxPerSecond # NULL => builder.maxPerSecond \in 1..Second
  BY <1>1 DEF Accepted, LimitsAccepted
<1>3. QpsWaitOf(builder) \in Nat
  BY <1>1 DEF Builder, QpsWaitOf
<1>4. builder.permitWait \in Nat /\ builder.maxConcurrency \in Nat
  BY <1>1 DEF Builder
<1>5. CASE builder.maxPerSecond = NULL
  <2>1. IntervalOf(builder) = NULL
    BY <1>5 DEF IntervalOf
  <2> QED BY <1>3, <1>4, <1>5, <2>1 DEF Client, Build, Limited
<1>6. CASE builder.maxPerSecond # NULL
  <2> DEFINE rate == builder.maxPerSecond
  <2>1. rate \in 1..Second
    BY <1>2, <1>6
  <2>2. IntervalOf(builder) = (2 * Second + rate) \div (2 * rate)
    BY <1>6 DEF IntervalOf
  <2>3. IntervalOf(builder) \in Nat /\ 2 * rate * IntervalOf(builder) >= 2 * Second - rate
    BY <2>1, <2>2, Rounding
  <2>4. IntervalOf(builder) # NULL
    BY <2>3, NullAssumption
  <2> QED BY <1>3, <1>4, <1>6, <2>1, <2>3, <2>4 DEF Client, Build, Limited
<1> QED BY <1>5, <1>6

(* The sequence s with the place k closed up (RemoveAt of SequencesExt).     *)
Without(s, k) == SubSeq(s, 1, k - 1) \o SubSeq(s, k + 1, Len(s))

(* What RemoveFirst returns: the sequence with a place of e closed up.       *)
LEMMA RemoveFirstAt ==
    ASSUME NEW S, NEW s \in Seq(S), NEW e, \E i \in 1..Len(s) : s[i] = e
    PROVE  \E k \in 1..Len(s) :
              /\ s[k] = e
              /\ RemoveFirst(s, e) = Without(s, k)
<1> DEFINE I == {i \in 1..Len(s) : s[i] = e}
           k == Min(I)
           less == {ss \in Nat \X Nat : ss[1] < ss[2]}
<1>1. I # {} /\ I \subseteq Nat
  OBVIOUS
<1>2. IsWellFoundedOn(less, Nat)
  BY NatLessThanWellFounded DEF OpToRel
<1>3. PICK m \in I : \A j \in I : ~ (<<j, m>> \in less)
  <2> HIDE DEF I, less
  <2> QED BY <1>1, <1>2, WFMin
<1>4. ASSUME NEW j \in I PROVE m <= j
  <2>1. <<j, m>> \notin less /\ j \in Nat /\ m \in Nat
    BY <1>1, <1>3
  <2>2. <<j, m>> \in Nat \X Nat /\ <<j, m>>[1] = j /\ <<j, m>>[2] = m
    BY <2>1
  <2>3. ~(j < m)
    BY <2>1, <2>2
  <2> QED BY <2>1, <2>3
<1>5. k \in I
  BY <1>3, <1>4 DEF Min
<1>6. RemoveFirst(s, e) = Without(s, k)
  BY <1>1 DEF RemoveFirst, RemoveAt, SelectInSeq, Without
<1> QED BY <1>5, <1>6

(* The places behind the one that is closed up move by one. *)
LEMMA ClosedUp ==
    ASSUME NEW S, NEW s \in Seq(S), NEW k \in 1..Len(s)
    PROVE  /\ Without(s, k) \in Seq(S) /\ Len(Without(s, k)) = Len(s) - 1
           /\ \A i \in 1..Len(Without(s, k)) :
                 Without(s, k)[i] = IF i < k THEN s[i] ELSE s[i + 1]
<1> DEFINE left == SubSeq(s, 1, k - 1)
           right == SubSeq(s, k + 1, Len(s))
           t == Without(s, k)
<1>1. Len(s) \in Nat /\ k \in 1..Len(s) /\ \A j \in 1..Len(s) : s[j] \in S
  BY ElementOfSeq, LenProperties
<1>2. /\ left \in Seq(S) /\ Len(left) = k - 1
      /\ \A i \in 1..(k - 1) : left[i] = s[i]
  BY <1>1, SubSeqProperties
<1>3. /\ right \in Seq(S) /\ Len(right) = Len(s) - k
      /\ \A i \in 1..(Len(s) - k) : right[i] = s[k + i]
  BY <1>1, SubSeqProperties
<1>4. t = left \o right
  BY DEF Without
<1> HIDE DEF left, right, t
<1>5. /\ t \in Seq(S) /\ Len(t) = Len(left) + Len(right)
      /\ \A i \in 1..(Len(left) + Len(right)) :
            t[i] = IF i <= Len(left) THEN left[i] ELSE right[i - Len(left)]
  <2>1. left \in Seq(S) /\ right \in Seq(S)
    BY <1>2, <1>3
  <2> QED BY <1>4, <2>1, ConcatProperties
<1>6. Len(t) = Len(s) - 1
  <2>1. Len(t) = (k - 1) + (Len(s) - k)
    BY <1>2, <1>3, <1>5
  <2>2. PICK n \in Nat : n = Len(s)
    BY <1>1
  <2>3. k \in 1..n /\ (k - 1) + (n - k) = n - 1
    BY <1>1, <2>2
  <2> QED BY <2>1, <2>2, <2>3
<1>7. ASSUME NEW i \in 1..Len(t)
      PROVE  t[i] = IF i < k THEN s[i] ELSE s[i + 1]
  <2>1. CASE i < k
    <3>1. i \in 1..(k - 1) /\ i <= Len(left)
      BY <1>1, <1>2, <1>6, <2>1
    <3> QED BY <1>2, <1>3, <1>5, <2>1, <3>1
  <2>2. CASE ~(i < k)
    <3>0. PICK n \in Nat : n = Len(s)
      BY <1>1
    <3>1. i \in k..(Len(s) - 1)
      <4>1. i \in 1..(n - 1) /\ k \in 1..n
        BY <1>1, <1>6, <3>0
      <4>2. i \in k..(n - 1)
        BY <2>2, <4>1
      <4> QED BY <3>0, <4>2
    <3>2. /\ i - (k - 1) \in 1..(Len(s) - k) /\ k + (i - (k - 1)) = i + 1
          /\ ~(i <= k - 1) /\ i \in 1..((k - 1) + (Len(s) - k))
      BY <1>1, <3>1
    <3>3. t[i] = right[i - (k - 1)]
      BY <1>2, <1>3, <1>5, <3>2
    <3> QED BY <1>3, <2>2, <3>2, <3>3
  <2> QED BY <2>1, <2>2
<1> QED BY <1>5, <1>6, <1>7 DEF t

(* Leaving the line leaves a line. *)
LEMMA RemoveFirstType ==
    ASSUME NEW S, NEW s \in Seq(S), NEW e
    PROVE  RemoveFirst(s, e) \in Seq(S)
<1>1. CASE ~ \E i \in 1..Len(s) : s[i] = e
  BY <1>1 DEF RemoveFirst
<1>2. CASE \E i \in 1..Len(s) : s[i] = e
  <2>1. PICK k \in 1..Len(s) : RemoveFirst(s, e) = Without(s, k)
    BY <1>2, RemoveFirstAt
  <2> QED BY <2>1, ClosedUp
<1> QED BY <1>1, <1>2

-----------------------------------------------------------------------------
(* The permits. *)

(* An attempt that takes a permit becomes a holder. *)
LEMMA Taken ==
    ASSUME TypeOK, PermitsConserved, NEW c \in Calls, NEW p \in Holding,
           pc[c] \notin Holding, pc' = [pc EXCEPT ![c] = p],
           permits' = permits - 1, UNCHANGED builder
    PROVE  PermitsConserved'
<1>1. IsFiniteSet(Holders)
  BY CallsAssumption, FS_Subset DEF Holders
<1>2. Holders' = Holders \cup {c} /\ c \notin Holders
  BY DEF Holders, TypeOK
<1>3. Cardinality(Holders') = Cardinality(Holders) + 1
  BY <1>1, <1>2, FS_AddElement
<1>4. Cardinality(Holders) \in Nat
  BY <1>1, FS_CardinalityType
<1> QED BY <1>3, <1>4 DEF PermitsConserved, Holders, Client, TypeOK

(* An attempt that gives its permit back is no holder any more. *)
LEMMA Returned ==
    ASSUME TypeOK, PermitsConserved, NEW c \in Calls, NEW p,
           pc[c] \in Holding, p \notin Holding, pc' = [pc EXCEPT ![c] = p],
           permits' = permits + 1, UNCHANGED builder
    PROVE  PermitsConserved'
<1>1. IsFiniteSet(Holders)
  BY CallsAssumption, FS_Subset DEF Holders
<1>2. Holders' = Holders \ {c} /\ c \in Holders
  BY DEF Holders, TypeOK
<1>3. Cardinality(Holders') = Cardinality(Holders) - 1
  BY <1>1, <1>2, FS_RemoveElement
<1>4. Cardinality(Holders) \in Nat
  BY <1>1, FS_CardinalityType
<1> QED BY <1>3, <1>4 DEF PermitsConserved, Holders, Client, TypeOK

(* Any other move leaves the holders as they are. *)
LEMMA Kept ==
    ASSUME TypeOK, PermitsConserved, NEW c \in Calls, NEW p,
           pc[c] \in Holding <=> p \in Holding, pc' = [pc EXCEPT ![c] = p],
           UNCHANGED <<permits, builder>>
    PROVE  PermitsConserved'
<1>1. Holders' = Holders
  BY DEF Holders, TypeOK
<1> QED BY <1>1 DEF PermitsConserved, Holders, Client

-----------------------------------------------------------------------------
(* It holds before the first call. *)
LEMMA IInvInit == Init => IInv
<1> SUFFICES ASSUME Init PROVE IInv
  OBVIOUS
<1> USE DEF Init
<1>1. builder \in Builder /\ builder.maxConcurrency \in Nat
  BY BuildersAssumption DEF Builder
<1>2. Client.maxConcurrency = builder.maxConcurrency
  BY DEF Client, Build
<1>3. TypeOK
  BY <1>1, <1>2 DEF TypeOK
<1>4. PermitsConserved
  <2>1. Holders = {}
    BY DEF Holders, Holding
  <2>2. Cardinality(Holders) = 0
    BY <2>1, FS_EmptySet
  <2> QED BY <1>1, <1>2, <2>2 DEF PermitsConserved, Holders
<1>5. Stages
  BY DEF Stages, Stage, Waiting
<1>6. Schedule
  BY DEF Schedule
<1> QED BY <1>3, <1>4, <1>5, <1>6 DEF IInv

(* The stages of the other attempts are not disturbed by a step of c that    *)
(* leaves the clock alone.                                                   *)
LEMMA OtherStages ==
    ASSUME TypeOK, Stages, NEW c \in Calls,
           UNCHANGED <<builder, now>>,
           \A d \in Calls \ {c} : /\ pc'[d] = pc[d] /\ deadline'[d] = deadline[d]
                                  /\ began'[d] = began[d] /\ joined'[d] = joined[d],
           Stage(c)'
    PROVE  Stages'
<1>1. Client' = Client /\ (Limited' <=> Limited)
  BY DEF Client, Limited
<1>2. ASSUME NEW d \in Calls \ {c} PROVE Stage(d)'
  BY <1>1, <1>2 DEF Stages, Stage
<1> QED BY <1>2 DEF Stages

(* An attempt asks for admission. *)
LEMMA IInvAsk == ASSUME IInv, NEW c \in Calls, Ask(c) PROVE IInv'
<1> USE DEF IInv
<1>1. Client' = Client /\ (Limited' <=> Limited)
  BY DEF Client, Limited, Ask
<1>2. Client.qpsWait \in Nat /\ Client.permitWait \in Nat /\ now \in Nat
  BY ClientType DEF TypeOK
<1>3. \/ /\ Limited
         /\ pc' = [pc EXCEPT ![c] = "slot"]
         /\ deadline' = [deadline EXCEPT ![c] = now + Client.qpsWait]
         /\ UNCHANGED <<line, joined>>
      \/ /\ ~Limited
         /\ pc' = [pc EXCEPT ![c] = "line"]
         /\ line' = Append(line, c)
         /\ joined' = [joined EXCEPT ![c] = now]
         /\ UNCHANGED deadline
  BY DEF Ask
<1>4. TypeOK'
  <2>1. pc' \in [Calls -> {"out", "flying"} \cup Waiting]
    BY <1>3 DEF TypeOK, Waiting
  <2>2. line' = line \/ line' = Append(line, c)
    BY <1>3
  <2>3. line' \in Seq(Calls)
    <3>1. line \in Seq(Calls) /\ Append(line, c) \in Seq(Calls)
      BY AppendProperties DEF TypeOK
    <3> QED BY <2>2, <3>1
  <2>4. deadline' \in [Calls -> Nat] /\ joined' \in [Calls -> Nat]
    <3>1. now + Client.qpsWait \in Nat
      BY <1>2
    <3> QED BY <1>2, <1>3, <3>1 DEF TypeOK
  <2>5. began' \in [Calls -> Nat] /\ tries' \in [Calls -> Nat]
    BY DEF TypeOK, Ask
  <2> QED BY <2>1, <2>3, <2>4, <2>5 DEF TypeOK, Ask
<1>5. PermitsConserved'
  <2>1. pc[c] = "out" /\ UNCHANGED <<permits, builder>>
    BY DEF Ask
  <2>2. PICK p \in {"slot", "line"} : pc' = [pc EXCEPT ![c] = p]
    BY <1>3
  <2> QED BY <2>1, <2>2, Kept DEF Holding
<1>6. Stages'
  <2>1. Stage(c)'
    BY <1>1, <1>2, <1>3 DEF Stage, TypeOK, Ask
  <2> QED BY <1>3, <2>1, OtherStages DEF TypeOK, Ask
<1>7. Schedule'
  BY <1>1 DEF Schedule, Ask
<1> QED BY <1>4, <1>5, <1>6, <1>7

(* A step of c that leaves the line, the permit of c and the schedule alone. *)
LEMMA IInvMove ==
    ASSUME IInv, NEW c \in Calls, NEW p \in {"out", "slot", "sleep", "flying"},
           pc' = [pc EXCEPT ![c] = p], pc[c] \in Holding <=> p \in Holding,
           seen' \in [Calls -> Nat \cup {NULL}], line' \in Seq(Calls),
           Stage(c)',
           UNCHANGED <<builder, now, nextStart, permits, deadline, began,
                       joined, tries, started>>
    PROVE  IInv'
<1> USE DEF IInv
<1>1. TypeOK'
  BY DEF TypeOK, Waiting
<1>2. PermitsConserved'
  BY Kept
<1>3. Stages'
  BY OtherStages DEF TypeOK
<1>4. Schedule'
  BY DEF Schedule, Client, Limited
<1> QED BY <1>1, <1>2, <1>3, <1>4

(* Reading next_slot changes no slot and no permit. *)
LEMMA IInvReadSlot == ASSUME IInv, NEW c \in Calls, ReadSlot(c) PROVE IInv'
<1>1. Stage(c)'
  BY DEF IInv, Stages, Stage, TypeOK, ReadSlot, Client, Limited, Waiting
<1>2. seen' \in [Calls -> Nat \cup {NULL}] /\ line' \in Seq(Calls)
  BY DEF IInv, TypeOK, ReadSlot
<1> QED BY <1>1, <1>2, IInvMove DEF ReadSlot, Holding

(* A call that times out asleep keeps the slot it reserved. *)
LEMMA IInvSleepTimeout == ASSUME IInv, NEW c \in Calls, SleepTimeout(c) PROVE IInv'
<1>1. Stage(c)'
  BY DEF IInv, Stage, TypeOK, SleepTimeout, Waiting
<1>2. seen' \in [Calls -> Nat \cup {NULL}] /\ line' \in Seq(Calls)
  BY DEF IInv, TypeOK, SleepTimeout
<1> QED BY <1>1, <1>2, IInvMove DEF SleepTimeout, Holding

(* A call that times out in the queue holds no permit. *)
LEMMA IInvPermitTimeout == ASSUME IInv, NEW c \in Calls, PermitTimeout(c) PROVE IInv'
<1>1. Stage(c)'
  BY DEF IInv, Stage, TypeOK, PermitTimeout, Waiting
<1>2. seen' \in [Calls -> Nat \cup {NULL}] /\ line' \in Seq(Calls)
  BY RemoveFirstType DEF IInv, TypeOK, PermitTimeout
<1> QED BY <1>1, <1>2, IInvMove DEF PermitTimeout, Holding

(* A call joins the queue of the semaphore. *)
LEMMA IInvJoin == ASSUME IInv, NEW c \in Calls, Join(c) PROVE IInv'
<1> USE DEF IInv
<1>1. Client' = Client /\ (Limited' <=> Limited)
  BY DEF Client, Limited, Join
<1>2. Client.permitWait \in Nat /\ now \in Nat
  BY ClientType DEF TypeOK
<1>3. TypeOK'
  <2>1. line' \in Seq(Calls)
    BY AppendProperties DEF TypeOK, Join
  <2>2. joined' \in [Calls -> Nat]
    BY <1>2 DEF TypeOK, Join
  <2> QED BY <2>1, <2>2 DEF TypeOK, Join, Waiting
<1>4. PermitsConserved'
  <2>1. pc[c] = "sleep" /\ pc' = [pc EXCEPT ![c] = "line"] /\ UNCHANGED <<permits, builder>>
    BY DEF Join
  <2> QED BY <2>1, Kept DEF Holding
<1>5. Stages'
  <2>1. Stage(c) /\ pc[c] = "sleep" /\ pc'[c] = "line" /\ joined'[c] = now
    BY DEF Stages, TypeOK, Join
  <2>2. deadline[c] = began[c] + Client.qpsWait /\ now <= deadline[c] /\ Limited
    BY <2>1 DEF Stage, Waiting
  <2>3. Stage(c)'
    BY <1>1, <1>2, <2>1, <2>2 DEF Stage, Join
  <2> QED BY <2>3, OtherStages DEF TypeOK, Join
<1>6. Schedule'
  BY <1>1 DEF Schedule, Join
<1> QED BY <1>3, <1>4, <1>5, <1>6

(* A free permit goes to one call. *)
LEMMA IInvTakePermit == ASSUME IInv, NEW c \in Calls, TakePermit(c) PROVE IInv'
<1> USE DEF IInv
<1>1. Client' = Client /\ (Limited' <=> Limited)
  BY DEF Client, Limited, TakePermit
<1>2. PICK p \in Holding : pc' = [pc EXCEPT ![c] = p] /\ (p = "recheck" => Limited)
  BY DEF TakePermit, Holding
<1>3. pc[c] = "line" /\ line # <<>> /\ permits > 0
  BY DEF TakePermit, Served
<1>4. TypeOK'
  <2>1. line' \in Seq(Calls)
    BY <1>3, HeadTailProperties DEF TypeOK, TakePermit
  <2>2. permits' \in Nat
    BY <1>3 DEF TypeOK, TakePermit
  <2>3. pc' \in [Calls -> {"out", "flying"} \cup Waiting]
    BY <1>2 DEF TypeOK, Waiting, Holding
  <2> QED BY <2>1, <2>2, <2>3 DEF TypeOK, TakePermit
<1>5. PermitsConserved'
  <2>1. pc[c] \notin Holding /\ permits' = permits - 1 /\ UNCHANGED builder
    BY <1>3 DEF Holding, TakePermit
  <2> QED BY <1>2, <2>1, Taken
<1>6. Stages'
  <2>1. Stage(c) /\ pc'[c] = p /\ UNCHANGED <<now, deadline, began, joined>>
    BY <1>2 DEF Stages, TypeOK, TakePermit
  <2>2. Stage(c)'
    BY <1>1, <1>2, <1>3, <2>1 DEF Stage, Holding, Waiting
  <2> QED BY <1>2, <2>2, OtherStages DEF TypeOK, TakePermit
<1>7. Schedule'
  BY <1>1 DEF Schedule, TakePermit
<1> QED BY <1>4, <1>5, <1>6, <1>7

(* A start moves the schedule on, and only when the schedule has come.       *)
LEMMA IInvCommit == ASSUME IInv, NEW c \in Calls, Commit(c) PROVE IInv'
<1> USE DEF IInv
<1>1. Client' = Client /\ (Limited' <=> Limited)
  BY DEF Client, Limited, Commit
<1>2. pc[c] = "recheck" /\ pc' = [pc EXCEPT ![c] = "flying"] /\ UNCHANGED <<permits, builder>>
  BY DEF Commit
<1>3. Limited /\ Client.interval \in Nat /\ now \in Nat /\ started \in Nat
  BY <1>2, ClientType DEF Stages, Stage, TypeOK
<1>4. nextStart' = now + Client.interval /\ started' = started + 1
      /\ UNCHANGED <<now, deadline, began, joined>>
  BY DEF Commit
<1>5. TypeOK'
  BY <1>2, <1>3, <1>4 DEF TypeOK, Commit
<1>6. PermitsConserved'
  BY <1>2, Kept DEF Holding
<1>7. Stages'
  <2>1. Stage(c)'
    BY <1>2 DEF Stage, TypeOK, Waiting
  <2> QED BY <1>2, <1>4, <2>1, OtherStages DEF TypeOK
<1>8. Schedule'
  <2> DEFINE i == Client.interval
  <2>1. started * i <= now
    <3>1. CASE started = 0
      BY <1>3, <3>1
    <3>2. CASE started > 0
      <4>1. nextStart \in Nat /\ started * i <= nextStart
        BY <1>3, <3>2 DEF Schedule
      <4>2. nextStart <= now
        BY <4>1, NullAssumption DEF Commit, SlotFree
      <4>3. started * i \in Nat
        BY <1>3
      <4> HIDE DEF i
      <4> QED BY <1>3, <4>1, <4>2, <4>3
    <3> QED BY <1>3, <3>1, <3>2
  <2>2. (started + 1) * i = started * i + i /\ started * i \in Nat
    <3>1. i \in Nat
      BY <1>3
    <3> HIDE DEF i
    <3> QED BY <1>3, <3>1
  <2>3. started' * Client'.interval <= nextStart' /\ nextStart' \in Nat
    BY <1>1, <1>3, <1>4, <2>1, <2>2
  <2>4. started' > 0 /\ nextStart' <= now' + Client'.interval
    BY <1>1, <1>3, <1>4
  <2> QED BY <1>3, <2>3, <2>4 DEF Schedule
<1> QED BY <1>5, <1>6, <1>7, <1>8

(* The permit of a call that ended is free again. *)
LEMMA IInvGiveBack == ASSUME IInv, NEW c \in Calls, GiveBack(c) PROVE IInv'
<1> USE DEF IInv
<1>1. Client' = Client /\ (Limited' <=> Limited)
  BY DEF Client, Limited, GiveBack
<1>2. PICK p \in {"out", "slot"} :
         pc' = [pc EXCEPT ![c] = p] /\ (p = "slot" => ~(now >= deadline[c]))
  BY DEF GiveBack
<1>3. pc[c] = "recheck" /\ permits' = permits + 1 /\ UNCHANGED builder
  BY DEF GiveBack
<1>4. TypeOK'
  BY <1>2, <1>3 DEF TypeOK, GiveBack, Waiting
<1>5. PermitsConserved'
  <2>1. pc[c] \in Holding /\ p \notin Holding
    BY <1>2, <1>3 DEF Holding
  <2> QED BY <1>2, <1>3, <2>1, Returned
<1>6. Stages'
  <2>1. Stage(c) /\ pc'[c] = p /\ UNCHANGED <<now, deadline, began, joined>>
    BY <1>2 DEF Stages, TypeOK, GiveBack
  <2>2. now \in Nat /\ deadline[c] \in Nat
    BY DEF TypeOK
  <2>3. Stage(c)'
    BY <1>1, <1>2, <1>3, <2>1, <2>2 DEF Stage, Waiting
  <2> QED BY <1>2, <2>3, OtherStages DEF TypeOK, GiveBack
<1>7. Schedule'
  BY <1>1 DEF Schedule, GiveBack
<1> QED BY <1>4, <1>5, <1>6, <1>7

(* A call that ended may be made again. *)
LEMMA IInvLeave == ASSUME IInv, NEW c \in Calls, Leave(c) PROVE IInv'
<1> USE DEF IInv
<1>1. Client' = Client /\ (Limited' <=> Limited)
  BY DEF Client, Limited, Leave
<1>2. /\ pc' = [pc EXCEPT ![c] = "out"] /\ UNCHANGED <<builder, now>>
      /\ \A d \in Calls \ {c} : /\ deadline'[d] = deadline[d]
                                /\ began'[d] = began[d] /\ joined'[d] = joined[d]
  BY DEF Leave, TypeOK
<1>3. TypeOK'
  <2>1. line' \in Seq(Calls)
    BY RemoveFirstType DEF TypeOK, Leave
  <2>2. permits' \in Nat
    BY DEF TypeOK, Leave
  <2>3. /\ deadline' \in [Calls -> Nat] /\ began' \in [Calls -> Nat]
        /\ joined' \in [Calls -> Nat] /\ seen' \in [Calls -> Nat \cup {NULL}]
    BY DEF TypeOK, Leave
  <2> QED BY <2>1, <2>2, <2>3 DEF TypeOK, Leave
<1>4. PermitsConserved'
  <2>0. "out" \notin Holding
    BY DEF Holding
  <2>1. CASE pc[c] \in Holding
    <3>1. permits' = permits + 1
      BY <2>1 DEF Leave
    <3> QED BY <1>2, <2>0, <2>1, <3>1, Returned
  <2>2. CASE pc[c] \notin Holding
    <3>1. permits' = permits
      BY <2>2 DEF Leave
    <3> QED BY <1>2, <2>0, <2>2, <3>1, Kept
  <2> QED BY <2>1, <2>2
<1>5. Stages'
  <2>1. Stage(c)'
    BY <1>2 DEF Stage, TypeOK, Waiting
  <2> QED BY <1>2, <2>1, OtherStages DEF TypeOK
<1>6. Schedule'
  BY <1>1 DEF Schedule, Leave
<1> QED BY <1>3, <1>4, <1>5, <1>6

(* An attempt that runs out of time at the lock gives its permit back.       *)
LEMMA IInvLockTimeout == ASSUME IInv, NEW c \in Calls, LockTimeout(c) PROVE IInv'
<1> USE DEF IInv
<1>1. Client' = Client /\ (Limited' <=> Limited)
  BY DEF Client, Limited, LockTimeout
<1>2. pc' = [pc EXCEPT ![c] = "out"]
      /\ UNCHANGED <<builder, now, deadline, began, joined>>
  BY DEF LockTimeout
<1>3. TypeOK'
  BY DEF TypeOK, LockTimeout
<1>4. PermitsConserved'
  <2>0. "out" \notin Holding
    BY DEF Holding
  <2>1. CASE pc[c] \in Holding
    <3>1. permits' = permits + 1
      BY <2>1 DEF LockTimeout
    <3> QED BY <1>2, <2>0, <2>1, <3>1, Returned
  <2>2. CASE pc[c] \notin Holding
    <3>1. permits' = permits
      BY <2>2 DEF LockTimeout
    <3> QED BY <1>2, <2>0, <2>2, <3>1, Kept
  <2> QED BY <2>1, <2>2
<1>5. Stages'
  <2>1. Stage(c)'
    BY <1>2 DEF Stage, TypeOK, Waiting
  <2> QED BY <1>2, <2>1, OtherStages DEF TypeOK
<1>6. Schedule'
  BY <1>1 DEF Schedule, LockTimeout
<1> QED BY <1>3, <1>4, <1>5, <1>6

(* Time passes only when no attempt has a step to take.                      *)
LEMMA IInvTick == ASSUME IInv, Tick PROVE IInv'
<1> USE DEF IInv
<1>1. Client' = Client /\ (Limited' <=> Limited)
  BY DEF Client, Limited, Tick
<1>2. now' = now + 1 /\ now \in Nat
      /\ UNCHANGED <<builder, nextStart, permits, pc, deadline, began, joined, started>>
  BY DEF Tick, TypeOK
<1>3. TypeOK'
  BY DEF TypeOK, Tick
<1>4. PermitsConserved'
  BY <1>1, <1>2 DEF PermitsConserved
<1>5. Stages'
  <2>1. ASSUME NEW d \in Calls PROVE Stage(d)'
    <3>1. Stage(d) /\ pc[d] \notin {"slot", "recheck"}
      BY DEF Stages, Tick, Quiet
    <3>2. deadline[d] \in Nat /\ joined[d] \in Nat /\ Client.permitWait \in Nat
      BY ClientType DEF TypeOK
    <3>3. pc[d] = "sleep" => now < deadline[d]
      BY DEF Tick, Quiet
    <3>4. pc[d] = "line" => now < joined[d] + Client.permitWait
      BY DEF Tick, Quiet
    <3> QED BY <1>1, <1>2, <3>1, <3>2, <3>3, <3>4 DEF Stage
  <2> QED BY <2>1 DEF Stages
<1>6. Schedule'
  <2>1. nextStart \in Nat /\ Client.interval \in Nat /\ nextStart <= now + Client.interval
        => nextStart <= now' + Client.interval
    BY <1>2
  <2> QED BY <1>1, <1>2, <2>1, ClientType DEF Schedule
<1> QED BY <1>3, <1>4, <1>5, <1>6

(* IInv is inductive. *)
LEMMA IInvNext == ASSUME IInv, [Next]_vars PROVE IInv'
<1>1. ASSUME NEW c \in Calls, Ask(c) \/ Proceed(c) \/ Leave(c) PROVE IInv'
  BY <1>1, IInvAsk, IInvReadSlot, IInvJoin, IInvSleepTimeout, IInvTakePermit,
     IInvPermitTimeout, IInvCommit, IInvGiveBack, IInvLockTimeout, IInvLeave DEF Proceed
<1>2. CASE Tick
  BY <1>2, IInvTick
<1>3. CASE UNCHANGED vars
  BY <1>3 DEF vars, IInv, TypeOK, PermitsConserved, Stages, Stage, Schedule,
              Client, Limited
<1> QED BY <1>1, <1>2, <1>3 DEF Next

(* The inductive invariant holds in every reachable state. *)
THEOREM Invariance == Spec => []IInv
BY IInvInit, IInvNext, PTL DEF Spec

-----------------------------------------------------------------------------
(* Every value stays in its type. *)
THEOREM TypeCorrect == Spec => []TypeOK
BY Invariance, PTL DEF IInv

(* No permit is lost or made up (acquire_admission and the permit it drops). *)
THEOREM PermitsKept == Spec => []PermitsConserved
BY Invariance, PTL DEF IInv

(* Multiplication by a natural number keeps an order. *)
LEMMA Scaled ==
    ASSUME NEW k \in Nat, NEW a \in Int, NEW b \in Int, a <= b
    PROVE  k * a <= k * b
<1>1. b - a \in Nat
  OBVIOUS
<1>2. k * (b - a) \in Nat
  BY <1>1
<1>3. k * (b - a) = k * b - k * a
  OBVIOUS
<1>4. k * a \in Int /\ k * b \in Int
  OBVIOUS
<1> QED BY <1>2, <1>3, <1>4

(* What the schedule says of the starts bounds their rate, with the rounding *)
(* of the interval accounted for (build, the limiter of acquire_admission).  *)
LEMMA RateBounded == ASSUME IInv PROVE StartRate
<1> DEFINE rate == builder.maxPerSecond
           i == Client.interval
           k == started - 1
<1> SUFFICES ASSUME Limited PROVE k * (2 * Second - rate) <= 2 * rate * now
  BY DEF StartRate
<1>1. rate \in 1..Second /\ i \in Nat /\ 2 * rate * i >= 2 * Second - rate
  BY ClientType DEF IInv
<1>2. started \in Nat /\ now \in Nat /\ Second \in Nat
  BY SecondAssumption DEF IInv, TypeOK
<1>3. CASE started = 0
  <2>1. 2 * rate * now >= 0 /\ k = -1
    <3> HIDE DEF rate
    <3> QED BY <1>1, <1>2, <1>3
  <2> HIDE DEF rate
  <2> QED BY <1>1, <1>2, <2>1
<1>4. CASE started > 0
  <2>1. nextStart \in Nat /\ started * i <= nextStart /\ nextStart <= now + i
    BY <1>4 DEF IInv, Schedule
  <2>2. k \in Nat /\ started = k + 1
    BY <1>2, <1>4
  <2> HIDE DEF rate, i, k
  <2>3. (k + 1) * i = k * i + i /\ k * i \in Nat
    BY <1>1, <2>2
  <2>4. k * i <= now
    BY <1>1, <1>2, <2>1, <2>2, <2>3
  <2>5. k * (2 * Second - rate) <= k * (2 * rate * i)
    <3> DEFINE a == 2 * Second - rate
               b == 2 * rate * i
    <3>1. a \in Int /\ b \in Int /\ a <= b
      BY <1>1, <1>2
    <3> HIDE DEF a, b
    <3>2. k * a <= k * b
      BY <2>2, <3>1, Scaled
    <3> QED BY <3>2 DEF a, b
  <2>6. k * (2 * rate * i) = (2 * rate) * (k * i)
    BY <1>1, <2>2
  <2>7. (2 * rate) * (k * i) <= (2 * rate) * now
    <3> DEFINE a == 2 * rate
               b == k * i
    <3>1. a \in Nat /\ b \in Nat /\ b <= now
      BY <1>1, <2>3, <2>4
    <3>2. now \in Int /\ b \in Int
      BY <1>2, <3>1
    <3> HIDE DEF a, b
    <3>3. a * b <= a * now
      BY <3>1, <3>2, Scaled
    <3> QED BY <3>3 DEF a, b
  <2>8. k * (2 * Second - rate) \in Int /\ k * (2 * rate * i) \in Int
        /\ (2 * rate) * now \in Int /\ (2 * rate) * now = 2 * rate * now
    BY <1>1, <1>2, <2>2
  <2> QED BY <2>5, <2>6, <2>7, <2>8
<1> QED BY <1>2, <1>3, <1>4

(* No more than max_requests_per_second requests start in each second, but   *)
(* for the rounding of the interval, for any number of calls and any rate.   *)
THEOREM RateKept == Spec => []StartRate
BY Invariance, RateBounded, PTL

(* An admission takes no longer than both its waits together, whatever the   *)
(* other calls do.                                                           *)
THEOREM WaitBounded == Spec => []BoundedWait
<1>1. ASSUME IInv PROVE BoundedWait
  <2> SUFFICES ASSUME NEW c \in Calls, pc[c] \in Waiting
               PROVE  now <= began[c] + Client.qpsWait + Client.permitWait
    BY DEF BoundedWait
  <2>1. Client.qpsWait \in Nat /\ Client.permitWait \in Nat
    BY <1>1, ClientType DEF IInv
  <2>2. now \in Nat /\ began[c] \in Nat /\ deadline[c] \in Nat /\ joined[c] \in Nat
    BY <1>1 DEF IInv, TypeOK
  <2>3. Stage(c)
    BY <1>1 DEF IInv, Stages
  <2> QED BY <2>1, <2>2, <2>3 DEF Stage, Waiting
<1> QED BY <1>1, Invariance, PTL

-----------------------------------------------------------------------------
(* The line of the semaphore. *)

Standing(c) == \E i \in 1..Len(line) : line[i] = c

(* The line holds the calls that wait for a permit, each once and in the     *)
(* order in which they joined.                                               *)
LineOrdered ==
    /\ \A c \in Calls : pc[c] = "line" <=> Standing(c)
    /\ \A i, j \in 1..Len(line) :
          i < j => line[i] # line[j] /\ joined[line[i]] <= joined[line[j]]
    /\ \A i \in 1..Len(line) : joined[line[i]] <= now

(* Time never passes over a free permit that a call is waiting for.          *)
NoPermitIdles == [][now' # now => permits = 0 \/ line = <<>>]_vars

(* A permit goes to the call that has waited for one the longest.            *)
LongestWaits(c) == \A d \in Calls : pc[d] = "line" => joined[c] <= joined[d]

LongestWaitServed ==
    [][\A c \in Calls : pc[c] = "line" /\ pc'[c] \in Holding => LongestWaits(c)]_vars

(* The line is empty before the first call. *)
LEMMA LineInit == Init => LineOrdered
<1> SUFFICES ASSUME Init PROVE LineOrdered
  OBVIOUS
<1>1. Len(line) = 0 /\ 1..Len(line) = {}
  BY EmptySeq DEF Init
<1> QED BY <1>1 DEF LineOrdered, Standing, Init

(* A call that joins stands last, as the last who came. *)
LEMMA LineGrows ==
    ASSUME TypeOK, LineOrdered, NEW c \in Calls, pc[c] # "line",
           pc' = [pc EXCEPT ![c] = "line"], line' = Append(line, c),
           joined' = [joined EXCEPT ![c] = now], now' = now
    PROVE  LineOrdered'
<1> DEFINE n == Len(line)
<1>1. /\ n \in Nat /\ now \in Nat /\ \A i \in 1..n : line[i] \in Calls
  BY ElementOfSeq, LenProperties DEF TypeOK
<1>2. /\ Len(line') = n + 1 /\ line'[n + 1] = c
      /\ \A i \in 1..n : line'[i] = line[i]
  BY AppendProperties DEF TypeOK
<1>3. \A i \in 1..n : line[i] # c /\ joined'[line[i]] = joined[line[i]]
  BY <1>1 DEF LineOrdered, Standing, TypeOK
<1>4. joined'[c] = now
  BY DEF TypeOK
<1> HIDE DEF n
<1>5. \A i \in 1..(n + 1) : i \in 1..n \/ i = n + 1
  BY <1>1
<1>6. n + 1 \in 1..(n + 1) /\ 1..n \subseteq 1..(n + 1)
  BY <1>1
<1>7. ASSUME NEW d \in Calls PROVE pc'[d] = "line" <=> Standing(d)'
  <2>1. CASE d = c
    BY <1>2, <1>6, <2>1 DEF Standing, TypeOK
  <2>2. CASE d # c
    <3>1. pc'[d] = pc[d]
      BY <2>2 DEF TypeOK
    <3>2. Standing(d)' <=> \E i \in 1..n : line[i] = d
      BY <1>2, <1>5, <1>6, <2>2 DEF Standing
    <3> QED BY <3>1, <3>2 DEF LineOrdered, Standing, n
  <2> QED BY <2>1, <2>2
<1>8. ASSUME NEW i \in 1..(n + 1), NEW j \in 1..(n + 1), i < j
      PROVE  line'[i] # line'[j] /\ joined'[line'[i]] <= joined'[line'[j]]
  <2>1. i \in 1..n
    BY <1>1, <1>8
  <2>2. CASE j \in 1..n
    BY <1>2, <1>3, <1>8, <2>1, <2>2 DEF LineOrdered, n
  <2>3. CASE j = n + 1
    BY <1>2, <1>3, <1>4, <2>1, <2>3 DEF LineOrdered, n
  <2> QED BY <1>5, <2>2, <2>3
<1>9. ASSUME NEW i \in 1..(n + 1) PROVE joined'[line'[i]] <= now'
  <2>1. CASE i \in 1..n
    BY <1>2, <1>3, <2>1 DEF LineOrdered, n
  <2>2. CASE i = n + 1
    BY <1>1, <1>2, <1>4, <2>2
  <2> QED BY <1>5, <2>1, <2>2
<1> QED BY <1>2, <1>7, <1>8, <1>9 DEF LineOrdered

(* When the call at place k goes, those behind it move up. *)
LEMMA LineShrinks ==
    ASSUME TypeOK, LineOrdered, NEW k \in 1..Len(line), NEW p, p # "line",
           pc' = [pc EXCEPT ![line[k]] = p],
           Len(line') = Len(line) - 1,
           \A i \in 1..Len(line') : line'[i] = IF i < k THEN line[i] ELSE line[i + 1],
           \A d \in Calls \ {line[k]} : joined'[d] = joined[d], now' = now
    PROVE  LineOrdered'
<1> DEFINE old(i) == IF i < k THEN i ELSE i + 1
           new(j) == IF j < k THEN j ELSE j - 1
<1>1. Len(line) \in Nat /\ k \in 1..Len(line) /\ \A i \in 1..Len(line) : line[i] \in Calls
  BY ElementOfSeq, LenProperties DEF TypeOK
<1>2. \A i \in 1..Len(line') : old(i) \in 1..Len(line) \ {k} /\ line'[i] = line[old(i)]
  BY <1>1
<1>3. \A i, j \in 1..Len(line') : i < j => old(i) < old(j)
  BY <1>1
<1>4. \A j \in 1..Len(line) \ {k} : new(j) \in 1..Len(line') /\ old(new(j)) = j
  BY <1>1
<1> HIDE DEF old, new
<1>8. \A i \in 1..Len(line') : joined'[line'[i]] = joined[line[old(i)]]
  <2>1. \A j \in 1..Len(line) \ {k} : line[j] \in Calls \ {line[k]}
    BY <1>1 DEF LineOrdered
  <2> QED BY <1>2, <2>1
<1>5. ASSUME NEW d \in Calls PROVE pc'[d] = "line" <=> Standing(d)'
  <2>1. CASE d = line[k]
    <3>1. \A j \in 1..Len(line) \ {k} : line[j] # d
      BY <1>1, <2>1 DEF LineOrdered
    <3>2. ~Standing(d)'
      BY <1>2, <3>1 DEF Standing
    <3> QED BY <2>1, <3>2 DEF TypeOK
  <2>2. CASE d # line[k]
    <3>1. pc'[d] = pc[d]
      BY <1>1, <2>2 DEF TypeOK
    <3>2. ASSUME Standing(d) PROVE Standing(d)'
      <4>1. PICK j \in 1..Len(line) : line[j] = d
        BY <3>2 DEF Standing
      <4>2. new(j) \in 1..Len(line') /\ old(new(j)) = j
        BY <1>4, <2>2, <4>1
      <4>3. line'[new(j)] = d
        BY <1>2, <4>1, <4>2
      <4> QED BY <4>2, <4>3 DEF Standing
    <3>3. Standing(d)' => Standing(d)
      BY <1>2 DEF Standing
    <3> QED BY <3>1, <3>2, <3>3 DEF LineOrdered
  <2> QED BY <2>1, <2>2
<1>6. ASSUME NEW i \in 1..Len(line'), NEW j \in 1..Len(line'), i < j
      PROVE  line'[i] # line'[j] /\ joined'[line'[i]] <= joined'[line'[j]]
  <2>1. old(i) < old(j) /\ old(i) \in 1..Len(line) /\ old(j) \in 1..Len(line)
    BY <1>2, <1>3, <1>6
  <2> QED BY <1>2, <1>8, <2>1 DEF LineOrdered
<1>7. \A i \in 1..Len(line') : joined'[line'[i]] <= now'
  BY <1>2, <1>8 DEF LineOrdered
<1> QED BY <1>5, <1>6, <1>7 DEF LineOrdered

(* A call that leaves from wherever it stood leaves no place behind. *)
LEMMA LineLeft ==
    ASSUME TypeOK, LineOrdered, NEW c \in Calls, NEW p, p # "line",
           pc' = [pc EXCEPT ![c] = p], line' = RemoveFirst(line, c),
           \A d \in Calls \ {c} : joined'[d] = joined[d], now' = now
    PROVE  LineOrdered'
<1>1. CASE Standing(c)
  <2>1. PICK k \in 1..Len(line) :
           line[k] = c /\ line' = Without(line, k)
    BY <1>1, RemoveFirstAt DEF Standing, TypeOK
  <2>2. /\ Len(line') = Len(line) - 1
        /\ \A i \in 1..Len(line') : line'[i] = IF i < k THEN line[i] ELSE line[i + 1]
    <3>1. line \in Seq(Calls)
      BY DEF TypeOK
    <3> DEFINE t == Without(line, k)
    <3>2. /\ Len(t) = Len(line) - 1
          /\ \A i \in 1..Len(t) : t[i] = IF i < k THEN line[i] ELSE line[i + 1]
      BY <3>1, ClosedUp
    <3>3. line' = t
      BY <2>1
    <3> HIDE DEF t
    <3> QED BY <3>2, <3>3
  <2> QED BY <2>1, <2>2, LineShrinks
<1>2. CASE ~Standing(c)
  <2>1. line' = line
    BY <1>2 DEF Standing, RemoveFirst
  <2>2. \A d \in Calls : pc'[d] = "line" <=> pc[d] = "line"
    BY <1>2 DEF LineOrdered, TypeOK
  <2>3. \A i \in 1..Len(line) : line[i] \in Calls \ {c}
    BY <1>2, ElementOfSeq DEF Standing, TypeOK
  <2> QED BY <2>1, <2>2, <2>3 DEF LineOrdered, Standing
<1> QED BY <1>1, <1>2

(* A step of a call that is not in line, and does not join it. *)
LEMMA LineStays ==
    ASSUME TypeOK, LineOrdered, NEW c \in Calls, NEW p, p # "line", pc[c] # "line",
           pc' = [pc EXCEPT ![c] = p], UNCHANGED <<line, joined, now>>
    PROVE  LineOrdered'
<1>1. \A d \in Calls : pc'[d] = "line" <=> pc[d] = "line"
  BY DEF TypeOK
<1> QED BY <1>1 DEF LineOrdered, Standing

(* The first in line is served. *)
LEMMA LineServed ==
    ASSUME TypeOK, LineOrdered, NEW c \in Calls, TakePermit(c)
    PROVE  LineOrdered'
<1>1. line \in Seq(Calls) /\ line # <<>> /\ line[1] = c /\ line' = Tail(line)
  BY DEF TypeOK, TakePermit, Served
<1>2. /\ 1 \in 1..Len(line) /\ Len(line) \in Nat /\ Len(line') = Len(line) - 1
      /\ \A i \in 1..Len(line') : line'[i] = line[i + 1]
  BY <1>1, HeadTailProperties, EmptySeq, LenProperties
<1>3. \A i \in 1..Len(line') : line'[i] = IF i < 1 THEN line[i] ELSE line[i + 1]
  BY <1>2
<1>4. PICK p \in {"recheck", "flying"} : pc' = [pc EXCEPT ![c] = p]
  BY DEF TakePermit
<1> QED BY <1>1, <1>2, <1>3, <1>4, LineShrinks DEF TakePermit

(* Every step keeps the line. *)
LEMMA LineStep == TypeOK /\ LineOrdered /\ [Next]_vars => LineOrdered'
<1> SUFFICES ASSUME TypeOK, LineOrdered, [Next]_vars PROVE LineOrdered'
  OBVIOUS
<1>1. ASSUME NEW c \in Calls, Ask(c) \/ Join(c) PROVE LineOrdered'
  <2>1. pc[c] # "line" /\ now' = now
    BY <1>1 DEF Ask, Join
  <2>2. CASE /\ pc' = [pc EXCEPT ![c] = "line"] /\ line' = Append(line, c)
             /\ joined' = [joined EXCEPT ![c] = now]
    BY <2>1, <2>2, LineGrows
  <2>3. CASE pc' = [pc EXCEPT ![c] = "slot"] /\ UNCHANGED <<line, joined>>
    BY <2>1, <2>3, LineStays
  <2> QED BY <1>1, <2>2, <2>3 DEF Ask, Join
<1>2. ASSUME NEW c \in Calls, \/ ReadSlot(c) \/ SleepTimeout(c) \/ Commit(c)
                                \/ GiveBack(c) \/ LockTimeout(c)
      PROVE  LineOrdered'
  <2>1. PICK p \in {"out", "slot", "sleep", "flying"} : pc' = [pc EXCEPT ![c] = p]
    BY <1>2 DEF ReadSlot, SleepTimeout, Commit, GiveBack, LockTimeout
  <2>2. pc[c] # "line" /\ UNCHANGED <<line, joined, now>>
    BY <1>2 DEF ReadSlot, SleepTimeout, Commit, GiveBack, LockTimeout
  <2> QED BY <2>1, <2>2, LineStays
<1>3. ASSUME NEW c \in Calls, PermitTimeout(c) \/ Leave(c) PROVE LineOrdered'
  <2>1. /\ pc' = [pc EXCEPT ![c] = "out"] /\ line' = RemoveFirst(line, c)
        /\ \A d \in Calls \ {c} : joined'[d] = joined[d]
        /\ now' = now
    BY <1>3 DEF PermitTimeout, Leave, TypeOK
  <2> QED BY <2>1, LineLeft
<1>4. CASE Tick
  <2>1. now \in Nat /\ now' = now + 1 /\ UNCHANGED <<line, joined, pc>>
    BY <1>4 DEF Tick, TypeOK
  <2>2. \A i \in 1..Len(line) : joined[line[i]] \in Nat
    BY ElementOfSeq DEF TypeOK
  <2> QED BY <2>1, <2>2 DEF LineOrdered, Standing
<1>5. CASE UNCHANGED vars
  BY <1>5 DEF vars, LineOrdered, Standing
<1> QED BY <1>1, <1>2, <1>3, <1>4, <1>5, LineServed DEF Next, Proceed

(* Whoever waits for a permit stands in the line once, in the order of       *)
(* arrival, whichever of the calls before it was served, timed out or was    *)
(* dropped meanwhile.                                                        *)
THEOREM LineKept == Spec => []LineOrdered
<1>1. IInv => TypeOK
  BY DEF IInv
<1> QED BY <1>1, Invariance, LineInit, LineStep, PTL DEF Spec

(* A free permit is given on at once: no call that left, by its timeout or   *)
(* because its caller dropped it, keeps a place that holds up the others.    *)
THEOREM PermitsNeverIdle == Spec => NoPermitIdles
<1>1. TypeOK /\ LineOrdered /\ [Next]_vars => [now' # now => permits = 0 \/ line = <<>>]_vars
  <2> SUFFICES ASSUME TypeOK, LineOrdered, Next, now' # now, line # <<>>
               PROVE  permits = 0
    OBVIOUS
  <2>1. Tick
    BY DEF Next, Proceed, Ask, ReadSlot, Join, SleepTimeout, TakePermit, PermitTimeout,
           Commit, GiveBack, LockTimeout, Leave
  <2>2. 1 \in 1..Len(line) /\ line[1] \in Calls /\ Head(line) = line[1]
    BY EmptySeq, LenProperties, ElementOfSeq DEF TypeOK
  <2>3. pc[line[1]] = "line"
    BY <2>2 DEF LineOrdered, Standing
  <2>4. ~Served(line[1])
    BY <2>1, <2>2, <2>3 DEF Tick, Quiet
  <2> QED BY <2>2, <2>4 DEF Served, TypeOK
<1>2. IInv => TypeOK
  BY DEF IInv
<1> QED BY <1>1, <1>2, Invariance, LineKept, PTL DEF Spec, NoPermitIdles

(* No call overtakes another between joining the line and its permit. *)
THEOREM NoOvertaking == Spec => LongestWaitServed
<1> DEFINE Fair == \A c \in Calls : pc[c] = "line" /\ pc'[c] \in Holding => LongestWaits(c)
<1>1. TypeOK /\ LineOrdered /\ [Next]_vars => [Fair]_vars
  <2> SUFFICES ASSUME TypeOK, LineOrdered, Next, NEW c \in Calls,
                      pc[c] = "line", pc'[c] \in Holding
               PROVE  LongestWaits(c)
    OBVIOUS
  <2>1. TakePermit(c)
    <3>1. \/ \E d \in Calls : Ask(d) \/ Proceed(d) \/ Leave(d)
          \/ Tick
      BY DEF Next
    <3>2. pc'[c] # pc[c] /\ pc'[c] \in {"recheck", "flying"}
      BY DEF Holding
    <3> QED BY <3>1, <3>2 DEF TypeOK, Proceed, Ask, ReadSlot, Join, SleepTimeout, TakePermit,
            PermitTimeout, Commit, GiveBack, LockTimeout, Leave, Tick
  <2>2. line[1] = c /\ line # <<>> /\ line \in Seq(Calls) /\ Len(line) \in Nat
    BY <2>1, LenProperties DEF TakePermit, Served, TypeOK
  <2>3. 1 \in 1..Len(line)
    BY <2>2, EmptySeq
  <2>4. joined[c] \in Nat
    BY DEF TypeOK
  <2>5. ASSUME NEW d \in Calls, pc[d] = "line" PROVE joined[c] <= joined[d]
    <3>1. PICK j \in 1..Len(line) : line[j] = d
      BY <2>5 DEF LineOrdered, Standing
    <3>2. j = 1 \/ 1 < j
      BY <2>2, <3>1
    <3> QED BY <2>2, <2>3, <2>4, <3>1, <3>2 DEF LineOrdered
  <2> QED BY <2>5 DEF LongestWaits
<1>2. IInv => TypeOK
  BY DEF IInv
<1> QED BY <1>1, <1>2, Invariance, LineKept, PTL DEF Spec, LongestWaitServed

-----------------------------------------------------------------------------
(* The loop of acquire_admission. *)

(* The steps c may still take before time passes: after a slot was lost, the *)
(* next one is yet to come.                                                  *)
StepsNow(c) ==
    CASE pc[c] = "slot" -> IF SlotFree THEN 6 ELSE 2
      [] pc[c] = "sleep" -> IF SlotReached(c) THEN 5 ELSE 1
      [] pc[c] = "line" -> 4
      [] pc[c] = "recheck" -> 3
      [] pc[c] \in {"out", "flying"} -> 0

(* A step of a waiting attempt uses one up and gives nobody another one.     *)
StepsRunOut ==
    \A c \in Calls : Proceed(c) =>
        /\ StepsNow(c)' < StepsNow(c)
        /\ \A d \in Calls \ {c} : StepsNow(d)' <= StepsNow(d)

(* Starts are at least one unit of time apart (from_secs_f64 of the rate). *)
LEMMA IntervalPositive ==
    ASSUME TypeOK, Limited
    PROVE  Client.interval \in Nat \ {0}
<1> DEFINE rate == builder.maxPerSecond
<1>1. /\ rate \in 1..Second /\ Client.interval \in Nat
      /\ 2 * rate * Client.interval >= 2 * Second - rate
  BY ClientType
<1>2. Second \in Nat \ {0}
  BY SecondAssumption
<1> HIDE DEF rate
<1>3. ASSUME Client.interval = 0 PROVE FALSE
  <2>1. 2 * rate * Client.interval = 0
    BY <1>1, <1>3
  <2> QED BY <1>1, <1>2, <2>1
<1> QED BY <1>1, <1>3

(* A step of c that leaves the schedule alone is no concern of another.      *)
LEMMA OthersKeepSteps ==
    ASSUME TypeOK, NEW c \in Calls, NEW d \in Calls \ {c}, NEW p,
           pc' = [pc EXCEPT ![c] = p], seen'[d] = seen[d], UNCHANGED <<now, nextStart>>
    PROVE  StepsNow(d)' = StepsNow(d)
<1>1. pc'[d] = pc[d]
  BY DEF TypeOK
<1> QED BY <1>1 DEF StepsNow, SlotFree, SlotReached

(* Every step of a waiting attempt uses up one of its own. *)
LEMMA StepsDecrease == IInv /\ [Next]_vars => [StepsRunOut]_vars
<1> SUFFICES ASSUME IInv, Next, NEW c \in Calls, Proceed(c)
             PROVE  /\ StepsNow(c)' < StepsNow(c)
                    /\ \A d \in Calls \ {c} : StepsNow(d)' <= StepsNow(d)
  BY DEF StepsRunOut
<1>1. TypeOK
  BY DEF IInv
<1>2. ASSUME NEW d \in Calls PROVE StepsNow(d) \in 0..6
  <2>1. pc[d] \in {"out", "flying"} \cup Waiting
    BY <1>1 DEF TypeOK
  <2> QED BY <2>1 DEF StepsNow, Waiting
<1>3. CASE ReadSlot(c)
  <2>1. /\ pc[c] = "slot" /\ pc'[c] = "sleep" /\ seen'[c] = nextStart
        /\ UNCHANGED <<now, nextStart>> /\ pc' = [pc EXCEPT ![c] = "sleep"]
        /\ \A d \in Calls \ {c} : seen'[d] = seen[d]
    BY <1>1, <1>3 DEF ReadSlot, TypeOK
  <2>2. SlotReached(c)' <=> SlotFree
    BY <2>1 DEF SlotReached, SlotFree
  <2>3. StepsNow(c)' < StepsNow(c)
    BY <2>1, <2>2 DEF StepsNow
  <2>4. \A d \in Calls \ {c} : StepsNow(d)' = StepsNow(d)
    BY <1>1, <2>1, OthersKeepSteps
  <2> QED BY <1>2, <2>3, <2>4
<1>4. CASE Join(c) \/ SleepTimeout(c) \/ TakePermit(c) \/ PermitTimeout(c)
  <2>1. PICK p \in {"line", "out", "recheck", "flying"} :
           /\ pc' = [pc EXCEPT ![c] = p] /\ UNCHANGED <<seen, now, nextStart>>
           /\ \/ pc[c] = "sleep" /\ SlotReached(c) /\ p = "line"
              \/ pc[c] = "sleep" /\ p = "out"
              \/ pc[c] = "line" /\ p # "line"
    BY <1>4 DEF Join, SleepTimeout, TakePermit, PermitTimeout
  <2>2. pc'[c] = p
    BY <1>1, <2>1 DEF TypeOK
  <2>3. StepsNow(c)' < StepsNow(c)
    BY <2>1, <2>2 DEF StepsNow
  <2>4. \A d \in Calls \ {c} : StepsNow(d)' = StepsNow(d)
    BY <1>1, <2>1, OthersKeepSteps
  <2> QED BY <1>2, <2>3, <2>4
<1>5. CASE Commit(c)
  <2>1. /\ pc[c] = "recheck" /\ pc' = [pc EXCEPT ![c] = "flying"] /\ SlotFree
        /\ nextStart' = now + Client.interval /\ UNCHANGED <<now, seen>>
    BY <1>5 DEF Commit
  <2>2. Client.interval \in Nat \ {0} /\ now \in Nat
    BY <1>1, <2>1, IntervalPositive DEF IInv, Stages, Stage, TypeOK
  <2>3. pc'[c] = "flying" /\ \A d \in Calls \ {c} : pc'[d] = pc[d]
    BY <1>1, <2>1 DEF TypeOK
  <2>4. StepsNow(c)' < StepsNow(c)
    BY <2>1, <2>3 DEF StepsNow
  <2>5. ASSUME NEW d \in Calls \ {c} PROVE StepsNow(d)' <= StepsNow(d)
    <3>1. CASE pc[d] = "slot"
      <4>1. nextStart' # NULL /\ ~(nextStart' <= now)
        BY <2>1, <2>2, NullAssumption
      <4>2. ~SlotFree'
        BY <2>1, <4>1 DEF SlotFree
      <4> QED BY <2>1, <2>3, <3>1, <4>2 DEF StepsNow
    <3>2. CASE pc[d] # "slot"
      <4>0. pc[d] \in {"sleep", "line", "recheck", "out", "flying"} /\ pc'[d] = pc[d]
        BY <1>1, <2>3, <3>2 DEF TypeOK, Waiting
      <4>1. SlotReached(d)' <=> SlotReached(d)
        BY <2>1 DEF SlotReached
      <4>2. StepsNow(d)' = StepsNow(d)
        BY <4>0, <4>1 DEF StepsNow
      <4> QED BY <1>2, <4>2
    <3> QED BY <3>1, <3>2
  <2> QED BY <2>4, <2>5
<1>6. CASE GiveBack(c)
  <2>1. PICK p \in {"out", "slot"} :
           /\ pc[c] = "recheck" /\ pc' = [pc EXCEPT ![c] = p] /\ ~SlotFree
           /\ UNCHANGED <<now, nextStart, seen>>
    BY <1>6 DEF GiveBack
  <2>2. pc'[c] = p /\ ~SlotFree'
    BY <1>1, <2>1 DEF TypeOK, SlotFree
  <2>3. StepsNow(c)' < StepsNow(c)
    BY <2>1, <2>2 DEF StepsNow
  <2>4. \A d \in Calls \ {c} : StepsNow(d)' = StepsNow(d)
    BY <1>1, <2>1, OthersKeepSteps
  <2> QED BY <1>2, <2>3, <2>4
<1>7. CASE LockTimeout(c)
  <2>1. /\ pc[c] \in {"slot", "recheck"} /\ pc' = [pc EXCEPT ![c] = "out"]
        /\ UNCHANGED <<now, nextStart, seen>>
    BY <1>7 DEF LockTimeout
  <2>2. pc'[c] = "out"
    BY <1>1, <2>1 DEF TypeOK
  <2>3. StepsNow(c)' < StepsNow(c)
    BY <2>1, <2>2 DEF StepsNow
  <2>4. \A d \in Calls \ {c} : StepsNow(d)' = StepsNow(d)
    BY <1>1, <2>1, OthersKeepSteps
  <2> QED BY <1>2, <2>3, <2>4
<1> QED BY <1>3, <1>4, <1>5, <1>6, <1>7 DEF Proceed

(* The loop never spins: however many attempts compete for a slot, one that  *)
(* lost it takes a bounded number of steps until time passes, and no attempt *)
(* gives another one more to take.  With WaitBounded this is why every wait  *)
(* ends (EveryWaitEnds without its fairness).                                *)
THEOREM LoopDoesNotSpin == Spec => [][StepsRunOut]_vars
BY Invariance, StepsDecrease, PTL DEF Spec
=============================================================================
