----------------------- MODULE OutboxDispatcherProofs -----------------------
(***************************************************************************)
(* Theorems about OutboxDispatcher, for every number of rows, of ticks in  *)
(* progress and of crashes: its types, that an outcome is earned, that a   *)
(* settled row stays settled, and how many attempts a row can get.         *)
(***************************************************************************)
EXTENDS OutboxDispatcher, FiniteSetTheorems, TLAPS

\* What a tick holds in its variables was true and remains so: what it will
\* mark sent is published, what it will mark failed has used up its attempts.
TickInv ==
    \A t \in Ticks :
        /\ tick[t].sentIds \subseteq published
        /\ \A r \in tick[t].failedIds : attempts[r] >= MaxAttempts
        /\ \A r \in Rows : tick[t].read[r] <= attempts[r]

IInv == OutboxOK /\ TickInv /\ OutcomeEarned

\* Attempts never decrease, and the published rows stay published.
Grows ==
    /\ published \subseteq published'
    /\ \A r \in Rows : attempts[r] <= attempts'[r]

LEMMA NoTickTyped == NoTick \in TickRec
  BY OutboxAssumption DEF NoTick, TickRec

LEMMA TypesStep ==
    ASSUME OutboxOK, [NextOutbox]_outboxVars
    PROVE  OutboxOK'
<1> USE NoTickTyped, OutboxAssumption
<1>1. ASSUME NEW r \in Rows, Insert(r)
      PROVE  OutboxOK'
  BY <1>1 DEF Insert, OutboxOK, RowStatus
<1>2. ASSUME NEW t \in Ticks, Claim(t)
      PROVE  OutboxOK'
  <2>1. attempts' \in [Rows -> Nat]
    BY <1>2 DEF Claim, OutboxOK
  <2>2. [NoTick EXCEPT !.at = "publish", !.claimed = Oldest, !.read = attempts'] \in TickRec
    BY <2>1 DEF NoTick, TickRec, Oldest, Pending
  <2> QED
    BY <1>2, <2>1, <2>2 DEF Claim, OutboxOK
<1>3. ASSUME NEW t \in Ticks, NEW r \in Rows, PublishOk(t, r)
      PROVE  OutboxOK'
  <2>1. [tick[t] EXCEPT !.claimed = @ \ {r}, !.sentIds = @ \cup {r}] \in TickRec
    BY DEF OutboxOK, TickRec
  <2>2. tick' = [tick EXCEPT ![t] = [tick[t] EXCEPT !.claimed = @ \ {r}, !.sentIds = @ \cup {r}]]
    BY <1>3 DEF PublishOk
  <2>3. tick' \in [Ticks -> TickRec]
    BY <2>1, <2>2 DEF OutboxOK
  <2> QED
    BY <1>3, <2>3 DEF PublishOk, OutboxOK
<1>4. ASSUME NEW t \in Ticks, NEW r \in Rows, PublishFails(t, r)
      PROVE  OutboxOK'
  <2> DEFINE given == IF tick[t].read[r] >= MaxAttempts
                      THEN tick[t].failedIds \cup {r} ELSE tick[t].failedIds
  <2>1. tick[t] \in TickRec /\ given \subseteq Rows
    BY DEF OutboxOK, TickRec
  <2>2. tick' = [tick EXCEPT ![t] = [tick[t] EXCEPT !.claimed = @ \ {r}, !.failedIds = given]]
    BY <1>4 DEF PublishFails
  <2> HIDE DEF given
  <2>3. [tick[t] EXCEPT !.claimed = @ \ {r}, !.failedIds = given] \in TickRec
    BY <2>1 DEF TickRec
  <2>4. tick' \in [Ticks -> TickRec]
    BY <2>2, <2>3 DEF OutboxOK
  <2> QED
    BY <1>4, <2>4 DEF PublishFails, OutboxOK
<1>5. ASSUME NEW t \in Ticks, MarkSent(t)
      PROVE  OutboxOK'
  <2>1. tick' \in [Ticks -> TickRec]
    BY <1>5 DEF MarkSent, OutboxOK, TickRec
  <2>2. status' \in [Rows -> RowStatus]
    BY <1>5 DEF MarkSent, Mark, OutboxOK, RowStatus
  <2> QED
    BY <1>5, <2>1, <2>2 DEF MarkSent, OutboxOK
<1>6. ASSUME NEW t \in Ticks, MarkFailed(t)
      PROVE  OutboxOK'
  <2>1. tick' \in [Ticks -> TickRec]
    BY <1>6 DEF MarkFailed, OutboxOK
  <2>2. status' \in [Rows -> RowStatus]
    BY <1>6 DEF MarkFailed, Mark, OutboxOK, RowStatus
  <2> QED
    BY <1>6, <2>1, <2>2 DEF MarkFailed, OutboxOK
<1>7. ASSUME NEW t \in Ticks, UpdateThrows(t)
      PROVE  OutboxOK'
  BY <1>7 DEF UpdateThrows, OutboxOK
<1>8. CASE WorkerDies
  BY <1>8 DEF WorkerDies, OutboxOK
<1>9. CASE UNCHANGED outboxVars
  BY <1>9 DEF outboxVars, OutboxOK
<1> QED
  BY <1>1, <1>2, <1>3, <1>4, <1>5, <1>6, <1>7, <1>8, <1>9 DEF NextOutbox, Continue

LEMMA GrowsStep ==
    ASSUME OutboxOK, [NextOutbox]_outboxVars
    PROVE  Grows
<1>1. ASSUME NEW t \in Ticks, Claim(t)
      PROVE  Grows
  BY <1>1 DEF Claim, OutboxOK, Grows
<1>2. ASSUME UNCHANGED attempts, published \subseteq published'
      PROVE  Grows
  BY <1>2 DEF OutboxOK, Grows
<1>3. ASSUME NEW t \in Ticks, NEW r \in Rows, PublishOk(t, r) \/ PublishFails(t, r)
      PROVE  Grows
  BY <1>2, <1>3 DEF PublishOk, PublishFails
<1>4. CASE \/ \E r \in Rows : Insert(r)
           \/ \E t \in Ticks : MarkSent(t) \/ MarkFailed(t) \/ UpdateThrows(t)
           \/ WorkerDies \/ UNCHANGED outboxVars
  BY <1>2, <1>4 DEF Insert, MarkSent, MarkFailed, UpdateThrows, WorkerDies, outboxVars
<1> QED
  BY <1>1, <1>3, <1>4 DEF NextOutbox, Continue

LEMMA TicksStep ==
    ASSUME IInv, [NextOutbox]_outboxVars
    PROVE  TickInv'
<1> USE OutboxAssumption
<1>1. Grows /\ OutboxOK /\ OutboxOK'
  BY GrowsStep, TypesStep DEF IInv
\* A tick that does not move, or that ends, keeps its part of TickInv.
<1>2. ASSUME NEW t \in Ticks, tick'[t] = tick[t] \/ tick'[t] = NoTick
      PROVE  /\ tick'[t].sentIds \subseteq published'
             /\ \A r \in tick'[t].failedIds : attempts'[r] >= MaxAttempts
             /\ \A r \in Rows : tick'[t].read[r] <= attempts'[r]
  <2>1. CASE tick'[t] = NoTick
    BY <1>1, <2>1 DEF NoTick, OutboxOK
  <2>2. CASE tick'[t] = tick[t]
    <3>1. tick[t] \in TickRec
      BY <1>1 DEF OutboxOK
    <3>2. tick'[t].sentIds \subseteq published'
      BY <1>1, <2>2 DEF Grows, IInv, TickInv
    <3>3. ASSUME NEW r \in tick'[t].failedIds
          PROVE  attempts'[r] >= MaxAttempts
      <4>1. r \in Rows /\ attempts[r] >= MaxAttempts
        BY <2>2, <3>1, <3>3 DEF TickRec, IInv, TickInv
      <4>2. attempts[r] \in Nat /\ attempts'[r] \in Nat /\ attempts[r] <= attempts'[r]
        BY <1>1, <4>1 DEF OutboxOK, Grows
      <4> QED
        BY <4>1, <4>2
    <3>4. ASSUME NEW r \in Rows
          PROVE  tick'[t].read[r] <= attempts'[r]
      <4>1. tick[t].read[r] \in Nat /\ tick[t].read[r] <= attempts[r]
        BY <3>1 DEF TickRec, IInv, TickInv
      <4>2. attempts[r] \in Nat /\ attempts'[r] \in Nat /\ attempts[r] <= attempts'[r]
        BY <1>1 DEF OutboxOK, Grows
      <4> QED
        BY <2>2, <4>1, <4>2
    <3> QED
      BY <3>2, <3>3, <3>4
  <2> QED
    BY <1>2, <2>1, <2>2
\* So does one that publishes.
<1>3. ASSUME NEW t \in Ticks,
             \/ Claim(t)
             \/ \E r \in Rows : PublishOk(t, r) \/ PublishFails(t, r)
             \/ MarkSent(t)
      PROVE  /\ tick'[t].sentIds \subseteq published'
             /\ \A r \in tick'[t].failedIds : attempts'[r] >= MaxAttempts
             /\ \A r \in Rows : tick'[t].read[r] <= attempts'[r]
             /\ \A u \in Ticks \ {t} : tick'[u] = tick[u]
  <2>0. /\ tick[t] \in TickRec
        /\ tick[t].sentIds \subseteq published
        /\ \A r \in tick[t].failedIds : r \in Rows /\ attempts[r] >= MaxAttempts
        /\ \A r \in Rows : tick[t].read[r] <= attempts[r]
    BY <1>1 DEF IInv, TickInv, OutboxOK, TickRec
  <2>1. CASE Claim(t)
    BY <1>1, <2>1 DEF Claim, NoTick, OutboxOK
  <2>2. ASSUME NEW r \in Rows, PublishOk(t, r)
        PROVE  /\ tick'[t].sentIds \subseteq published'
               /\ \A q \in tick'[t].failedIds : attempts'[q] >= MaxAttempts
               /\ \A q \in Rows : tick'[t].read[q] <= attempts'[q]
               /\ \A u \in Ticks \ {t} : tick'[u] = tick[u]
    BY <1>1, <2>0, <2>2 DEF PublishOk, OutboxOK, TickRec
  <2>3. ASSUME NEW r \in Rows, PublishFails(t, r)
        PROVE  /\ tick'[t].sentIds \subseteq published'
               /\ \A q \in tick'[t].failedIds : attempts'[q] >= MaxAttempts
               /\ \A q \in Rows : tick'[t].read[q] <= attempts'[q]
               /\ \A u \in Ticks \ {t} : tick'[u] = tick[u]
    <3>1. /\ attempts' = attempts /\ published \subseteq published'
          /\ tick' = [tick EXCEPT ![t].claimed = @ \ {r},
                                  ![t].failedIds = IF tick[t].read[r] >= MaxAttempts
                                                   THEN @ \cup {r} ELSE @]
      BY <2>3 DEF PublishFails
    <3>2. /\ tick'[t].sentIds = tick[t].sentIds /\ tick'[t].read = tick[t].read
          /\ tick'[t].failedIds = IF tick[t].read[r] >= MaxAttempts
                                  THEN tick[t].failedIds \cup {r} ELSE tick[t].failedIds
          /\ \A u \in Ticks \ {t} : tick'[u] = tick[u]
      BY <1>1, <2>0, <3>1 DEF OutboxOK, TickRec
    <3>3. ASSUME NEW q \in tick'[t].failedIds
          PROVE  attempts'[q] >= MaxAttempts
      <4>1. CASE q \in tick[t].failedIds
        BY <2>0, <3>1, <4>1
      <4>2. CASE q \notin tick[t].failedIds
        <5>1. q = r /\ tick[t].read[r] >= MaxAttempts
          BY <3>2, <3>3, <4>2
        <5>2. /\ tick[t].read[r] \in Nat /\ attempts[r] \in Nat
              /\ tick[t].read[r] <= attempts[r]
          BY <1>1, <2>0 DEF OutboxOK, TickRec
        <5> QED
          BY <3>1, <5>1, <5>2
      <4> QED
        BY <4>1, <4>2
    <3>4. tick'[t].sentIds \subseteq published'
      BY <2>0, <3>1, <3>2
    <3>5. \A q \in Rows : tick'[t].read[q] <= attempts'[q]
      BY <2>0, <3>1, <3>2
    <3> QED
      BY <3>2, <3>3, <3>4, <3>5
  <2>4. CASE MarkSent(t)
    BY <1>1, <2>0, <2>4 DEF MarkSent, OutboxOK, TickRec
  <2> QED
    BY <1>3, <2>1, <2>2, <2>3, <2>4
<1>4. ASSUME NEW t \in Ticks,
             \/ Claim(t)
             \/ \E r \in Rows : PublishOk(t, r) \/ PublishFails(t, r)
             \/ MarkSent(t)
      PROVE  TickInv'
  BY <1>2, <1>3, <1>4 DEF TickInv
<1>5. ASSUME \A t \in Ticks : tick'[t] = tick[t] \/ tick'[t] = NoTick
      PROVE  TickInv'
  BY <1>2, <1>5 DEF TickInv
<1>6. CASE \/ \E r \in Rows : Insert(r)
           \/ \E t \in Ticks : MarkFailed(t) \/ UpdateThrows(t)
           \/ WorkerDies \/ UNCHANGED outboxVars
  BY <1>1, <1>5, <1>6 DEF Insert, MarkFailed, UpdateThrows, WorkerDies, outboxVars, OutboxOK
<1> QED
  BY <1>4, <1>6 DEF NextOutbox, Continue

LEMMA OutcomeStep ==
    ASSUME IInv, [NextOutbox]_outboxVars
    PROVE  OutcomeEarned'
<1>1. Grows /\ OutboxOK /\ OutboxOK'
  BY GrowsStep, TypesStep DEF IInv
<1>2. ASSUME \A r \in Rows : status'[r] = status[r] \/ status'[r] = "pending"
      PROVE  OutcomeEarned'
  <2> SUFFICES ASSUME NEW r \in Rows
               PROVE  /\ status'[r] = "sent" => r \in published'
                      /\ status'[r] = "failed" => attempts'[r] >= MaxAttempts
    BY DEF OutcomeEarned
  <2>1. /\ attempts[r] \in Nat /\ attempts'[r] \in Nat /\ attempts[r] <= attempts'[r]
        /\ published \subseteq published' /\ MaxAttempts \in Nat
    BY <1>1, OutboxAssumption DEF OutboxOK, Grows
  <2>2. /\ status[r] = "sent" => r \in published
        /\ status[r] = "failed" => attempts[r] >= MaxAttempts
    BY DEF IInv, OutcomeEarned
  <2>3. status'[r] = status[r] \/ status'[r] = "pending"
    BY <1>2
  <2> QED
    BY <2>1, <2>2, <2>3
<1>3. ASSUME NEW t \in Ticks, MarkSent(t)
      PROVE  OutcomeEarned'
  <2>1. tick[t].sentIds \subseteq published /\ UNCHANGED <<attempts, published>>
    BY <1>3 DEF MarkSent, IInv, TickInv
  <2> QED
    BY <1>1, <1>3, <2>1 DEF MarkSent, Mark, IInv, OutcomeEarned
<1>4. ASSUME NEW t \in Ticks, MarkFailed(t)
      PROVE  OutcomeEarned'
  <2>1. /\ \A r \in tick[t].failedIds : attempts[r] >= MaxAttempts
        /\ UNCHANGED <<attempts, published>>
    BY <1>4 DEF MarkFailed, IInv, TickInv
  <2> QED
    BY <1>1, <1>4, <2>1 DEF MarkFailed, Mark, IInv, OutcomeEarned
<1>5. CASE \/ \E r \in Rows : Insert(r)
           \/ \E t \in Ticks : Claim(t) \/ UpdateThrows(t)
           \/ \E t \in Ticks, r \in Rows : PublishOk(t, r) \/ PublishFails(t, r)
           \/ WorkerDies \/ UNCHANGED outboxVars
  BY <1>1, <1>2, <1>5 DEF Insert, Claim, UpdateThrows, PublishOk, PublishFails, WorkerDies,
                          outboxVars, OutboxOK
<1> QED
  BY <1>3, <1>4, <1>5 DEF NextOutbox, Continue

-----------------------------------------------------------------------------
(* Theorems *)

THEOREM Inductive == SpecOutbox => []IInv
<1>1. InitOutbox => IInv
  <2> SUFFICES ASSUME InitOutbox PROVE IInv
    OBVIOUS
  <2>1. OutboxOK
    BY NoTickTyped, OutboxAssumption DEF InitOutbox, OutboxOK, RowStatus
  <2>2. TickInv
    BY OutboxAssumption DEF InitOutbox, TickInv, NoTick
  <2> QED
    BY <2>1, <2>2 DEF InitOutbox, IInv, OutcomeEarned
<1>2. IInv /\ [NextOutbox]_outboxVars => IInv'
  BY TypesStep, TicksStep, OutcomeStep DEF IInv
<1> QED
  BY <1>1, <1>2, PTL DEF SpecOutbox

\* The variables keep their types.
THEOREM TypeCorrect == SpecOutbox => []OutboxOK
<1>1. IInv => OutboxOK
  BY DEF IInv
<1> QED
  BY <1>1, Inductive, PTL

(***************************************************************************)
(* However ticks overlap and crash, a sent row was published and a failed  *)
(* one has used up its attempts (outbox.dispatcher.ts:44-66).              *)
(***************************************************************************)
THEOREM OutcomesAreEarned == SpecOutbox => []OutcomeEarned
<1>1. IInv => OutcomeEarned
  BY DEF IInv
<1> QED
  BY <1>1, Inductive, PTL

(***************************************************************************)
(* No claim takes up a row that was sent or failed (outbox.dispatcher.ts:  *)
(* 27-34), and no tick that is late makes it pending again.                *)
(***************************************************************************)
THEOREM SettledRowsStaySettled == SpecOutbox => SettledStaysSettled
<1> DEFINE Stays == \A r \in Rows : status[r] \in {"sent", "failed"} =>
                        status'[r] \in {"sent", "failed"} /\ attempts'[r] = attempts[r]
<1>1. OutboxOK /\ [NextOutbox]_outboxVars => [Stays]_outboxVars
  <2> SUFFICES ASSUME OutboxOK, NextOutbox PROVE Stays
    OBVIOUS
  <2>1. ASSUME NEW r \in Rows, Insert(r)
        PROVE  Stays
    BY <2>1 DEF Insert, OutboxOK
  <2>2. ASSUME NEW t \in Ticks, Claim(t)
        PROVE  Stays
    BY <2>2 DEF Claim, Oldest, Pending, OutboxOK
  <2>3. ASSUME NEW t \in Ticks, MarkSent(t) \/ MarkFailed(t)
        PROVE  Stays
    BY <2>3 DEF MarkSent, MarkFailed, Mark, OutboxOK
  <2>4. CASE \/ \E t \in Ticks : UpdateThrows(t)
             \/ \E t \in Ticks, r \in Rows : PublishOk(t, r) \/ PublishFails(t, r)
             \/ WorkerDies
    BY <2>4 DEF UpdateThrows, PublishOk, PublishFails, WorkerDies
  <2> QED
    BY <2>1, <2>2, <2>3, <2>4 DEF NextOutbox, Continue
<1> QED
  BY <1>1, TypeCorrect, PTL DEF SpecOutbox, SettledStaysSettled

-----------------------------------------------------------------------------
(* Attempts past the cap *)

\* The ticks that have claimed r for its last attempt, or for one past it, and have
\* yet to mark it.
Late(r) ==
    {t \in Ticks :
        /\ tick[t].read[r] >= MaxAttempts
        /\ \/ /\ tick[t].at = "publish"
              /\ r \in tick[t].claimed \cup tick[t].sentIds \cup tick[t].failedIds
           \/ tick[t].at = "failed" /\ r \in tick[t].failedIds}

\* Every attempt of a pending row from the last one on is one of a tick that is late,
\* or of one that was lost: a crash loses no more than all of them.
LateCounted ==
    \A r \in Rows :
        /\ status[r] = "absent" => attempts[r] = 0
        /\ status[r] = "pending" /\ attempts[r] >= MaxAttempts =>
              attempts[r] < MaxAttempts + Cardinality(Late(r)) + Cardinality(Ticks) * crashes

BoundInv == OutboxOK /\ LateCounted /\ AttemptsBounded

LEMMA ProductGrows ==
    ASSUME NEW n \in Nat, NEW a \in Nat, NEW b \in Nat, a <= b
    PROVE  /\ n * a \in Nat /\ n * b \in Nat /\ n * (1 + a) \in Nat
           /\ n * (1 + b) = n * b + n /\ n * (b + 1) = n * b + n
           /\ n * (1 + a) <= n * (1 + b)
<1>1. \A c \in Nat : n * c \in Nat /\ n * (1 + c) = n * c + n /\ n * (c + 1) = n * c + n
  OBVIOUS
<1>2. n * ((1 + a) + (b - a)) = n * (1 + a) + n * (b - a) /\ (1 + a) + (b - a) = 1 + b
  OBVIOUS
<1>3. b - a \in Nat /\ 1 + a \in Nat
  OBVIOUS
<1>4. n * (b - a) \in Nat
  BY <1>1, <1>3
<1> QED
  BY <1>1, <1>2, <1>3, <1>4

LEMMA LateTyped ==
    ASSUME NEW r
    PROVE  /\ Cardinality(Late(r)) \in Nat /\ Cardinality(Late(r)) <= Cardinality(Ticks)
           /\ Cardinality(Ticks) \in Nat
           /\ \A S \in SUBSET Late(r) : Cardinality(S) \in Nat
                                      /\ Cardinality(S) <= Cardinality(Late(r))
           /\ \A t \in Ticks \ Late(r) :
                 Cardinality(Late(r) \cup {t}) = Cardinality(Late(r)) + 1
<1>1. IsFiniteSet(Ticks) /\ Late(r) \in SUBSET Ticks
  BY OutboxAssumption DEF Late
<1>2. /\ IsFiniteSet(Late(r)) /\ Cardinality(Late(r)) <= Cardinality(Ticks)
      /\ Cardinality(Late(r)) \in Nat /\ Cardinality(Ticks) \in Nat
  BY <1>1, FS_Subset, FS_CardinalityType
<1>3. \A S \in SUBSET Late(r) : Cardinality(S) \in Nat /\ Cardinality(S) <= Cardinality(Late(r))
  BY <1>2, FS_Subset, FS_CardinalityType
<1>4. \A t \in Ticks \ Late(r) : Cardinality(Late(r) \cup {t}) = Cardinality(Late(r)) + 1
  BY <1>2, FS_AddElement
<1> QED
  BY <1>2, <1>3, <1>4

\* As many are late as before, or more, and no attempt was made.
LEMMA LateStay ==
    ASSUME BoundInv, OutboxOK', NEW r \in Rows, attempts'[r] = attempts[r], crashes' = crashes,
           status'[r] \in {"absent", "pending"} => status[r] = status'[r],
           status'[r] = "pending" => Late(r) \subseteq Late(r)'
    PROVE  /\ status'[r] = "absent" => attempts'[r] = 0
           /\ status'[r] = "pending" /\ attempts'[r] >= MaxAttempts =>
                 attempts'[r] < MaxAttempts + Cardinality(Late(r)') + Cardinality(Ticks) * crashes'
<1>1. CASE status'[r] = "pending" /\ attempts'[r] >= MaxAttempts
  <2>1. IsFiniteSet(Late(r)') /\ Late(r) \in SUBSET (Late(r)')
    <3>1. Late(r)' \in SUBSET Ticks
      BY DEF Late
    <3> QED
      BY <1>1, <3>1, OutboxAssumption, FS_Subset
  <2>2. /\ Cardinality(Late(r)) <= Cardinality(Late(r)')
        /\ Cardinality(Late(r)) \in Nat /\ Cardinality(Late(r)') \in Nat
    BY <2>1, FS_Subset, FS_CardinalityType
  <2>3. attempts[r] < MaxAttempts + Cardinality(Late(r)) + Cardinality(Ticks) * crashes
    BY <1>1 DEF BoundInv, LateCounted
  <2>4. PICK lost \in Nat : lost = Cardinality(Ticks) * crashes
    <3>1. Cardinality(Ticks) \in Nat /\ crashes \in Nat
      BY LateTyped DEF BoundInv, OutboxOK
    <3> QED
      BY <3>1
  <2>5. attempts[r] \in Nat /\ MaxAttempts \in Nat
    BY OutboxAssumption DEF BoundInv, OutboxOK
  <2>6. attempts[r] < MaxAttempts + Cardinality(Late(r)') + lost
    BY <2>2, <2>3, <2>4, <2>5
  <2> QED
    BY <1>1, <2>4, <2>6
<1>2. CASE status'[r] = "absent"
  BY <1>2 DEF BoundInv, LateCounted
<1> QED
  BY <1>1, <1>2

\* A claim makes one attempt, and one tick more is late if that is the last or past it.
LEMMA ClaimCounts ==
    ASSUME BoundInv, OutboxOK', NEW t \in Ticks, Claim(t), NEW r \in Rows
    PROVE  /\ status'[r] = "absent" => attempts'[r] = 0
           /\ status'[r] = "pending" /\ attempts'[r] >= MaxAttempts =>
                 attempts'[r] < MaxAttempts + Cardinality(Late(r)') + Cardinality(Ticks) * crashes'
<1>1. /\ tick[t].at = "idle" /\ UNCHANGED <<status, crashes>>
      /\ attempts' = [q \in Rows |-> IF q \in Oldest THEN attempts[q] + 1 ELSE attempts[q]]
      /\ tick' = [tick EXCEPT ![t] = [NoTick EXCEPT !.at = "publish", !.claimed = Oldest,
                                                    !.read = attempts']]
  BY DEF Claim
<1>2. tick \in [Ticks -> TickRec] /\ attempts \in [Rows -> Nat] /\ MaxAttempts \in Nat \ {0}
  BY OutboxAssumption DEF BoundInv, OutboxOK
<1>3. t \notin Late(r) /\ \A u \in Ticks \ {t} : tick'[u] = tick[u]
  BY <1>1, <1>2 DEF Late
<1>4. Late(r) \subseteq Late(r)'
  BY <1>3 DEF Late
<1>5. CASE r \notin Oldest
  BY <1>1, <1>2, <1>4, <1>5, LateStay
<1>6. CASE r \in Oldest
  <2>1. status[r] = "pending" /\ attempts'[r] = attempts[r] + 1 /\ attempts[r] \in Nat
    BY <1>1, <1>2, <1>6 DEF Oldest, Pending
  <2>2. SUFFICES ASSUME attempts[r] + 1 >= MaxAttempts
                 PROVE  attempts[r] + 1 < MaxAttempts + Cardinality(Late(r)')
                                            + Cardinality(Ticks) * crashes
    BY <1>1, <2>1
  <2>3. Late(r)' = Late(r) \cup {t}
    <3>1. /\ tick'[t].at = "publish" /\ tick'[t].claimed = Oldest
          /\ tick'[t].read[r] = attempts[r] + 1
      BY <1>1, <1>2, <2>1 DEF NoTick, TickRec
    <3>2. t \in Late(r)'
      BY <1>6, <2>2, <3>1 DEF Late
    <3> QED
      BY <1>3, <3>2 DEF Late
  <2>4. /\ Cardinality(Late(r)') = Cardinality(Late(r)) + 1
        /\ Cardinality(Late(r)) \in Nat
    BY <1>3, <2>3, LateTyped
  <2>5. PICK lost \in Nat : lost = Cardinality(Ticks) * crashes
    <3>1. Cardinality(Ticks) \in Nat /\ crashes \in Nat
      BY LateTyped DEF BoundInv, OutboxOK
    <3> QED
      BY <3>1
  <2>6. attempts[r] >= MaxAttempts => attempts[r] < MaxAttempts + Cardinality(Late(r)) + lost
    BY <2>1, <2>5 DEF BoundInv, LateCounted
  <2>7. attempts[r] + 1 < MaxAttempts + (Cardinality(Late(r)) + 1) + lost
    BY <1>2, <2>1, <2>4, <2>5, <2>6
  <2> QED
    BY <2>4, <2>5, <2>7
<1> QED
  BY <1>5, <1>6

\* A tick that publishes, or marks what it sent, stays late for what is still pending.
LEMMA PublishStays ==
    ASSUME BoundInv, NEW t \in Ticks,
           \/ \E q \in Rows : PublishOk(t, q) \/ PublishFails(t, q)
           \/ MarkSent(t) \/ MarkFailed(t),
           NEW r \in Rows, status'[r] = "pending"
    PROVE  Late(r) \subseteq Late(r)'
<1>1. tick \in [Ticks -> TickRec] /\ tick[t] \in TickRec
  BY DEF BoundInv, OutboxOK
<1> SUFFICES ASSUME t \in Late(r)
             PROVE  t \in Late(r)'
  BY <1>1 DEF Late, PublishOk, PublishFails, MarkSent, MarkFailed
<1>2. /\ tick[t].read[r] >= MaxAttempts
      /\ \/ /\ tick[t].at = "publish"
            /\ r \in tick[t].claimed \cup tick[t].sentIds \cup tick[t].failedIds
         \/ tick[t].at = "failed" /\ r \in tick[t].failedIds
  BY DEF Late
<1>3. ASSUME NEW q \in Rows, PublishOk(t, q)
      PROVE  t \in Late(r)'
  <2>1. /\ tick'[t].at = tick[t].at /\ tick'[t].read = tick[t].read
        /\ tick'[t].claimed = tick[t].claimed \ {q}
        /\ tick'[t].sentIds = tick[t].sentIds \cup {q}
        /\ tick'[t].failedIds = tick[t].failedIds
    BY <1>1, <1>3 DEF PublishOk, TickRec
  <2>2. tick[t].at = "publish"
    BY <1>3 DEF PublishOk
  <2> QED
    BY <1>2, <2>1, <2>2 DEF Late
<1>4. ASSUME NEW q \in Rows, PublishFails(t, q)
      PROVE  t \in Late(r)'
  <2>1. /\ tick'[t].at = tick[t].at /\ tick'[t].read = tick[t].read
        /\ tick'[t].claimed = tick[t].claimed \ {q}
        /\ tick'[t].sentIds = tick[t].sentIds
        /\ tick'[t].failedIds = IF tick[t].read[q] >= MaxAttempts
                                THEN tick[t].failedIds \cup {q} ELSE tick[t].failedIds
    BY <1>1, <1>4 DEF PublishFails, TickRec
  <2>2. tick[t].at = "publish"
    BY <1>4 DEF PublishFails
  <2>3. CASE r = q
    BY <1>2, <2>1, <2>2, <2>3 DEF Late
  <2>4. CASE r # q
    <3>1. tick[t].failedIds \subseteq tick'[t].failedIds
      BY <2>1
    <3> QED
      BY <1>2, <2>1, <2>2, <2>4, <3>1 DEF Late
  <2> QED
    BY <2>3, <2>4
<1>5. CASE MarkSent(t)
  <2>1. /\ tick[t].at = "publish" /\ tick[t].claimed = {} /\ r \notin tick[t].sentIds
    BY <1>5 DEF MarkSent, Mark
  <2>2. /\ tick'[t].at = "failed" /\ tick'[t].read = tick[t].read
        /\ tick'[t].failedIds = tick[t].failedIds
    BY <1>1, <1>5 DEF MarkSent, TickRec
  <2> QED
    BY <1>2, <2>1, <2>2 DEF Late
<1>6. CASE MarkFailed(t)
  BY <1>2, <1>6 DEF MarkFailed, Mark
<1> QED
  BY <1>3, <1>4, <1>5, <1>6

\* A crash loses no more ticks than there are.
LEMMA CrashCounts ==
    ASSUME BoundInv, OutboxOK', crashes' = crashes + 1, UNCHANGED <<status, attempts>>
    PROVE  LateCounted'
<1> SUFFICES ASSUME NEW r \in Rows
             PROVE  /\ status[r] = "absent" => attempts[r] = 0
                    /\ status[r] = "pending" /\ attempts[r] >= MaxAttempts =>
                          attempts[r] < MaxAttempts + Cardinality(Late(r)')
                                          + Cardinality(Ticks) * (crashes + 1)
  BY DEF LateCounted
<1>1. PICK n \in Nat : n = Cardinality(Ticks)
  BY LateTyped
<1>2. /\ crashes \in Nat /\ attempts[r] \in Nat /\ MaxAttempts \in Nat
      /\ Cardinality(Late(r)) \in Nat /\ Cardinality(Late(r)) <= n
  BY <1>1, OutboxAssumption, LateTyped DEF BoundInv, OutboxOK
<1>3. Cardinality(Late(r)') \in Nat
  <2>1. Late(r)' \in SUBSET Ticks
    BY DEF Late
  <2> QED
    BY <2>1, OutboxAssumption, FS_Subset, FS_CardinalityType
<1>4. n * (crashes + 1) = n * crashes + n /\ n * crashes \in Nat
  BY <1>2, ProductGrows
<1>5. /\ status[r] = "absent" => attempts[r] = 0
      /\ status[r] = "pending" /\ attempts[r] >= MaxAttempts =>
            attempts[r] < MaxAttempts + Cardinality(Late(r)) + n * crashes
  BY <1>1 DEF BoundInv, LateCounted
<1> QED
  BY <1>1, <1>2, <1>3, <1>4, <1>5

LEMMA LateCountedStep ==
    ASSUME BoundInv, [NextOutbox]_outboxVars
    PROVE  LateCounted'
<1>1. OutboxOK'
  BY TypesStep DEF BoundInv
<1>2. ASSUME NEW q \in Rows, Insert(q)
      PROVE  LateCounted'
  <2>1. /\ status[q] = "absent" /\ status' = [status EXCEPT ![q] = "pending"]
        /\ UNCHANGED <<attempts, tick, published, crashes>>
    BY <1>2 DEF Insert
  <2>2. attempts'[q] = 0 /\ MaxAttempts \in Nat \ {0}
    BY <2>1, OutboxAssumption DEF BoundInv, LateCounted
  <2>3. \A r \in Rows \ {q} : status'[r] = status[r]
    BY <2>1 DEF BoundInv, OutboxOK
  <2>4. \A r : Late(r)' = Late(r)
    BY <2>1 DEF Late
  <2>5. status'[q] = "pending"
    BY <2>1 DEF BoundInv, OutboxOK
  <2> QED
    BY <2>1, <2>2, <2>3, <2>4, <2>5 DEF BoundInv, LateCounted
<1>3. ASSUME NEW t \in Ticks, Claim(t)
      PROVE  LateCounted'
  BY <1>1, <1>3, ClaimCounts DEF LateCounted
<1>4. ASSUME NEW t \in Ticks, Continue(t)
      PROVE  LateCounted'
  <2>1. /\ UNCHANGED <<attempts, crashes>>
        /\ \A r \in Rows : status'[r] \in {"absent", "pending"} => status[r] = status'[r]
    BY <1>4 DEF Continue, PublishOk, PublishFails, MarkSent, MarkFailed, Mark
  <2>2. \A r \in Rows : status'[r] = "pending" => Late(r) \subseteq Late(r)'
    BY <1>4, PublishStays DEF Continue
  <2> QED
    BY <1>1, <2>1, <2>2, LateStay DEF LateCounted
<1>5. CASE WorkerDies \/ \E t \in Ticks : UpdateThrows(t)
  BY <1>1, <1>5, CrashCounts DEF WorkerDies, UpdateThrows
<1>6. CASE UNCHANGED outboxVars
  BY <1>6 DEF outboxVars, BoundInv, LateCounted, Late
<1> QED
  BY <1>2, <1>3, <1>4, <1>5, <1>6 DEF NextOutbox

\* Of a pending row, because it is counted; a settled row gets no more.
LEMMA AttemptsStep ==
    ASSUME BoundInv, [NextOutbox]_outboxVars
    PROVE  AttemptsBounded'
<1>1. LateCounted' /\ OutboxOK'
  BY LateCountedStep, TypesStep DEF BoundInv
<1> SUFFICES ASSUME NEW r \in Rows
             PROVE  attempts'[r] < MaxAttempts + Cardinality(Ticks) * (1 + crashes')
  BY DEF AttemptsBounded
<1>2. PICK n \in Nat : n = Cardinality(Ticks)
  BY LateTyped
<1>3. /\ crashes \in Nat /\ crashes' \in Nat /\ crashes <= crashes' /\ MaxAttempts \in Nat \ {0}
      /\ attempts[r] \in Nat /\ attempts'[r] \in Nat
  <2>1. crashes' = crashes \/ crashes' = crashes + 1
    BY DEF NextOutbox, Insert, Claim, Continue, PublishOk, PublishFails, MarkSent, MarkFailed,
           UpdateThrows, WorkerDies, outboxVars
  <2>2. crashes \in Nat /\ attempts[r] \in Nat /\ attempts'[r] \in Nat
    BY <1>1 DEF BoundInv, OutboxOK
  <2> QED
    BY <2>1, <2>2, OutboxAssumption
<1>4. n * (1 + crashes') = n * crashes' + n /\ n * crashes' \in Nat
      /\ n * (1 + crashes) \in Nat /\ n * (1 + crashes) <= n * (1 + crashes')
  BY <1>3, ProductGrows
<1>5. CASE attempts'[r] = attempts[r]
  <2>1. attempts[r] < MaxAttempts + n * (1 + crashes)
    BY <1>2 DEF BoundInv, AttemptsBounded
  <2> QED
    BY <1>2, <1>3, <1>4, <1>5, <2>1
<1>6. CASE attempts'[r] # attempts[r]
  <2>1. status'[r] = "pending"
    BY <1>6 DEF NextOutbox, Insert, Claim, Oldest, Pending, Continue, PublishOk, PublishFails,
       MarkSent, MarkFailed, UpdateThrows, WorkerDies, outboxVars, BoundInv, OutboxOK
  <2>2. Cardinality(Late(r)') \in Nat /\ Cardinality(Late(r)') <= n
    <3>1. Late(r)' \in SUBSET Ticks
      BY DEF Late
    <3> QED
      BY <1>2, <3>1, OutboxAssumption, FS_Subset, FS_CardinalityType
  <2>3. attempts'[r] >= MaxAttempts =>
           attempts'[r] < MaxAttempts + Cardinality(Late(r)') + n * crashes'
    BY <1>1, <1>2, <2>1 DEF LateCounted
  <2> QED
    BY <1>2, <1>3, <1>4, <2>2, <2>3
<1> QED
  BY <1>5, <1>6

(***************************************************************************)
(* "Retries with attempts cap" (outbox.dispatcher.ts:8-10): for every      *)
(* number of ticks that overlap and of crashes, a row is attempted at most *)
(* that many times past the cap.                                           *)
(***************************************************************************)
THEOREM AttemptsAreBounded == SpecOutbox => []AttemptsBounded
<1>1. InitOutbox => BoundInv
  <2> SUFFICES ASSUME InitOutbox PROVE BoundInv
    OBVIOUS
  <2>1. OutboxOK
    BY NoTickTyped, OutboxAssumption DEF InitOutbox, OutboxOK, RowStatus
  <2>2. \A r \in Rows : attempts[r] = 0 /\ status[r] = "absent"
    BY DEF InitOutbox
  <2>3. Cardinality(Ticks) * (1 + crashes) \in Nat /\ MaxAttempts \in Nat \ {0}
    <3>1. Cardinality(Ticks) \in Nat /\ crashes = 0
      BY LateTyped DEF InitOutbox
    <3> QED
      BY <3>1, OutboxAssumption
  <2> QED
    BY <2>1, <2>2, <2>3 DEF BoundInv, LateCounted, AttemptsBounded
<1>2. BoundInv /\ [NextOutbox]_outboxVars => BoundInv'
  BY TypesStep, LateCountedStep, AttemptsStep DEF BoundInv
<1>3. BoundInv => AttemptsBounded
  BY DEF BoundInv
<1> QED
  BY <1>1, <1>2, <1>3, PTL DEF SpecOutbox
=============================================================================
