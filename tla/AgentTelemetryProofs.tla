------------------------ MODULE AgentTelemetryProofs ------------------------
(***************************************************************************)
(* Theorems about AgentTelemetry, for every value of its constants: its    *)
(* type invariant, the drop-oldest order of the buffer, and, as long as    *)
(* the agent does not crash and its saves work, that a sequence names one  *)
(* payload and that no payload vanishes; that Trim leaves what Enqueue's   *)
(* loop leaves; and that the agent implements AgentBacklog.                *)
(*                                                                         *)
(* The invariant does not depend on what makes a buffer fit its limits:    *)
(* Trim is only known to keep a suffix (TrimKeepsASuffix), so the first    *)
(* theorems hold for any estimate of a batch's size and for any number of  *)
(* batches a request takes.  AgentBacklog counts batches, so the           *)
(* refinement needs them to have one size (OneSize).                       *)
(***************************************************************************)
EXTENDS AgentTelemetry, FiniteSetTheorems, WellFoundedInduction, TLAPS

-----------------------------------------------------------------------------
(* The inductive invariant *)

\* The types, and what keeps attempt and restarts within their bounds.
TypeInv ==
    /\ TypeOK
    /\ pc = "wait" => attempt < MaxAttempts
    /\ pc = "persist" => stopping
    /\ stopping \/ pc = "down" => restarts < MaxRestarts

\* The items of S are numbered in the order their payloads were collected.
Ordered(S) ==
    \A i, j \in S : (i.seq < j.seq => i.datum < j.datum) /\ (i.seq = j.seq => i = j)

\* The buffer's items are older than the next one, and in order.
BufferInv ==
    /\ \A i \in items : i.seq < nextSeq /\ i.datum <= born
    /\ Ordered(items)
    /\ \A d \in dropped : d <= born
    /\ pc = "down" => items = {}
    /\ DropOldest

\* The sequence on disk is never ahead, and is the next one after an exit.
Counters ==
    /\ memSeq = savedSeq /\ savedSeq <= nextSeq
    /\ pc = "down" => savedSeq = nextSeq

\* A sequence in use anywhere was given, and names one payload.
Names ==
    /\ \A i \in ItemsAnywhere : i.seq < nextSeq
    /\ \A i, j \in ItemsAnywhere : i.seq = j.seq => i.datum = j.datum

\* A request, and the job made of it, hold the item they are named after.
Named ==
    /\ \A r \in wire : \E i \in r.items : i.seq = r.seq
    /\ \A s \in DOMAIN jobs : \E i \in jobs[s].items : i.seq = s

\* What a completed job held was inserted.
Persisted ==
    \A s \in DOMAIN jobs : jobs[s].state = "completed" =>
        \A i \in jobs[s].items : stored[i.datum] > 0

\* The payload d needs the agent no more.
Safe(d) ==
    \/ stored[d] > 0
    \/ \E s \in DOMAIN jobs :
          /\ d \in Data(jobs[s].items)
          /\ jobs[s].state \in {"waiting", "failed"}

\* The request waited for starts with the oldest item; when it is answered,
\* what its ack removes is safe.
Waiting ==
    /\ pc = "wait" => req.seq < nextSeq /\ \A i \in items : req.seq <= i.seq
    /\ replied => pc = "wait" /\ \A i \in items : i.seq = req.seq => Safe(i.datum)

Kept == \A d \in 1..born : d \in Data(items) \cup dropped \/ Safe(d)

SessionInv == Clean => Counters /\ Names /\ Named /\ Persisted /\ Waiting /\ Kept

IInv == TypeInv /\ BufferInv /\ SessionInv

-----------------------------------------------------------------------------
(* Lemmas *)

\* A set of naturals that is not empty has a least element.
LEMMA LeastNatural ==
    ASSUME NEW N \in SUBSET Nat, N # {}
    PROVE  \E n \in N : \A m \in N : n <= m
<1> DEFINE R == OpToRel(<, Nat)
<1>1. IsWellFoundedOn(R, Nat)
  BY NatLessThanWellFounded
<1> HIDE DEF R
<1>2. PICK n \in N : \A m \in N : ~ (<<m, n>> \in R)
  BY <1>1, WFMin
<1>3. \A m \in N : m < n => <<m, n>> \in R
  BY DEF R, OpToRel
<1>4. \A m \in N : n <= m
  <2>1. TAKE m \in N
  <2>2. ~ (m < n)
    BY <1>2, <1>3
  <2>3. m \in Nat /\ n \in Nat
    OBVIOUS
  <2> QED
    BY <2>2, <2>3
<1> QED
  BY <1>4

\* Enqueue's drop loop keeps a suffix: with an item it keeps every later one.
LEMMA TrimKeepsASuffix ==
    ASSUME NEW S, \A i \in S : i.seq \in Nat
    PROVE  /\ Trim(S) \subseteq S
           /\ \A i \in S, j \in Trim(S) : j.seq <= i.seq => i \in Trim(S)
<1>1. Trim(S) \subseteq S
  BY DEF Trim
<1>2. ASSUME NEW i \in S, NEW j \in Trim(S), j.seq <= i.seq
      PROVE  i \in Trim(S)
  <2>1. PICK n \in 0..j.seq : Fits(From(S, n))
    BY DEF Trim
  <2>2. n \in 0..i.seq
    BY <1>1, <1>2
  <2> QED
    BY <2>1, <2>2 DEF Trim
<1> QED
  BY <1>1, <1>2

\* The two enqueues of a collection keep a suffix of what they had.
LEMMA TrimTwiceKeepsASuffix ==
    ASSUME NEW S, \A i \in S : i.seq \in Nat,
           NEW it, it.seq \in Nat, \A i \in S : i.seq < it.seq,
           NEW T, T \subseteq S, \A i \in S, j \in T : j.seq <= i.seq => i \in T
    PROVE  /\ Trim(T \cup {it}) \subseteq S \cup {it}
           /\ \A i \in S \cup {it}, j \in Trim(T \cup {it}) :
                 j.seq <= i.seq => i \in Trim(T \cup {it})
<1> DEFINE U == Trim(T \cup {it})
<1>1. \A i \in T \cup {it} : i.seq \in Nat
  OBVIOUS
<1>2. /\ U \subseteq T \cup {it}
      /\ \A i \in T \cup {it}, j \in U : j.seq <= i.seq => i \in U
  BY <1>1, TrimKeepsASuffix
<1> HIDE DEF U
<1>3. ASSUME NEW i \in S \cup {it}, NEW j \in U, j.seq <= i.seq
      PROVE  i \in U
  <2>1. CASE i = it
    BY <2>1, <1>2, <1>3
  <2>2. CASE i \in S
    <3>1. j \in T
      BY <2>2, <1>2, <1>3
    <3>2. i \in T
      BY <2>2, <3>1, <1>3
    <3> QED
      BY <3>2, <1>2, <1>3
  <2> QED
    BY <2>1, <2>2
<1>4. U \subseteq S \cup {it}
  BY <1>2
<1> QED
  BY <1>3, <1>4 DEF U

(***************************************************************************)
(* What collectAndQueue does to the buffer: some items come, numbered from *)
(* nextSeq in the order of their payloads, a suffix of all is kept, and    *)
(* what is not is counted as dropped.                                      *)
(***************************************************************************)
Queued(new) ==
    /\ new \subseteq Item
    /\ \A i \in new : /\ nextSeq <= i.seq /\ i.seq < nextSeq'
                      /\ born < i.datum /\ i.datum <= born'
    /\ Ordered(new)
    /\ items' \subseteq items \cup new
    /\ \A i \in items \cup new, j \in items' : j.seq <= i.seq => i \in items'
    /\ dropped' = dropped \cup (Data(items \cup new) \ Data(items'))
    /\ nextSeq' \in Nat \ {0} /\ nextSeq <= nextSeq'
    /\ born' \in 0..MaxData /\ born <= born'
    /\ \A d \in born + 1..born' : d \in Data(new)

LEMMA CollectAndQueueQueues ==
    ASSUME TypeOK, BufferInv, CollectAndQueue
    PROVE  \E new : Queued(new)
<1> USE TelemetryAssumption
<1>0. /\ items \subseteq Item /\ nextSeq \in Nat \ {0} /\ born \in 0..MaxData /\ MaxData \in Nat
      /\ \A i \in items : i.seq \in Nat /\ i.seq < nextSeq
  BY DEF TypeOK, BufferInv, Item
<1>1. CASE UNCHANGED <<items, nextSeq, born, dropped>>
  <2>1. Queued({})
    BY <1>0, <1>1 DEF Queued, Ordered, Data
  <2> QED
    BY <2>1
<1>2. ASSUME NEW size \in Sizes, EnqueueOne(size)
      PROVE  \E new : Queued(new)
  <2> DEFINE it == [seq |-> nextSeq, datum |-> born + 1, size |-> size]
  <2>1. it \in Item /\ it.seq = nextSeq /\ it.datum = born + 1
    BY <1>0, <1>2 DEF EnqueueOne, Item, Payloads
  <2>2. /\ born' = born + 1 /\ born + 1 <= MaxData /\ nextSeq' = nextSeq + 1
        /\ items' = Trim(items \cup {it})
        /\ dropped' = dropped \cup (Data(items \cup {it}) \ Data(items'))
    BY <1>2 DEF EnqueueOne, Enqueue
  <2> HIDE DEF it
  <2>3. /\ items' \subseteq items \cup {it}
        /\ \A i \in items \cup {it}, j \in items' : j.seq <= i.seq => i \in items'
    <3>1. \A i \in items \cup {it} : i.seq \in Nat
      BY <1>0, <2>1
    <3> QED
      BY <3>1, <2>2, TrimKeepsASuffix
  <2>4. \A d \in born + 1..born' : d \in Data({it})
    BY <1>0, <2>1, <2>2 DEF Data
  <2>5. Ordered({it}) /\ {it} \subseteq Item
    BY <1>0, <2>1 DEF Ordered
  <2>6. \A i \in {it} : nextSeq <= i.seq /\ i.seq < nextSeq' /\ born < i.datum /\ i.datum <= born'
    BY <1>0, <2>1, <2>2
  <2>7. nextSeq' \in Nat \ {0} /\ nextSeq <= nextSeq' /\ born' \in 0..MaxData /\ born <= born'
    BY <1>0, <2>2
  <2>8. Queued({it})
    BY <2>2, <2>3, <2>4, <2>5, <2>6, <2>7 DEF Queued
  <2> QED
    BY <2>8
<1>3. ASSUME NEW size1 \in Sizes, NEW size2 \in Sizes, EnqueueTwo(size1, size2)
      PROVE  \E new : Queued(new)
  <2> DEFINE it1 == [seq |-> nextSeq, datum |-> born + 1, size |-> size1]
             it2 == [seq |-> nextSeq + 1, datum |-> born + 2, size |-> size2]
             T == Trim(items \cup {it1})
  <2>1. /\ it1 \in Item /\ it1.seq = nextSeq /\ it1.datum = born + 1
        /\ it2 \in Item /\ it2.seq = nextSeq + 1 /\ it2.datum = born + 2
    BY <1>0, <1>3 DEF EnqueueTwo, Item, Payloads
  <2>2. /\ born' = born + 2 /\ born + 2 <= MaxData /\ nextSeq' = nextSeq + 2
        /\ items' = Trim(T \cup {it2})
        /\ dropped' = dropped \cup (Data(items \cup {it1, it2}) \ Data(items'))
    BY <1>3 DEF EnqueueTwo, Enqueue
  <2> HIDE DEF it1, it2
  <2>3. /\ \A i \in items \cup {it1} : i.seq \in Nat
        /\ \A i \in items \cup {it1} : i.seq < it2.seq
        /\ it2.seq \in Nat
    BY <1>0, <2>1
  <2>4. /\ T \subseteq items \cup {it1}
        /\ \A i \in items \cup {it1}, j \in T : j.seq <= i.seq => i \in T
    BY <2>3, TrimKeepsASuffix
  <2> HIDE DEF T
  <2>5. /\ items' \subseteq (items \cup {it1}) \cup {it2}
        /\ \A i \in (items \cup {it1}) \cup {it2}, j \in items' : j.seq <= i.seq => i \in items'
    <3>1. /\ Trim(T \cup {it2}) \subseteq (items \cup {it1}) \cup {it2}
          /\ \A i \in (items \cup {it1}) \cup {it2}, j \in Trim(T \cup {it2}) :
                j.seq <= i.seq => i \in Trim(T \cup {it2})
      <4> DEFINE S == items \cup {it1}
      <4>1. /\ \A i \in S : i.seq \in Nat
            /\ \A i \in S : i.seq < it2.seq
            /\ T \subseteq S
            /\ \A i \in S, j \in T : j.seq <= i.seq => i \in T
        BY <2>3, <2>4
      <4> HIDE DEF S
      <4>2. /\ Trim(T \cup {it2}) \subseteq S \cup {it2}
            /\ \A i \in S \cup {it2}, j \in Trim(T \cup {it2}) :
                  j.seq <= i.seq => i \in Trim(T \cup {it2})
        BY <4>1, <2>3, TrimTwiceKeepsASuffix
      <4> QED
        BY <4>2 DEF S
    <3> QED
      BY <3>1, <2>2
  <2>6. (items \cup {it1}) \cup {it2} = items \cup {it1, it2}
    OBVIOUS
  <2>7. \A d \in born + 1..born' : d \in Data({it1, it2})
    BY <1>0, <2>1, <2>2 DEF Data
  <2>8. Ordered({it1, it2}) /\ {it1, it2} \subseteq Item
    BY <1>0, <2>1 DEF Ordered
  <2>9. \A i \in {it1, it2} :
            nextSeq <= i.seq /\ i.seq < nextSeq' /\ born < i.datum /\ i.datum <= born'
    BY <1>0, <2>1, <2>2
  <2>10. nextSeq' \in Nat \ {0} /\ nextSeq <= nextSeq' /\ born' \in 0..MaxData /\ born <= born'
    BY <1>0, <2>2
  <2>11. Queued({it1, it2})
    BY <2>2, <2>5, <2>6, <2>7, <2>8, <2>9, <2>10 DEF Queued
  <2> QED
    BY <2>11
<1> QED
  BY <1>1, <1>2, <1>3 DEF CollectAndQueue

\* A request is named after the oldest item it holds.
LEMMA FirstSeqIsLeast ==
    ASSUME NEW S, S \subseteq Item, S # {}
    PROVE  /\ FirstSeq(S) \in Nat
           /\ \A i \in S : FirstSeq(S) <= i.seq
           /\ \E i \in PeekBatch(S) : i.seq = FirstSeq(S)
<1> DEFINE N == {it.seq : it \in S}
<1>1. N \in SUBSET Nat /\ N # {}
  BY DEF Item
<1>2. \E n \in N : \A m \in N : n <= m
  <2> HIDE DEF N
  <2> QED
    BY <1>1, LeastNatural
<1>3. \E n \in N : \A it \in S : n <= it.seq
  BY <1>2
<1>4. FirstSeq(S) \in N /\ \A it \in S : FirstSeq(S) <= it.seq
  BY <1>3 DEF FirstSeq
<1>5. PICK i \in S : i.seq = FirstSeq(S)
  BY <1>4
<1>6. {j \in S : j.seq < i.seq} = {}
  <2>1. \A j \in S : j.seq \in Nat /\ i.seq <= j.seq
    BY <1>4, <1>5 DEF Item
  <2>2. i.seq \in Nat
    BY DEF Item
  <2> QED
    BY <2>1, <2>2
<1>7. i \in PeekBatch(S)
  BY <1>5, <1>6, FS_EmptySet, BufferAssumption DEF PeekBatch
<1> QED
  BY <1>1, <1>4, <1>5, <1>7

-----------------------------------------------------------------------------
(* The types *)

LEMMA InitTypes == Init => TypeInv
<1> SUFFICES ASSUME Init PROVE TypeInv
  OBVIOUS
<1> USE TelemetryAssumption DEF Init
<1>1. req \in Request /\ items \subseteq Item
  BY DEF NoRequest, Request
<1>2. DOMAIN jobs \subseteq Nat /\ jobs \in [DOMAIN jobs -> Job]
  OBVIOUS
<1>3. replied \in BOOLEAN /\ stopping \in BOOLEAN
  OBVIOUS
<1>4. /\ nextSeq = 1 /\ memSeq = 0 /\ savedSeq = 0 /\ pc = "idle" /\ wire = {} /\ born = 0
      /\ stored \in [Payloads -> Nat] /\ dropped = {} /\ faults = {} /\ restarts = 0
      /\ attempt = 0
  OBVIOUS
<1>5. ~ stopping
  OBVIOUS
<1>6. TypeOK
  <2> HIDE DEF Init
  <2> QED
    BY <1>1, <1>2, <1>3, <1>4 DEF TypeOK
<1> QED
  BY <1>4, <1>5, <1>6 DEF TypeInv

LEMMA StepTypes ==
    ASSUME TypeInv, BufferInv, [Next]_vars
    PROVE  TypeInv'
<1> USE TelemetryAssumption, BufferAssumption
<1>0. NoRequest \in Request
  BY DEF NoRequest, Request
<1>1. CASE Collect
  <2>1. PICK new : Queued(new)
    BY <1>1, CollectAndQueueQueues DEF Collect, TypeInv
  <2>2. items' \subseteq Item /\ dropped' \subseteq Payloads
    BY <2>1 DEF Queued, TypeInv, TypeOK, Data, Item
  <2> QED
    <3>1. TypeOK'
      <4>1. /\ attempt' \in 0..MaxAttempts /\ pc' = "flush"
            /\ UNCHANGED <<memSeq, savedSeq, req, replied, stopping, wire, jobs, stored, faults,
                           restarts>>
        BY <1>1 DEF Collect
      <4>2. nextSeq' \in Nat \ {0} /\ born' \in 0..MaxData
        BY <2>1 DEF Queued
      <4> QED
        BY <2>2, <4>1, <4>2 DEF TypeInv, TypeOK
    <3>2. UNCHANGED <<stopping, restarts>> /\ pc' = "flush"
      BY <1>1 DEF Collect
    <3> QED
      BY <3>1, <3>2 DEF TypeInv
<1>2. CASE LateCollect
  <2>1. PICK new : Queued(new)
    BY <1>2, CollectAndQueueQueues DEF LateCollect, TypeInv
  <2>2. items' \subseteq Item /\ dropped' \subseteq Payloads
    BY <2>1 DEF Queued, TypeInv, TypeOK, Data, Item
  <2> QED
    BY <1>2, <2>1, <2>2 DEF Queued, LateCollect, TypeInv, TypeOK
<1>3. CASE Expire
  <2>1. items' \subseteq Item /\ dropped' \subseteq Payloads
    BY <1>3 DEF Expire, DropExpired, From, TypeInv, TypeOK, Data, Item
  <2> QED
    BY <1>3, <2>1 DEF Expire, TypeInv, TypeOK
<1>4. CASE Send
  <2> DEFINE r == [seq |-> FirstSeq(items), items |-> PeekBatch(items)]
  <2>1. items \subseteq Item /\ items # {}
    BY <1>4 DEF Send, TypeInv, TypeOK
  <2>2. r \in Request
    BY <2>1, FirstSeqIsLeast DEF Request, PeekBatch
  <2>3. req' = r /\ wire' \subseteq wire \cup {r}
    BY <1>4 DEF Send
  <2> HIDE DEF r
  <2> QED
    BY <1>4, <2>2, <2>3 DEF Send, TypeInv, TypeOK
<1>5. CASE FlushEnds
  BY <1>5 DEF FlushEnds, AfterFlush, TypeInv, TypeOK
<1>6. CASE SendFails
  <2>1. pc' # "wait" /\ (pc' = "persist" => stopping)
    BY <1>6 DEF SendFails
  <2>2. TypeOK'
    <3>1. attempt' \in 0..MaxAttempts
      BY <1>6 DEF SendFails, TypeInv, TypeOK
    <3>2. /\ replied' \in BOOLEAN /\ req' = NoRequest /\ pc' \in {"flush", "persist"}
          /\ UNCHANGED <<items, nextSeq, memSeq, savedSeq, stopping, wire, jobs, stored, born,
                         dropped, faults, restarts>>
      BY <1>6 DEF SendFails
    <3> QED
      BY <1>0, <3>1, <3>2 DEF TypeInv, TypeOK
  <2>3. UNCHANGED <<stopping, restarts>> /\ pc' # "down"
    BY <1>6 DEF SendFails
  <2> QED
    BY <2>1, <2>2, <2>3 DEF TypeInv
<1>7. CASE Acked
  <2>1. items' \subseteq Item
    BY <1>7 DEF Acked, Ack, TypeInv, TypeOK
  <2>2. memSeq' \in Nat /\ savedSeq' \in Nat /\ faults' \subseteq PossibleFaults
    BY <1>7 DEF Acked, PersistSequence, Fault, TypeInv, TypeOK, PossibleFaults
  <2> QED
    BY <1>7, <1>0, <2>1, <2>2 DEF Acked, AfterFlush, TypeInv, TypeOK
<1>8. CASE Shutdown
  <2>1. TypeOK'
    <3>0. stopping' \in BOOLEAN /\ replied' \in BOOLEAN
      BY <1>8 DEF Shutdown
    <3>1. attempt' \in 0..MaxAttempts
      BY <1>8 DEF Shutdown
    <3>2. /\ req' = NoRequest /\ pc' = "flush"
          /\ UNCHANGED <<items, nextSeq, memSeq, savedSeq, wire, jobs, stored, born, dropped,
                         faults, restarts>>
      BY <1>8 DEF Shutdown
    <3> QED
      BY <1>0, <3>0, <3>1, <3>2 DEF TypeInv, TypeOK
  <2>2. restarts' < MaxRestarts /\ pc' = "flush"
    BY <1>8 DEF Shutdown
  <2> QED
    BY <2>1, <2>2 DEF TypeInv
<1>9. CASE Exit
  <2>1. dropped' \subseteq Payloads
    BY <1>9 DEF Exit, TypeInv, TypeOK, Data, Item
  <2>2. memSeq' \in Nat /\ savedSeq' \in Nat /\ faults' \subseteq PossibleFaults
    BY <1>9 DEF Exit, PersistSequence, Fault, TypeInv, TypeOK, PossibleFaults
  <2> QED
    BY <1>9, <2>1, <2>2 DEF Exit, TypeInv, TypeOK
<1>10. CASE Crash
  <2>1. dropped' \subseteq Payloads /\ faults' \subseteq PossibleFaults
    BY <1>10 DEF Crash, Fault, TypeInv, TypeOK, Data, Item, PossibleFaults
  <2> QED
    BY <1>10, <1>0, <2>1 DEF Crash, TypeInv, TypeOK
<1>11. CASE Restart
  <2>1. restarts < MaxRestarts
    BY <1>11 DEF Restart, TypeInv
  <2>2. TypeOK'
    <3>0. stopping' \in BOOLEAN
      BY <1>11 DEF Restart
    <3>1. attempt' \in 0..MaxAttempts
      BY <1>11 DEF Restart
    <3>2. restarts' \in 0..MaxRestarts /\ nextSeq' \in Nat \ {0} /\ memSeq' \in Nat
      BY <1>11, <2>1 DEF Restart, Larger, TypeInv, TypeOK
    <3>3. /\ pc' = "idle"
          /\ UNCHANGED <<items, savedSeq, req, replied, wire, jobs, stored, born, dropped, faults>>
      BY <1>11 DEF Restart
    <3> QED
      BY <3>0, <3>1, <3>2, <3>3 DEF TypeInv, TypeOK
  <2>3. ~ stopping' /\ pc' = "idle"
    BY <1>11 DEF Restart
  <2> QED
    BY <2>2, <2>3 DEF TypeInv
<1>12. ASSUME NEW r \in wire, GatewayAccepts(r)
       PROVE  TypeInv'
  <2>1. DOMAIN jobs' \subseteq Nat /\ jobs' \in [DOMAIN jobs' -> Job]
    <3>1. CASE r.seq \in DOMAIN jobs
      BY <1>12, <3>1 DEF GatewayAccepts, TypeInv, TypeOK
    <3>2. CASE r.seq \notin DOMAIN jobs
      <4>1. jobs' = [s \in DOMAIN jobs \cup {r.seq} |->
                       IF s = r.seq THEN [state |-> "waiting", items |-> r.items] ELSE jobs[s]]
        BY <1>12, <3>2 DEF GatewayAccepts
      <4>2. [state |-> "waiting", items |-> r.items] \in Job /\ r.seq \in Nat
        BY DEF TypeInv, TypeOK, Request, Job, JobState
      <4> QED
        BY <4>1, <4>2 DEF TypeInv, TypeOK
    <3> QED
      BY <3>1, <3>2
  <2> QED
    BY <1>12, <2>1 DEF GatewayAccepts, TypeInv, TypeOK
<1>13. ASSUME NEW r \in wire, GatewayRejects(r)
       PROVE  TypeInv'
  BY <1>13 DEF GatewayRejects, agentVars, TypeInv, TypeOK
<1>14. ASSUME NEW s \in DOMAIN jobs,
              IngestCompletes(s) \/ IngestFails(s) \/ IngestStalls(s)
       PROVE  TypeInv'
  <2>1. \E state \in JobState : ProcessorRuns(s, state)
    BY <1>14 DEF IngestCompletes, IngestFails, IngestStalls, JobState
  <2>2. DOMAIN jobs' \subseteq Nat /\ jobs' \in [DOMAIN jobs' -> Job]
    BY <2>1 DEF ProcessorRuns, TypeInv, TypeOK, Job
  <2>3. stored' \in [Payloads -> Nat]
    BY <1>14 DEF IngestCompletes, IngestFails, IngestStalls, Insert, Smaller, TypeInv, TypeOK
  <2>4. faults' \subseteq PossibleFaults
    BY <1>14 DEF IngestCompletes, IngestFails, IngestStalls, Fault, PossibleFaults, TypeInv, TypeOK
  <2> QED
    BY <2>1, <2>2, <2>3, <2>4 DEF ProcessorRuns, agentVars, TypeInv, TypeOK
<1>15. ASSUME NEW s \in DOMAIN jobs, Evict(s)
       PROVE  TypeInv'
  <2>1. DOMAIN jobs' \subseteq Nat /\ jobs' \in [DOMAIN jobs' -> Job]
    BY <1>15 DEF Evict, TypeInv, TypeOK
  <2> QED
    BY <1>15, <2>1 DEF Evict, agentVars, TypeInv, TypeOK
<1>16. CASE UNCHANGED vars
  BY <1>16 DEF vars, agentVars, TypeInv, TypeOK
<1> QED
  BY <1>1, <1>2, <1>3, <1>4, <1>5, <1>6, <1>7, <1>8, <1>9, <1>10, <1>11, <1>12, <1>13, <1>14,
     <1>15, <1>16 DEF Next, Agent, Gateway, Ingest

-----------------------------------------------------------------------------
(* The order of the buffer *)

LEMMA InitBuffer == Init => BufferInv
  BY DEF Init, BufferInv, Ordered, DropOldest, Data

\* Items that come at the new end leave the buffer in order.
LEMMA QueuedKeepsOrder ==
    ASSUME TypeOK, BufferInv, NEW new, Queued(new), pc' # "down"
    PROVE  BufferInv'
<1> DEFINE all == items \cup new
<1>1. /\ nextSeq \in Nat /\ nextSeq' \in Nat /\ born \in Nat /\ born' \in Nat
      /\ nextSeq <= nextSeq' /\ born <= born'
      /\ \A i \in all : i.seq \in Nat /\ i.datum \in Nat
      /\ \A d \in dropped : d \in Nat /\ d <= born
  BY TelemetryAssumption DEF Queued, TypeOK, Item, Payloads, BufferInv
<1>2. \A i \in all : i.seq < nextSeq' /\ i.datum <= born'
  BY <1>1 DEF Queued, BufferInv
<1>3. \A i \in items, j \in new : i.seq < j.seq /\ i.datum < j.datum
  BY <1>1 DEF Queued, BufferInv
<1>4. Ordered(all)
  BY <1>1, <1>3 DEF Queued, BufferInv, Ordered
<1>5. items' \subseteq all /\ \A i \in all, j \in items' : j.seq <= i.seq => i \in items'
  BY DEF Queued
<1>6. dropped' = dropped \cup (Data(all) \ Data(items'))
  BY DEF Queued
<1> HIDE DEF all
<1>7. ASSUME NEW d \in dropped', NEW j \in items'
      PROVE  d < j.datum
  <2>1. CASE d \in dropped
    <3>1. CASE j \in items
      BY <2>1, <3>1 DEF BufferInv, DropOldest, Data
    <3>2. CASE j \in new
      BY <1>1, <2>1, <3>2 DEF Queued, BufferInv, all
    <3> QED
      BY <1>5, <3>1, <3>2 DEF all
  <2>2. CASE d \notin dropped
    <3>1. PICK i \in all : d = i.datum /\ i \notin items'
      BY <1>6, <2>2 DEF Data
    <3>2. ~ (j.seq <= i.seq)
      BY <1>5, <3>1
    <3>3. j \in all
      BY <1>5
    <3>4. i.seq < j.seq
      BY <1>1, <3>2, <3>3
    <3> QED
      BY <1>4, <3>1, <3>3, <3>4 DEF Ordered
  <2> QED
    BY <2>1, <2>2
<1>8. \A d \in dropped' : d <= born'
  BY <1>1, <1>2, <1>6 DEF Data
<1>9. Ordered(items')
  BY <1>4, <1>5 DEF Ordered
<1> QED
  BY <1>2, <1>5, <1>7, <1>8, <1>9 DEF BufferInv, DropOldest, Data, Ordered

\* So do items that go at the old end.
LEMMA SuffixKeepsOrder ==
    ASSUME TypeOK, BufferInv,
           items' \subseteq items,
           \A i \in items, j \in items' : j.seq <= i.seq => i \in items',
           dropped' \subseteq dropped \cup (Data(items) \ Data(items')),
           nextSeq' = nextSeq, born' = born, pc' = "down" => items' = {}
    PROVE  BufferInv'
<1>1. \A i \in items : i.seq \in Nat /\ i.datum \in Nat
  BY DEF TypeOK, Item, Payloads
<1>2. ASSUME NEW d \in dropped', NEW j \in items'
      PROVE  d < j.datum
  <2>1. CASE d \in dropped
    BY <2>1 DEF BufferInv, DropOldest, Data
  <2>2. CASE d \notin dropped
    <3>1. PICK i \in items : d = i.datum /\ i \notin items'
      BY <2>2 DEF Data
    <3>2. i.seq < j.seq
      BY <1>1, <3>1
    <3> QED
      BY <3>1, <3>2 DEF BufferInv, Ordered
  <2> QED
    BY <2>1, <2>2
<1>3. \A d \in dropped' : d <= born'
  BY DEF BufferInv, Data
<1> QED
  BY <1>2, <1>3 DEF BufferInv, DropOldest, Data, Ordered

LEMMA StepBuffer ==
    ASSUME TypeInv, BufferInv, [Next]_vars
    PROVE  BufferInv'
<1>0. TypeOK /\ \A i \in items : i.seq \in Nat /\ i.datum \in Nat
  BY DEF TypeInv, TypeOK, Item, Payloads
<1>1. CASE Collect
  BY <1>0, <1>1, CollectAndQueueQueues, QueuedKeepsOrder DEF Collect
<1>2. CASE LateCollect
  BY <1>0, <1>2, CollectAndQueueQueues, QueuedKeepsOrder DEF LateCollect
<1>3. CASE Expire
  <2>1. PICK cut \in {it.seq : it \in items} :
            /\ items' = {it \in items : it.seq >= cut + 1}
            /\ dropped' = dropped \cup Data(items \ items')
    BY <1>3 DEF Expire, DropExpired, From
  <2>2. Data(items \ items') \subseteq Data(items) \ Data(items')
    <3>1. ASSUME NEW i \in items \ items', NEW j \in items'
          PROVE  i.datum # j.datum
      <4>1. i.seq < j.seq /\ j \in items
        BY <1>0, <2>1, <3>1
      <4> QED
        BY <1>0, <4>1 DEF BufferInv, Ordered
    <3> QED
      BY <3>1 DEF Data
  <2>3. \A i \in items, j \in items' : j.seq <= i.seq => i \in items'
    BY <1>0, <2>1
  <2>4. items' \subseteq items /\ nextSeq' = nextSeq /\ born' = born /\ pc' # "down"
    BY <1>3, <2>1 DEF Expire
  <2> QED
    BY <1>0, <2>1, <2>2, <2>3, <2>4, SuffixKeepsOrder
<1>4. CASE Acked
  <2>1. \A i \in items, j \in items' : j.seq <= i.seq => i \in items'
    BY <1>0, <1>4 DEF Acked, Ack, TypeInv, TypeOK, Request
  <2>2. /\ items' \subseteq items /\ dropped' = dropped
        /\ nextSeq' = nextSeq /\ born' = born /\ pc' # "down"
    BY <1>4 DEF Acked, Ack, AfterFlush
  <2> QED
    BY <1>0, <2>1, <2>2, SuffixKeepsOrder
<1>5. CASE Exit \/ Crash
  <2>1. /\ items' = {} /\ dropped' = dropped \cup Data(items)
        /\ nextSeq' = nextSeq /\ born' = born
    BY <1>5 DEF Exit, Crash
  <2> QED
    BY <1>0, <2>1, SuffixKeepsOrder DEF Data
<1>6. CASE Restart
  BY <1>6 DEF Restart, BufferInv, Ordered, DropOldest, Data
<1>7. ASSUME UNCHANGED <<items, nextSeq, born, dropped>>, pc' = "down" => pc = "down"
      PROVE  BufferInv'
  BY <1>7 DEF BufferInv, Ordered, DropOldest, Data
<1>8. CASE Send \/ FlushEnds \/ SendFails \/ Shutdown
  BY <1>7, <1>8 DEF Send, FlushEnds, AfterFlush, SendFails, Shutdown
<1>9. CASE Gateway \/ Ingest \/ UNCHANGED vars
  BY <1>7, <1>9 DEF Gateway, GatewayAccepts, GatewayRejects, Ingest, IngestCompletes, IngestFails,
                    IngestStalls, ProcessorRuns, Evict, agentVars, vars
<1> QED
  BY <1>1, <1>2, <1>3, <1>4, <1>5, <1>6, <1>8, <1>9 DEF Next, Agent

-----------------------------------------------------------------------------
(* Nothing vanishes *)

LEMMA InitSession == Init => SessionInv
<1> SUFFICES ASSUME Init PROVE SessionInv
  OBVIOUS
<1>1. ItemsAnywhere = {}
  BY DEF Init, ItemsAnywhere
<1>2. Counters /\ Named /\ Persisted /\ Kept
  BY DEF Init, Counters, Named, Persisted, Kept
<1>3. Waiting
  BY DEF Init, Waiting
<1> QED
  BY <1>1, <1>2, <1>3 DEF SessionInv, Names

\* Faults are remembered.
LEMMA CleanBefore ==
    ASSUME [Next]_vars, Clean'
    PROVE  Clean
<1>1. faults \subseteq faults'
  BY DEF Next, Agent, Collect, LateCollect, Expire, Send, FlushEnds, SendFails, Acked,
         PersistSequence, Shutdown, Exit, Crash, Restart, Gateway, GatewayAccepts,
         GatewayRejects, Ingest, IngestCompletes, IngestFails, IngestStalls, Evict, Fault, vars
<1> QED
  BY <1>1 DEF Clean

\* An insert stores its batch, and takes nothing away.
LEMMA InsertStores ==
    ASSUME TypeOK, NEW batch, Insert(batch), NEW d \in Payloads
    PROVE  /\ stored[d] > 0 => stored'[d] > 0
           /\ d \in Data(batch) => stored'[d] > 0
<1>1. stored[d] \in Nat /\ MaxStored \in Nat \ {0}
  BY TelemetryAssumption DEF TypeOK
<1>2. stored'[d] = IF d \in Data(batch) THEN Smaller(stored[d] + 1, MaxStored) ELSE stored[d]
  BY DEF Insert
<1> QED
  BY <1>1, <1>2 DEF Smaller

\* A run of the processor changes the state of one job that waits.
LEMMA ProcessorRunsOn ==
    ASSUME TypeOK, NEW s \in DOMAIN jobs, NEW state, ProcessorRuns(s, state)
    PROVE  /\ DOMAIN jobs' = DOMAIN jobs
           /\ \A t \in DOMAIN jobs : jobs'[t].items = jobs[t].items
           /\ \A t \in DOMAIN jobs \ {s} : jobs'[t] = jobs[t]
           /\ jobs[s].state = "waiting" /\ jobs'[s].state = state
  BY DEF ProcessorRuns, TypeOK, Job

\* An accepted request makes one job at most, of its own items.
LEMMA AcceptedJobs ==
    ASSUME NEW r, GatewayAccepts(r)
    PROVE  /\ DOMAIN jobs' = DOMAIN jobs \cup {r.seq}
           /\ \A s \in DOMAIN jobs : jobs'[s] = jobs[s]
           /\ \A s \in DOMAIN jobs' \ DOMAIN jobs :
                 s = r.seq /\ jobs'[s].items = r.items /\ jobs'[s].state = "waiting"
<1>1. CASE r.seq \in DOMAIN jobs
  BY <1>1 DEF GatewayAccepts
<1>2. CASE r.seq \notin DOMAIN jobs
  <2>1. jobs' = [s \in DOMAIN jobs \cup {r.seq} |->
                   IF s = r.seq THEN [state |-> "waiting", items |-> r.items] ELSE jobs[s]]
    BY <1>2 DEF GatewayAccepts
  <2> QED
    BY <1>2, <2>1
<1> QED
  BY <1>1, <1>2

\* What the agent needs no more, it never needs again.
LEMMA SafeStays ==
    ASSUME TypeOK, [Next]_vars, NEW d \in Payloads, Safe(d)
    PROVE  Safe(d)'
<1>1. CASE UNCHANGED <<stored, jobs>>
  BY <1>1 DEF Safe
<1>2. ASSUME NEW r \in wire, GatewayAccepts(r)
      PROVE  Safe(d)'
  <2>1. \A s \in DOMAIN jobs : s \in DOMAIN jobs' /\ jobs'[s] = jobs[s]
    BY <1>2 DEF GatewayAccepts
  <2>2. UNCHANGED stored
    BY <1>2 DEF GatewayAccepts
  <2> QED
    BY <2>1, <2>2 DEF Safe
<1>3. ASSUME NEW s \in DOMAIN jobs, IngestCompletes(s)
      PROVE  Safe(d)'
  BY <1>3, ProcessorRunsOn, InsertStores DEF IngestCompletes, Safe
<1>4. ASSUME NEW s \in DOMAIN jobs, IngestFails(s)
      PROVE  Safe(d)'
  <2>1. stored[d] > 0 => stored'[d] > 0
    BY <1>4, InsertStores DEF IngestFails
  <2>2. ProcessorRuns(s, "failed")
    BY <1>4 DEF IngestFails
  <2> QED
    BY <2>1, <2>2, ProcessorRunsOn DEF Safe
<1>5. ASSUME NEW s \in DOMAIN jobs, IngestStalls(s)
      PROVE  Safe(d)'
  <2>1. stored[d] > 0 => stored'[d] > 0
    BY <1>5, InsertStores DEF IngestStalls
  <2>2. ProcessorRuns(s, "waiting")
    BY <1>5 DEF IngestStalls
  <2> QED
    BY <2>1, <2>2, ProcessorRunsOn DEF Safe
<1>6. ASSUME NEW s \in DOMAIN jobs, Evict(s)
      PROVE  Safe(d)'
  <2>1. /\ jobs[s].state = "completed" /\ DOMAIN jobs' = DOMAIN jobs \ {s}
        /\ \A t \in DOMAIN jobs \ {s} : jobs'[t] = jobs[t]
        /\ UNCHANGED stored
    BY <1>6 DEF Evict
  <2> QED
    BY <2>1 DEF Safe
<1>7. CASE Agent \/ (\E r \in wire : GatewayRejects(r)) \/ UNCHANGED vars
  BY <1>1, <1>7 DEF Agent, Collect, LateCollect, Expire, Send, FlushEnds, SendFails, Acked,
                    Shutdown, Exit, Crash, Restart, GatewayRejects, vars
<1> QED
  BY <1>2, <1>3, <1>4, <1>5, <1>6, <1>7 DEF Next, Gateway, Ingest

LEMMA StepCounters ==
    ASSUME TypeInv, BufferInv, SessionInv, [Next]_vars, Clean'
    PROVE  Counters'
<1>0. Counters /\ TypeOK
  BY CleanBefore DEF SessionInv, TypeInv
<1>1. CASE Collect \/ LateCollect
  <2>1. PICK new : Queued(new)
    BY <1>0, <1>1, CollectAndQueueQueues DEF Collect, LateCollect
  <2>2. UNCHANGED <<memSeq, savedSeq>> /\ pc' # "down"
    BY <1>1 DEF Collect, LateCollect
  <2> QED
    BY <1>0, <2>1, <2>2 DEF Queued, Counters, TypeOK
<1>2. CASE Acked \/ Exit
  <2>1. PersistSequence /\ UNCHANGED nextSeq
    BY <1>2 DEF Acked, Exit
  <2>2. "saveFails" \notin faults'
    BY DEF Clean
  <2>3. memSeq' = savedSeq' /\ savedSeq' = nextSeq'
    BY <1>0, <2>1, <2>2 DEF PersistSequence, Fault, Counters, TypeOK
  <2> QED
    BY <1>0, <2>1, <2>3 DEF Counters, TypeOK
<1>3. CASE Crash
  BY <1>3 DEF Crash, Fault, Clean
<1>4. CASE Restart
  BY <1>0, <1>4 DEF Restart, Larger, Counters, TypeOK
<1>5. ASSUME UNCHANGED <<nextSeq, memSeq, savedSeq>>, pc' = "down" => pc = "down"
      PROVE  Counters'
  BY <1>0, <1>5 DEF Counters
<1>6. CASE Expire \/ Send \/ FlushEnds \/ SendFails \/ Shutdown
  BY <1>5, <1>6 DEF Expire, Send, FlushEnds, AfterFlush, SendFails, Shutdown
<1>7. CASE Gateway \/ Ingest \/ UNCHANGED vars
  BY <1>5, <1>7 DEF Gateway, GatewayAccepts, GatewayRejects, Ingest, IngestCompletes, IngestFails,
                    IngestStalls, ProcessorRuns, Evict, agentVars, vars
<1> QED
  BY <1>1, <1>2, <1>3, <1>4, <1>6, <1>7 DEF Next, Agent

\* Where an item can be.
LEMMA Whereabouts ==
    /\ \A i : i \in ItemsAnywhere <=>
              (i \in items \/ (\E r \in wire : i \in r.items)
                 \/ (\E s \in DOMAIN jobs : i \in jobs[s].items))
    /\ \A i : i \in ItemsAnywhere' <=>
              (i \in items' \/ (\E r \in wire' : i \in r.items)
                 \/ (\E s \in DOMAIN jobs' : i \in jobs'[s].items))
  BY DEF ItemsAnywhere

\* Every item in the system is an Item.
LEMMA ItemsTyped == TypeOK => ItemsAnywhere \subseteq Item
<1> SUFFICES ASSUME TypeOK PROVE ItemsAnywhere \subseteq Item
  OBVIOUS
<1>1. items \subseteq Item
  BY DEF TypeOK
<1>2. \A r \in wire : r.items \subseteq Item
  BY DEF TypeOK, Request
<1>3. \A s \in DOMAIN jobs : jobs[s].items \subseteq Item
  BY DEF TypeOK, Job
<1> QED
  BY <1>1, <1>2, <1>3, Whereabouts

\* Only a collection brings new items.
LEMMA NoNewItems ==
    ASSUME TypeOK, [Next]_vars, ~ Collect, ~ LateCollect
    PROVE  ItemsAnywhere' \subseteq ItemsAnywhere
<1>1. ASSUME items' \subseteq items, UNCHANGED <<wire, jobs>>
      PROVE  ItemsAnywhere' \subseteq ItemsAnywhere
  BY <1>1 DEF ItemsAnywhere
<1>2. CASE Expire
  BY <1>1, <1>2 DEF Expire, DropExpired, From
<1>3. CASE Send
  <2> DEFINE r == [seq |-> FirstSeq(items), items |-> PeekBatch(items)]
  <2>1. items' = items /\ jobs' = jobs /\ wire' \subseteq wire \cup {r}
    BY <1>3 DEF Send
  <2>2. r.items \subseteq items
    BY DEF PeekBatch
  <2> HIDE DEF r
  <2> QED
    BY <2>1, <2>2 DEF ItemsAnywhere
<1>4. CASE FlushEnds \/ SendFails \/ Shutdown \/ Restart \/ UNCHANGED vars
  BY <1>1, <1>4 DEF FlushEnds, SendFails, Shutdown, Restart, vars, agentVars
<1>5. CASE Acked \/ Exit \/ Crash
  BY <1>1, <1>5 DEF Acked, Ack, Exit, Crash
<1>6. ASSUME NEW r \in wire, GatewayAccepts(r)
      PROVE  ItemsAnywhere' \subseteq ItemsAnywhere
  <2>1. items' = items /\ wire' \subseteq wire
    BY <1>6 DEF GatewayAccepts
  <2>2. ASSUME NEW s \in DOMAIN jobs'
        PROVE  (s \in DOMAIN jobs /\ jobs'[s] = jobs[s]) \/ jobs'[s].items = r.items
    BY <1>6, <2>2, AcceptedJobs
  <2> QED
    BY <2>1, <2>2, Whereabouts
<1>7. ASSUME NEW r \in wire, GatewayRejects(r)
      PROVE  ItemsAnywhere' \subseteq ItemsAnywhere
  BY <1>7 DEF GatewayRejects, agentVars, ItemsAnywhere
<1>8. ASSUME NEW s \in DOMAIN jobs, IngestCompletes(s) \/ IngestFails(s) \/ IngestStalls(s)
      PROVE  ItemsAnywhere' \subseteq ItemsAnywhere
  <2>1. PICK state : ProcessorRuns(s, state)
    BY <1>8 DEF IngestCompletes, IngestFails, IngestStalls
  <2>2. items' = items /\ wire' = wire
    BY <2>1 DEF ProcessorRuns, agentVars
  <2> QED
    BY <2>1, <2>2, ProcessorRunsOn DEF ItemsAnywhere
<1>9. ASSUME NEW s \in DOMAIN jobs, Evict(s)
      PROVE  ItemsAnywhere' \subseteq ItemsAnywhere
  <2>1. /\ items' = items /\ wire' = wire /\ DOMAIN jobs' \subseteq DOMAIN jobs
        /\ \A t \in DOMAIN jobs' : jobs'[t] = jobs[t]
    BY <1>9 DEF Evict, agentVars
  <2> QED
    BY <2>1 DEF ItemsAnywhere
<1> QED
  BY <1>2, <1>3, <1>4, <1>5, <1>6, <1>7, <1>8, <1>9 DEF Next, Agent, Gateway, Ingest

LEMMA StepNames ==
    ASSUME TypeInv, BufferInv, SessionInv, [Next]_vars, Clean'
    PROVE  Names'
<1>0. Counters /\ Names /\ TypeOK /\ \A i \in ItemsAnywhere : i.seq \in Nat
  BY CleanBefore, ItemsTyped DEF SessionInv, TypeInv, Item
<1>1. CASE Collect \/ LateCollect
  <2>1. PICK new : Queued(new)
    BY <1>0, <1>1, CollectAndQueueQueues DEF Collect, LateCollect
  <2>2. ItemsAnywhere' \subseteq ItemsAnywhere \cup new
    <3>1. items' \subseteq items \cup new /\ UNCHANGED <<wire, jobs>>
      BY <1>1, <2>1 DEF Queued, Collect, LateCollect
    <3> QED
      BY <3>1 DEF ItemsAnywhere
  <2>3. /\ \A i \in new : i.seq \in Nat /\ nextSeq <= i.seq /\ i.seq < nextSeq'
        /\ \A i, j \in new : i.seq = j.seq => i.datum = j.datum
        /\ nextSeq \in Nat /\ nextSeq' \in Nat /\ nextSeq <= nextSeq'
    BY <1>0, <2>1 DEF Queued, Ordered, Item, TypeOK
  <2>4. \A i \in ItemsAnywhere : i.seq < nextSeq
    BY <1>0 DEF Names
  <2>5. \A i \in ItemsAnywhere, j \in new : i.seq # j.seq
    BY <1>0, <2>3, <2>4
  <2>6. \A i \in ItemsAnywhere \cup new : i.seq < nextSeq'
    BY <1>0, <2>3, <2>4
  <2>7. \A i, j \in ItemsAnywhere \cup new : i.seq = j.seq => i.datum = j.datum
    BY <1>0, <2>3, <2>5 DEF Names
  <2> QED
    BY <2>2, <2>6, <2>7 DEF Names
<1>2. CASE ~ Collect /\ ~ LateCollect
  <2>1. ItemsAnywhere' \subseteq ItemsAnywhere
    BY <1>0, <1>2, NoNewItems
  <2>2. nextSeq' = nextSeq
    <3>1. CASE Restart
      BY <1>0, <3>1 DEF Restart, Larger, Counters, TypeOK
    <3>2. CASE ~ Restart
      BY <1>2, <3>2 DEF Next, Agent, Expire, Send, FlushEnds, SendFails, Acked, Shutdown, Exit,
                        Crash, Gateway, GatewayAccepts, GatewayRejects, Ingest, IngestCompletes,
                        IngestFails, IngestStalls, ProcessorRuns, Evict, agentVars, vars
    <3> QED
      BY <3>1, <3>2
  <2> QED
    BY <1>0, <2>1, <2>2 DEF Names
<1> QED
  BY <1>1, <1>2

LEMMA StepNamed ==
    ASSUME TypeInv, BufferInv, SessionInv, [Next]_vars, Clean'
    PROVE  Named'
<1>0. Named /\ TypeOK
  BY CleanBefore DEF SessionInv, TypeInv
<1>1. CASE Send
  <2> DEFINE r == [seq |-> FirstSeq(items), items |-> PeekBatch(items)]
  <2>1. \E i \in r.items : i.seq = r.seq
    BY <1>0, <1>1, FirstSeqIsLeast DEF Send, TypeOK
  <2>2. wire' \subseteq wire \cup {r} /\ jobs' = jobs
    BY <1>1 DEF Send
  <2> HIDE DEF r
  <2> QED
    BY <1>0, <2>1, <2>2 DEF Named
<1>2. ASSUME NEW r \in wire, GatewayAccepts(r)
      PROVE  Named'
  <2>1. wire' \subseteq wire
    BY <1>2 DEF GatewayAccepts
  <2>2. ASSUME NEW s \in DOMAIN jobs'
        PROVE  \/ s \in DOMAIN jobs /\ jobs'[s] = jobs[s]
               \/ s = r.seq /\ jobs'[s].items = r.items
    BY <1>2, <2>2, AcceptedJobs
  <2> QED
    BY <1>0, <2>1, <2>2 DEF Named
<1>3. ASSUME NEW s \in DOMAIN jobs, IngestCompletes(s) \/ IngestFails(s) \/ IngestStalls(s)
      PROVE  Named'
  <2>1. PICK state : ProcessorRuns(s, state)
    BY <1>3 DEF IngestCompletes, IngestFails, IngestStalls
  <2>2. wire' = wire
    BY <2>1 DEF ProcessorRuns
  <2> QED
    BY <1>0, <2>1, <2>2, ProcessorRunsOn DEF Named
<1>4. ASSUME NEW s \in DOMAIN jobs, Evict(s)
      PROVE  Named'
  <2>1. wire' = wire /\ \A t \in DOMAIN jobs' : t \in DOMAIN jobs /\ jobs'[t] = jobs[t]
    BY <1>4 DEF Evict
  <2> QED
    BY <1>0, <2>1 DEF Named
<1>5. ASSUME wire' \subseteq wire, UNCHANGED jobs
      PROVE  Named'
  BY <1>0, <1>5 DEF Named
<1>6. CASE (Agent /\ ~ Send) \/ (\E r \in wire : GatewayRejects(r)) \/ UNCHANGED vars
  BY <1>5, <1>6 DEF Agent, Collect, LateCollect, Expire, FlushEnds, SendFails, Acked, Shutdown,
                    Exit, Crash, Restart, GatewayRejects, vars
<1> QED
  BY <1>1, <1>2, <1>3, <1>4, <1>6 DEF Next, Gateway, Ingest

LEMMA StepPersisted ==
    ASSUME TypeInv, BufferInv, SessionInv, [Next]_vars, Clean'
    PROVE  Persisted'
<1>0. /\ Persisted /\ TypeOK
      /\ \A s \in DOMAIN jobs : \A i \in jobs[s].items : i.datum \in Payloads
  BY CleanBefore DEF SessionInv, TypeInv, TypeOK, Job, Item
<1>1. ASSUME NEW r \in wire, GatewayAccepts(r)
      PROVE  Persisted'
  <2>1. \A s \in DOMAIN jobs' : \/ s \in DOMAIN jobs /\ jobs'[s] = jobs[s]
                                \/ jobs'[s].state = "waiting"
    BY <1>1 DEF GatewayAccepts
  <2>2. UNCHANGED stored
    BY <1>1 DEF GatewayAccepts
  <2> QED
    BY <1>0, <2>1, <2>2 DEF Persisted
<1>2. ASSUME NEW s \in DOMAIN jobs, IngestCompletes(s) \/ IngestFails(s) \/ IngestStalls(s)
      PROVE  Persisted'
  <2>1. PICK state : ProcessorRuns(s, state)
    BY <1>2 DEF IngestCompletes, IngestFails, IngestStalls
  <2>2. \A d \in Payloads : stored[d] > 0 => stored'[d] > 0
    BY <1>0, <1>2, InsertStores DEF IngestCompletes, IngestFails, IngestStalls
  <2>3. \/ \A d \in Payloads : d \in Data(jobs[s].items) => stored'[d] > 0
        \/ jobs'[s].state # "completed"
    <3>1. CASE IngestCompletes(s)
      BY <1>0, <3>1, InsertStores DEF IngestCompletes
    <3>2. CASE IngestFails(s)
      BY <1>0, <3>2, ProcessorRunsOn DEF IngestFails
    <3>3. CASE IngestStalls(s)
      BY <1>0, <3>3, ProcessorRunsOn DEF IngestStalls
    <3> QED
      BY <1>2, <3>1, <3>2, <3>3
  <2>4. /\ DOMAIN jobs' = DOMAIN jobs
        /\ \A t \in DOMAIN jobs : jobs'[t].items = jobs[t].items
        /\ \A t \in DOMAIN jobs \ {s} : jobs'[t] = jobs[t]
    BY <1>0, <2>1, ProcessorRunsOn
  <2>5. ASSUME NEW t \in DOMAIN jobs, jobs'[t].state = "completed", NEW i \in jobs[t].items
        PROVE  stored'[i.datum] > 0
    <3>1. CASE t = s
      BY <1>0, <2>3, <2>5, <3>1 DEF Data
    <3>2. CASE t # s
      BY <1>0, <2>2, <2>4, <2>5, <3>2 DEF Persisted
    <3> QED
      BY <3>1, <3>2
  <2> QED
    BY <2>4, <2>5 DEF Persisted
<1>3. ASSUME NEW s \in DOMAIN jobs, Evict(s)
      PROVE  Persisted'
  <2>1. stored' = stored /\ \A t \in DOMAIN jobs' : t \in DOMAIN jobs /\ jobs'[t] = jobs[t]
    BY <1>3 DEF Evict
  <2> QED
    BY <1>0, <2>1 DEF Persisted
<1>4. CASE Agent \/ (\E r \in wire : GatewayRejects(r)) \/ UNCHANGED vars
  <2>1. UNCHANGED <<jobs, stored>>
    BY <1>4 DEF Agent, Collect, LateCollect, Expire, Send, FlushEnds, SendFails, Acked,
                Shutdown, Exit, Crash, Restart, GatewayRejects, vars
  <2> QED
    BY <1>0, <2>1 DEF Persisted
<1> QED
  BY <1>1, <1>2, <1>3, <1>4 DEF Next, Gateway, Ingest

LEMMA StepWaiting ==
    ASSUME TypeInv, BufferInv, SessionInv, [Next]_vars, Clean'
    PROVE  Waiting'
<1>0. /\ Waiting /\ Names /\ Named /\ Persisted /\ TypeOK
      /\ nextSeq \in Nat /\ req.seq \in Nat
      /\ \A i \in items : i.seq \in Nat /\ i.datum \in Payloads
  BY CleanBefore DEF SessionInv, TypeInv, TypeOK, Request, Item
<1>1. CASE LateCollect
  <2>1. PICK new : Queued(new)
    BY <1>0, <1>1, CollectAndQueueQueues DEF LateCollect
  <2>2. UNCHANGED <<pc, req, replied>>
    BY <1>1 DEF LateCollect
  <2>3. /\ items' \subseteq items \cup new /\ nextSeq' \in Nat /\ nextSeq <= nextSeq'
        /\ \A i \in new : i.seq \in Nat /\ nextSeq <= i.seq
    BY <2>1 DEF Queued, Item
  <2>4. ASSUME pc = "wait"
        PROVE  req.seq < nextSeq' /\ \A i \in items' : req.seq <= i.seq
    BY <1>0, <2>3, <2>4 DEF Waiting
  <2>5. ASSUME replied, NEW i \in items', i.seq = req.seq
        PROVE  Safe(i.datum)'
    <3>1. pc = "wait" /\ req.seq < nextSeq
      BY <1>0, <2>5 DEF Waiting
    <3>2. i \in items
      BY <1>0, <2>3, <2>5, <3>1
    <3>3. Safe(i.datum)
      BY <1>0, <2>5, <3>2 DEF Waiting
    <3> QED
      BY <1>1, <3>3 DEF LateCollect, Safe
  <2>6. replied => pc = "wait"
    BY <1>0 DEF Waiting
  <2> QED
    BY <2>2, <2>4, <2>5, <2>6 DEF Waiting
<1>2. CASE Send
  <2>1. req' = [seq |-> FirstSeq(items), items |-> PeekBatch(items)]
    BY <1>2 DEF Send
  <2>2. /\ \A i \in items : req'.seq <= i.seq
        /\ \E i \in items : req'.seq = i.seq
    <3>1. items \subseteq Item /\ items # {}
      BY <1>0, <1>2 DEF Send, TypeOK
    <3>2. /\ \A i \in items : FirstSeq(items) <= i.seq
          /\ \E i \in PeekBatch(items) : i.seq = FirstSeq(items)
      BY <3>1, FirstSeqIsLeast
    <3>3. PeekBatch(items) \subseteq items
      BY DEF PeekBatch
    <3>4. req'.seq = FirstSeq(items)
      BY <2>1
    <3> QED
      BY <3>2, <3>3, <3>4
  <2>3. UNCHANGED <<items, nextSeq>> /\ ~ replied'
    BY <1>2 DEF Send
  <2> QED
    BY <2>2, <2>3 DEF Waiting, BufferInv
<1>3. ASSUME pc' # "wait", ~ replied'
      PROVE  Waiting'
  BY <1>3 DEF Waiting
<1>4. CASE Collect \/ FlushEnds \/ SendFails \/ Acked \/ Shutdown \/ Exit \/ Crash \/ Restart
  <2>1. replied => pc = "wait"
    BY <1>0 DEF Waiting
  <2>2. pc' # "wait"
    BY <1>4 DEF Collect, FlushEnds, AfterFlush, SendFails, Acked, Shutdown, Exit, Crash, Restart
  <2>3. ~ replied'
    BY <1>4, <2>1 DEF Collect, FlushEnds, SendFails, Acked, Shutdown, Exit, Crash, Restart
  <2> QED
    BY <1>3, <2>2, <2>3
<1>5. ASSUME NEW r \in wire, GatewayAccepts(r)
      PROVE  Waiting'
  <2>1. UNCHANGED <<items, nextSeq, pc, req>> /\ replied' = (replied \/ (pc = "wait" /\ req = r))
    BY <1>5 DEF GatewayAccepts
  <2>2. ASSUME replied, NEW i \in items, i.seq = req.seq
        PROVE  Safe(i.datum)'
    BY <1>0, <2>2, SafeStays DEF Waiting
  <2>3. ASSUME pc = "wait", req = r, NEW i \in items, i.seq = req.seq
        PROVE  Safe(i.datum)'
    <3>1. CASE r.seq \in DOMAIN jobs
      <4>1. PICK j \in jobs[r.seq].items : j.seq = r.seq
        BY <1>0, <3>1 DEF Named
      <4>2. j.datum = i.datum
        BY <1>0, <2>3, <3>1, <4>1, Whereabouts DEF Names
      <4>3. jobs[r.seq].state \in JobState
        BY <1>0, <3>1 DEF TypeOK, Job
      <4>4. CASE jobs[r.seq].state = "completed"
        BY <1>0, <3>1, <4>1, <4>2, <4>4, SafeStays DEF Persisted, Safe
      <4>5. CASE jobs[r.seq].state # "completed"
        BY <1>0, <3>1, <4>1, <4>2, <4>3, <4>5, SafeStays DEF Safe, Data, JobState
      <4> QED
        BY <4>4, <4>5
    <3>2. CASE r.seq \notin DOMAIN jobs
      <4>1. PICK j \in r.items : j.seq = r.seq
        BY <1>0 DEF Named
      <4>2. j.datum = i.datum
        BY <1>0, <2>3, <4>1, Whereabouts DEF Names
      <4>3. /\ r.seq \in DOMAIN jobs'
            /\ jobs'[r.seq].items = r.items /\ jobs'[r.seq].state = "waiting"
        BY <1>5, <3>2, AcceptedJobs
      <4> QED
        BY <4>1, <4>2, <4>3 DEF Safe, Data
    <3> QED
      BY <3>1, <3>2
  <2>4. replied' => pc' = "wait"
    BY <1>0, <2>1 DEF Waiting
  <2>5. pc' = "wait" => req'.seq < nextSeq' /\ \A i \in items' : req'.seq <= i.seq
    BY <1>0, <2>1 DEF Waiting
  <2>6. ASSUME replied', NEW i \in items', i.seq = req'.seq
        PROVE  Safe(i.datum)'
    BY <2>1, <2>2, <2>3, <2>6
  <2> QED
    BY <2>4, <2>5, <2>6 DEF Waiting
<1>6. CASE (\E r \in wire : GatewayRejects(r)) \/ Ingest \/ UNCHANGED vars
  <2>1. UNCHANGED <<items, nextSeq, pc, req, replied>>
    BY <1>6 DEF GatewayRejects, Ingest, IngestCompletes, IngestFails, IngestStalls, ProcessorRuns,
                Evict, agentVars, vars
  <2>2. ASSUME replied, NEW i \in items, i.seq = req.seq
        PROVE  Safe(i.datum)'
    BY <1>0, <2>2, SafeStays DEF Waiting
  <2>3. pc = "wait" => req.seq < nextSeq /\ \A i \in items : req.seq <= i.seq
    BY <1>0 DEF Waiting
  <2>4. replied => pc = "wait"
    BY <1>0 DEF Waiting
  <2> QED
    BY <2>1, <2>2, <2>3, <2>4 DEF Waiting
<1>7. CASE Expire
  <2>1. UNCHANGED <<nextSeq, pc, req, replied, jobs, stored>> /\ items' \subseteq items
    BY <1>7 DEF Expire, DropExpired, From
  <2>2. ASSUME replied, NEW i \in items, i.seq = req.seq
        PROVE  Safe(i.datum)'
    BY <1>0, <2>2, SafeStays DEF Waiting
  <2>3. pc = "wait" => req.seq < nextSeq /\ \A i \in items : req.seq <= i.seq
    BY <1>0 DEF Waiting
  <2>4. replied => pc = "wait"
    BY <1>0 DEF Waiting
  <2> QED
    BY <2>1, <2>2, <2>3, <2>4 DEF Waiting
<1> QED
  BY <1>1, <1>2, <1>4, <1>5, <1>6, <1>7 DEF Next, Agent, Gateway

LEMMA StepKept ==
    ASSUME TypeInv, BufferInv, SessionInv, [Next]_vars, Clean'
    PROVE  Kept'
<1>0. /\ Waiting /\ Kept /\ TypeOK /\ born \in 0..MaxData /\ MaxData \in Nat
      /\ \A i \in items : i.seq \in Nat
      /\ \A d \in 1..born : d \in Payloads
  BY CleanBefore, TelemetryAssumption DEF SessionInv, TypeInv, TypeOK, Item, Payloads
<1>1. ASSUME NEW d \in 1..born,
             Data(items) \cup dropped \subseteq Data(items') \cup dropped'
      PROVE  d \in Data(items') \cup dropped' \/ Safe(d)'
  BY <1>0, <1>1, SafeStays DEF Kept
<1>2. CASE Collect \/ LateCollect
  <2>1. PICK new : Queued(new)
    BY <1>0, <1>2, CollectAndQueueQueues DEF Collect, LateCollect
  <2>2. Data(items) \cup Data(new) \cup dropped \subseteq Data(items') \cup dropped'
    BY <2>1 DEF Queued, Data
  <2>3. born' \in Nat /\ born <= born' /\ \A d \in born + 1..born' : d \in Data(new)
    BY <1>0, <2>1 DEF Queued
  <2>4. ASSUME NEW d \in 1..born'
        PROVE  d \in Data(items') \cup dropped' \/ Safe(d)'
    <3>1. CASE d <= born
      BY <1>0, <1>1, <2>2, <2>4, <3>1
    <3>2. CASE d > born
      BY <1>0, <2>2, <2>3, <2>4, <3>2
    <3> QED
      BY <1>0, <2>4, <3>1, <3>2
  <2> QED
    BY <2>4 DEF Kept
<1>3. CASE Acked
  <2>1. /\ replied /\ items' = {it \in items : it.seq > req.seq}
        /\ UNCHANGED <<born, dropped>>
    BY <1>3 DEF Acked, Ack
  <2>2. req.seq \in Nat
    BY <1>0 DEF TypeOK, Request
  <2>3. ASSUME NEW i \in items, i \notin items'
        PROVE  Safe(i.datum)
    <3>1. req.seq <= i.seq
      BY <1>0, <2>1 DEF Waiting
    <3>2. i.seq = req.seq
      BY <1>0, <2>1, <2>2, <2>3, <3>1
    <3> QED
      BY <1>0, <2>1, <3>2 DEF Waiting
  <2>4. ASSUME NEW d \in 1..born
        PROVE  d \in Data(items') \cup dropped' \/ Safe(d)
    BY <1>0, <2>1, <2>3 DEF Kept, Data
  <2>5. ASSUME NEW d \in 1..born
        PROVE  d \in Data(items') \cup dropped' \/ Safe(d)'
    BY <1>0, <2>4, <2>5, SafeStays
  <2> QED
    BY <2>1, <2>5 DEF Kept
<1>4. CASE Expire \/ Exit \/ Crash
  <2>1. UNCHANGED born
    BY <1>4 DEF Expire, Exit, Crash
  <2>2. Data(items) \cup dropped \subseteq Data(items') \cup dropped'
    BY <1>4 DEF Expire, Exit, Crash, Data
  <2> QED
    BY <1>1, <2>1, <2>2 DEF Kept
<1>5. CASE Gateway \/ Ingest \/ UNCHANGED vars
  <2>1. UNCHANGED <<items, born, dropped>>
    BY <1>5 DEF Gateway, GatewayAccepts, GatewayRejects, Ingest, IngestCompletes, IngestFails,
                IngestStalls, ProcessorRuns, Evict, agentVars, vars
  <2> QED
    BY <1>1, <2>1 DEF Kept
<1>6. CASE Send \/ FlushEnds \/ SendFails \/ Shutdown \/ Restart
  <2>1. UNCHANGED <<items, born, dropped>>
    BY <1>6 DEF Send, FlushEnds, SendFails, Shutdown, Restart
  <2> QED
    BY <1>1, <2>1 DEF Kept
<1> QED
  BY <1>2, <1>3, <1>4, <1>5, <1>6 DEF Next, Agent

-----------------------------------------------------------------------------
(* Theorems *)

\* IInv is an inductive invariant of the specification.
THEOREM Inductive == Spec => []IInv
<1>1. Init => IInv
  BY InitTypes, InitBuffer, InitSession DEF IInv
<1>2. IInv /\ [Next]_vars => IInv'
  <2> SUFFICES ASSUME IInv, [Next]_vars
               PROVE  IInv'
    OBVIOUS
  <2>1. TypeInv' /\ BufferInv'
    BY StepTypes, StepBuffer DEF IInv
  <2>2. SessionInv'
    BY StepCounters, StepNames, StepNamed, StepPersisted, StepWaiting, StepKept DEF IInv, SessionInv
  <2> QED
    BY <2>1, <2>2 DEF IInv
<1> QED
  BY <1>1, <1>2, PTL DEF Spec

\* The variables keep their types, attempt and restarts their bounds.
THEOREM TypeCorrect == Spec => []TypeOK
<1>1. IInv => TypeOK
  BY DEF IInv, TypeInv
<1> QED
  BY <1>1, Inductive, PTL

(***************************************************************************)
(* The buffer drops the oldest first (buffer.go:49-56, 93-110): whatever   *)
(* the limits, the sizes of batches and the faults, a payload the agent    *)
(* gave up is older than every payload it still holds.                     *)
(***************************************************************************)
THEOREM DropsOldestFirst == Spec => []DropOldest
<1>1. IInv => DropOldest
  BY DEF IInv, BufferInv
<1> QED
  BY <1>1, Inductive, PTL

(***************************************************************************)
(* Without a crash or a failed save of the agent, two items with one       *)
(* sequence carry one payload wherever they are (app.go:53-61, 73-78,      *)
(* buffer.go:35-40): the jobId metrics_<agent>_<sequence> is sound then.   *)
(***************************************************************************)
THEOREM SequencesNamePayloads == Spec => []SequenceNamesOnePayload
<1>1. IInv => SequenceNamesOnePayload
  BY DEF IInv, SessionInv, Names, SequenceNamesOnePayload
<1> QED
  BY <1>1, Inductive, PTL

(***************************************************************************)
(* Nor does a payload vanish between the buffer and metric_samples then    *)
(* (scheduler.go:160-178, collector-gateway main.ts:211-219).              *)
(***************************************************************************)
THEOREM PayloadsAreKept == Spec => []NothingVanishes
<1>1. IInv => NothingVanishes
  BY DEF IInv, SessionInv, Kept, Safe, NothingVanishes
<1> QED
  BY <1>1, Inductive, PTL

-----------------------------------------------------------------------------
(* The drop loop *)

\* One run of the loop's body, where g says what the rest of the loop leaves.
Looped(g, S) ==
    [T \in SUBSET S |->
        IF ~Fits(T) /\ T # {} THEN g[{it \in T : it.seq > FirstSeq(T)}] ELSE T]

LEMMA LoopByStep ==
    ASSUME NEW S
    PROVE  DropLoop(S) = (CHOOSE g : g = Looped(g, S))[S]
  BY Zenon DEF DropLoop, Looped

LEMMA OldestOf ==
    ASSUME NEW S, S # {}, \A i \in S : i.seq \in Nat
    PROVE  /\ FirstSeq(S) \in Nat /\ \A i \in S : FirstSeq(S) <= i.seq
           /\ \E i \in S : i.seq = FirstSeq(S)
<1> DEFINE N == {it.seq : it \in S}
<1>1. N \in SUBSET Nat /\ N # {}
  OBVIOUS
<1>2. \E n \in N : \A m \in N : n <= m
  <2> HIDE DEF N
  <2> QED
    BY <1>1, LeastNatural
<1>3. \E n \in N : \A it \in S : n <= it.seq
  BY <1>2
<1>4. FirstSeq(S) \in N /\ \A it \in S : FirstSeq(S) <= it.seq
  BY <1>3 DEF FirstSeq
<1> QED
  BY <1>1, <1>4

\* What does not fit loses its oldest items, what fits nothing.
LEMMA TrimStep ==
    ASSUME NEW T, \A it \in T : it.seq \in Nat
    PROVE  Trim(T) = IF ~Fits(T) /\ T # {}
                     THEN Trim({it \in T : it.seq > FirstSeq(T)}) ELSE T
<1>1. CASE T = {}
  BY <1>1 DEF Trim
<1>2. CASE Fits(T) /\ T # {}
  <2>1. From(T, 0) = T
    BY DEF From
  <2>2. \A it \in T : 0 \in 0..it.seq /\ Fits(From(T, 0))
    BY <1>2, <2>1
  <2> QED
    BY <1>2, <2>2 DEF Trim
<1>3. CASE ~Fits(T) /\ T # {}
  <2> DEFINE U == {it \in T : it.seq > FirstSeq(T)}
  <2>1. PICK m \in Nat : m = FirstSeq(T) /\ \A it \in T : m <= it.seq
    BY <1>3, OldestOf
  <2>2. U = {it \in T : it.seq > m}
    BY <2>1
  <2>3. \A n \in Nat : n <= m => From(T, n) = T
    BY <2>1 DEF From
  <2>4. \A n \in Nat : n > m => From(T, n) = From(U, n)
    BY <2>1, <2>2 DEF From
  <2>5. \A n \in Nat : n <= m => From(U, n) = From(U, m + 1)
    BY <2>1, <2>2 DEF From
  <2>6. ASSUME NEW it \in T, NEW n \in 0..it.seq, Fits(From(T, n))
        PROVE  it \in Trim(U)
    <3>1. n \in Nat /\ n > m
      BY <1>3, <2>1, <2>3, <2>6
    <3>2. Fits(From(U, n)) /\ it \in U
      BY <2>1, <2>2, <2>4, <2>6, <3>1
    <3> QED
      BY <3>2 DEF Trim
  <2>7. ASSUME NEW it \in U, NEW n \in 0..it.seq, Fits(From(U, n))
        PROVE  it \in Trim(T)
    <3>1. it \in T /\ it.seq \in Nat /\ it.seq > m
      BY <2>1, <2>2
    <3>2. CASE n > m
      BY <2>4, <2>7, <3>1, <3>2 DEF Trim
    <3>3. CASE ~(n > m)
      <4>1. m + 1 \in 0..it.seq
        BY <2>1, <3>1
      <4>2. Fits(From(U, m + 1))
        BY <2>1, <2>5, <2>7, <3>3
      <4>3. From(T, m + 1) = From(U, m + 1)
        BY <2>1, <2>4
      <4> QED
        BY <3>1, <4>1, <4>2, <4>3 DEF Trim
    <3> QED
      BY <3>2, <3>3
  <2>8. Trim(T) = Trim(U)
    <3> HIDE DEF U
    <3>1. \A it \in Trim(T) : it \in Trim(U)
      BY <2>6 DEF Trim
    <3>2. \A it \in Trim(U) : it \in Trim(T)
      BY <2>7 DEF Trim
    <3> QED
      BY <3>1, <3>2
  <2> QED
    BY <1>3, <2>8
<1> QED
  BY <1>1, <1>2, <1>3

\* The loop ends with what Trim says.
LEMMA LoopTrims ==
    ASSUME NEW S, IsFiniteSet(S), \A it \in S : it.seq \in Nat
    PROVE  DropLoop(S) = Trim(S)
<1> DEFINE h == [T \in SUBSET S |-> Trim(T)]
<1>1. h = Looped(h, S)
  <2>1. ASSUME NEW T \in SUBSET S
        PROVE  Trim(T) = IF ~Fits(T) /\ T # {} THEN h[{it \in T : it.seq > FirstSeq(T)}] ELSE T
    <3>1. {it \in T : it.seq > FirstSeq(T)} \in SUBSET S
      OBVIOUS
    <3>2. \A it \in T : it.seq \in Nat
      OBVIOUS
    <3> QED
      BY <3>1, <3>2, TrimStep
  <2> QED
    BY <2>1 DEF Looped
<1> DEFINE g == CHOOSE f : f = Looped(f, S)
<1>2. g = Looped(g, S)
  <2> HIDE DEF h
  <2> QED
    BY <1>1, Zenon
<1> HIDE DEF g
<1>3. \A T \in SUBSET S :
        g[T] = IF ~Fits(T) /\ T # {} THEN g[{it \in T : it.seq > FirstSeq(T)}] ELSE T
  <2> DEFINE G == Looped(g, S)
  <2>1. \A T \in SUBSET S :
          G[T] = IF ~Fits(T) /\ T # {} THEN g[{it \in T : it.seq > FirstSeq(T)}] ELSE T
    BY DEF Looped
  <2> HIDE DEF G
  <2>2. g = G
    BY <1>2 DEF G
  <2> QED
    BY <2>1, <2>2
<1> DEFINE Wrong == {T \in SUBSET S : g[T] # Trim(T)}
           Sizes1 == {Cardinality(T) : T \in Wrong}
<1>4. \A T \in SUBSET S : IsFiniteSet(T) /\ Cardinality(T) \in Nat
  BY FS_Subset, FS_CardinalityType
<1>5. ASSUME Wrong # {} PROVE FALSE
  <2>1. Sizes1 \in SUBSET Nat /\ Sizes1 # {}
    BY <1>4, <1>5
  <2>2. \E n \in Sizes1 : \A m \in Sizes1 : n <= m
    <3> HIDE DEF Sizes1
    <3> QED
      BY <2>1, LeastNatural
  <2>3. PICK T \in Wrong : \A R \in Wrong : Cardinality(T) <= Cardinality(R)
    BY <2>2
  <2>4. T \in SUBSET S /\ g[T] # Trim(T)
    OBVIOUS
  <2>5. \A it \in T : it.seq \in Nat
    BY <2>4
  <2>6. ~Fits(T) /\ T # {}
    BY <1>3, <2>4, <2>5, TrimStep
  <2> DEFINE U == {it \in T : it.seq > FirstSeq(T)}
  <2>7. U \in SUBSET S /\ U \in SUBSET T /\ U # T
    BY <2>4, <2>5, <2>6, OldestOf
  <2>8. g[T] = g[U] /\ Trim(T) = Trim(U)
    BY <1>3, <2>4, <2>5, <2>6, TrimStep
  <2> HIDE DEF U
  <2>9. U \in Wrong
    BY <2>4, <2>7, <2>8
  <2>10. Cardinality(U) <= Cardinality(T) /\ Cardinality(U) # Cardinality(T)
    BY <1>4, <2>4, <2>7, FS_Subset
  <2> QED
    BY <1>4, <2>3, <2>4, <2>7, <2>9, <2>10
<1>6. g[S] = Trim(S)
  BY <1>5
<1> QED
  BY <1>6, LoopByStep DEF g

-----------------------------------------------------------------------------
(* Sums over batches of one size *)

\* A sum that takes one item after the other is the number of items times each
\* one's share.
LEMMA SumOfEquals ==
    ASSUME NEW S, IsFiniteSet(S), NEW k \in Nat, NEW g,
           \A T \in SUBSET S :
               g[T] = IF T = {} THEN 0 ELSE k + g[T \ {CHOOSE x \in T : TRUE}]
    PROVE  g[S] = k * Cardinality(S)
<1> DEFINE Wrong == {T \in SUBSET S : g[T] # k * Cardinality(T)}
           Counts == {Cardinality(T) : T \in Wrong}
<1>1. \A T \in SUBSET S : IsFiniteSet(T) /\ Cardinality(T) \in Nat
  BY FS_Subset, FS_CardinalityType
<1>2. ASSUME Wrong # {} PROVE FALSE
  <2>1. Counts \in SUBSET Nat /\ Counts # {}
    BY <1>1, <1>2
  <2>2. \E n \in Counts : \A m \in Counts : n <= m
    <3> HIDE DEF Counts
    <3> QED
      BY <2>1, LeastNatural
  <2>3. PICK T \in Wrong : \A R \in Wrong : Cardinality(T) <= Cardinality(R)
    BY <2>2
  <2>4. T \in SUBSET S /\ g[T] # k * Cardinality(T)
    OBVIOUS
  <2>5. T # {}
    <3>1. Cardinality({}) = 0 /\ k * 0 = 0
      BY FS_EmptySet
    <3> QED
      BY <2>4, <3>1
  <2> DEFINE x == CHOOSE x \in T : TRUE
             U == T \ {x}
  <2>6. x \in T
    BY <2>5
  <2>7. g[T] = k + g[U] /\ U \in SUBSET S
    BY <2>4, <2>5
  <2>8. Cardinality(U) = Cardinality(T) - 1
    <3> HIDE DEF x
    <3> QED
      BY <1>1, <2>4, <2>6, FS_RemoveElement
  <2> HIDE DEF x, U
  <2>9. U \notin Wrong
    BY <1>1, <2>3, <2>4, <2>7, <2>8
  <2>10. g[U] = k * Cardinality(U)
    BY <2>7, <2>9
  <2>11. PICK n \in Nat : n = Cardinality(U) /\ Cardinality(T) = n + 1
    BY <1>1, <2>4, <2>7, <2>8
  <2>12. k * (n + 1) = k + k * n
    OBVIOUS
  <2> QED
    BY <2>4, <2>7, <2>10, <2>11, <2>12
<1> QED
  BY <1>2

\* What MapThenSumSet adds up, written for the two sums of the model.
Bytes(g, S) ==
    [s \in SUBSET S |->
       IF s = {} THEN 0
       ELSE PerSample * (CHOOSE x \in s : TRUE).size + g[s \ {CHOOSE x \in s : TRUE}]]
Counted(g, S) ==
    [s \in SUBSET S |->
       IF s = {} THEN 0
       ELSE (CHOOSE x \in s : TRUE).size + g[s \ {CHOOSE x \in s : TRUE}]]

LEMMA BytesByFold ==
    ASSUME NEW S
    PROVE  QueuedBytes(S) = (CHOOSE g : g = Bytes(g, S))[S]
  BY Zenon DEF QueuedBytes, MapThenSumSet, MapThenFoldSet, Bytes

LEMMA SamplesByFold ==
    ASSUME NEW r
    PROVE  Samples(r) = (CHOOSE g : g = Counted(g, r.items))[r.items]
  BY Zenon DEF Samples, MapThenSumSet, MapThenFoldSet, Counted

\* Such a sum exists: a product is one.
LEMMA ProductAddsUp ==
    ASSUME NEW S, IsFiniteSet(S), NEW k \in Nat, NEW T \in SUBSET S, T # {}
    PROVE  k * Cardinality(T) = k + k * Cardinality(T \ {CHOOSE x \in T : TRUE})
<1> DEFINE x == CHOOSE x \in T : TRUE
<1>1. x \in T
  OBVIOUS
<1>2. IsFiniteSet(T)
  BY FS_Subset
<1> HIDE DEF x
<1>3. Cardinality(T \ {x}) = Cardinality(T) - 1 /\ IsFiniteSet(T \ {x})
  BY <1>1, <1>2, FS_RemoveElement
<1>4. PICK n \in Nat : n = Cardinality(T \ {x}) /\ Cardinality(T) = n + 1
  BY <1>2, <1>3, FS_CardinalityType
<1>5. k * (n + 1) = k + k * n
  OBVIOUS
<1> QED
  BY <1>4, <1>5 DEF x

LEMMA BytesOfEquals ==
    ASSUME NEW S, IsFiniteSet(S), NEW c \in Nat, \A it \in S : it.size = c
    PROVE  QueuedBytes(S) = (PerSample * c) * Cardinality(S)
<1> DEFINE k == PerSample * c
           h == [T \in SUBSET S |-> k * Cardinality(T)]
           g == CHOOSE f : f = Bytes(f, S)
<1>1. k \in Nat
  BY DEF PerSample
<1>2. \A T \in SUBSET S : T # {} => PerSample * (CHOOSE x \in T : TRUE).size = k
  OBVIOUS
<1> HIDE DEF k
<1>3. h = Bytes(h, S)
  <2>1. ASSUME NEW T \in SUBSET S
        PROVE  k * Cardinality(T)
                 = IF T = {} THEN 0
                   ELSE PerSample * (CHOOSE x \in T : TRUE).size + h[T \ {CHOOSE x \in T : TRUE}]
    <3>1. CASE T = {}
      BY <1>1, <3>1, FS_EmptySet
    <3>2. CASE T # {}
      <4>1. k * Cardinality(T) = k + k * Cardinality(T \ {CHOOSE x \in T : TRUE})
        BY <1>1, <3>2, ProductAddsUp
      <4>2. T \ {CHOOSE x \in T : TRUE} \in SUBSET S
        OBVIOUS
      <4> QED
        BY <1>2, <3>2, <4>1, <4>2
    <3> QED
      BY <3>1, <3>2
  <2> QED
    BY <2>1 DEF Bytes
<1>4. g = Bytes(g, S)
  <2> HIDE DEF h
  <2> QED
    BY <1>3, Zenon
<1> HIDE DEF g, h
<1>5. \A T \in SUBSET S : g[T] = IF T = {} THEN 0 ELSE k + g[T \ {CHOOSE x \in T : TRUE}]
  <2> DEFINE G == Bytes(g, S)
  <2>1. \A T \in SUBSET S :
          G[T] = IF T = {} THEN 0
                 ELSE PerSample * (CHOOSE x \in T : TRUE).size + g[T \ {CHOOSE x \in T : TRUE}]
    BY DEF Bytes
  <2> HIDE DEF G
  <2>2. g = G
    BY <1>4 DEF G
  <2> QED
    BY <1>2, <2>1, <2>2
<1>6. g[S] = k * Cardinality(S)
  BY <1>1, <1>5, SumOfEquals
<1> QED
  BY <1>6, BytesByFold DEF g, k

LEMMA SamplesOfEquals ==
    ASSUME NEW r, IsFiniteSet(r.items), NEW c \in Nat, \A it \in r.items : it.size = c
    PROVE  Samples(r) = c * Cardinality(r.items)
<1> DEFINE S == r.items
           h == [T \in SUBSET S |-> c * Cardinality(T)]
           g == CHOOSE f : f = Counted(f, S)
<1>1. IsFiniteSet(S)
  OBVIOUS
<1>2. \A T \in SUBSET S : T # {} => (CHOOSE x \in T : TRUE).size = c
  OBVIOUS
<1> HIDE DEF S
<1>3. h = Counted(h, S)
  <2>1. ASSUME NEW T \in SUBSET S
        PROVE  c * Cardinality(T)
                 = IF T = {} THEN 0
                   ELSE (CHOOSE x \in T : TRUE).size + h[T \ {CHOOSE x \in T : TRUE}]
    <3>1. CASE T = {}
      BY <3>1, FS_EmptySet
    <3>2. CASE T # {}
      <4>1. c * Cardinality(T) = c + c * Cardinality(T \ {CHOOSE x \in T : TRUE})
        BY <1>1, <3>2, ProductAddsUp
      <4>2. T \ {CHOOSE x \in T : TRUE} \in SUBSET S
        OBVIOUS
      <4> QED
        BY <1>2, <3>2, <4>1, <4>2
    <3> QED
      BY <3>1, <3>2
  <2> QED
    BY <2>1 DEF Counted
<1>4. g = Counted(g, S)
  <2> HIDE DEF h
  <2> QED
    BY <1>3, Zenon
<1> HIDE DEF g, h
<1>5. \A T \in SUBSET S : g[T] = IF T = {} THEN 0 ELSE c + g[T \ {CHOOSE x \in T : TRUE}]
  <2> DEFINE G == Counted(g, S)
  <2>1. \A T \in SUBSET S :
          G[T] = IF T = {} THEN 0
                 ELSE (CHOOSE x \in T : TRUE).size + g[T \ {CHOOSE x \in T : TRUE}]
    BY DEF Counted
  <2> HIDE DEF G
  <2>2. g = G
    BY <1>4 DEF G
  <2> QED
    BY <1>2, <2>1, <2>2
<1>6. g[S] = c * Cardinality(S)
  BY <1>1, <1>5, SumOfEquals
<1>7. Samples(r) = g[S]
  BY SamplesByFold DEF g, S
<1> QED
  BY <1>6, <1>7 DEF S

-----------------------------------------------------------------------------
(* The buffer is finite, and Trim is the drop loop *)

Finite == IsFiniteSet(items)

LEMMA FiniteStep ==
    ASSUME IsFiniteSet(items), [Next]_vars
    PROVE  IsFiniteSet(items')
<1>1. CASE UNCHANGED items
  BY <1>1
<1>2. CASE CollectAndQueue
  <2>1. ASSUME NEW size \in Sizes, EnqueueOne(size)
        PROVE  IsFiniteSet(items')
    <3> DEFINE it == [seq |-> nextSeq, datum |-> born + 1, size |-> size]
    <3>1. items' \in SUBSET (items \cup {it})
      BY <2>1 DEF EnqueueOne, Enqueue, Trim
    <3> HIDE DEF it
    <3> QED
      BY <3>1, FS_AddElement, FS_Subset
  <2>2. ASSUME NEW size1 \in Sizes, NEW size2 \in Sizes, EnqueueTwo(size1, size2)
        PROVE  IsFiniteSet(items')
    <3> DEFINE it1 == [seq |-> nextSeq, datum |-> born + 1, size |-> size1]
               it2 == [seq |-> nextSeq + 1, datum |-> born + 2, size |-> size2]
    <3>1. items' \in SUBSET ((items \cup {it1}) \cup {it2})
      BY <2>2 DEF EnqueueTwo, Enqueue, Trim
    <3> HIDE DEF it1, it2
    <3>2. IsFiniteSet((items \cup {it1}) \cup {it2})
      BY FS_AddElement
    <3> QED
      BY <3>1, <3>2, FS_Subset
  <2> QED
    BY <1>2, <2>1, <2>2 DEF CollectAndQueue
<1>3. CASE items' \subseteq items
  BY <1>3, FS_Subset
<1>4. CASE Agent
  <2>1. CASE Collect \/ LateCollect
    BY <1>2, <2>1 DEF Collect, LateCollect
  <2>2. CASE Expire
    BY <1>3, <2>2 DEF Expire, DropExpired, From
  <2>3. CASE Acked
    BY <1>3, <2>3 DEF Acked, Ack
  <2>4. CASE Exit \/ Crash
    BY <1>3, <2>4 DEF Exit, Crash
  <2>5. CASE Send \/ FlushEnds \/ SendFails \/ Shutdown \/ Restart
    BY <1>1, <2>5 DEF Send, FlushEnds, SendFails, Shutdown, Restart
  <2> QED
    BY <1>4, <2>1, <2>2, <2>3, <2>4, <2>5 DEF Agent
<1>5. CASE Gateway \/ Ingest
  BY <1>1, <1>5 DEF Gateway, GatewayAccepts, GatewayRejects, Ingest, IngestCompletes, IngestFails,
                    IngestStalls, Evict, ProcessorRuns, agentVars
<1>6. CASE UNCHANGED vars
  BY <1>1, <1>6 DEF vars, agentVars
<1> QED
  BY <1>4, <1>5, <1>6 DEF Next

\* Every step of buffer.Limited adds two batches at most or takes some out: the buffer is
\* finite, so Len is a number and the drop loop ends.
THEOREM FiniteBuffer == Spec => []Finite
<1>1. Init => Finite
  BY FS_EmptySet DEF Init, Finite
<1>2. Finite /\ [Next]_vars => Finite'
  BY FiniteStep DEF Finite
<1> QED
  BY <1>1, <1>2, PTL DEF Spec

\* Limited.Enqueue's loop, which drops one item after the other, leaves the longest end of
\* the buffer that fits, whatever the sizes of the batches.
THEOREM LoopKeepsWhatFits == Spec => []TrimIsTheLoop
<1>1. IInv /\ Finite => TrimIsTheLoop
  <2> SUFFICES ASSUME IInv, IsFiniteSet(items)
               PROVE  TrimIsTheLoop
    BY DEF Finite
  <2>1. nextSeq \in Nat /\ \A i \in items : i.seq \in Nat
    BY DEF IInv, TypeInv, TypeOK, Item
  <2>2. ASSUME NEW size \in 1..((MaxBytes \div PerSample) + 1)
        PROVE  LET S == items \cup {[seq |-> nextSeq, datum |-> MaxData, size |-> size]}
               IN  Trim(S) = DropLoop(S)
    <3> DEFINE it == [seq |-> nextSeq, datum |-> MaxData, size |-> size]
    <3>1. it.seq \in Nat
      BY <2>1
    <3> HIDE DEF it
    <3>2. IsFiniteSet(items \cup {it}) /\ \A i \in items \cup {it} : i.seq \in Nat
      BY <2>1, <3>1, FS_AddElement
    <3>3. Trim(items \cup {it}) = DropLoop(items \cup {it})
      BY <3>2, LoopTrims
    <3> QED
      BY <3>3 DEF it
  <2> QED
    BY <2>2 DEF TrimIsTheLoop
<1> QED
  BY <1>1, Inductive, FiniteBuffer, PTL

-----------------------------------------------------------------------------
(* Counting the buffer: order statistics *)

LEMMA ItemFields ==
    ASSUME NEW S, S \subseteq Item
    PROVE  \A i \in S : i.seq \in Nat /\ i.datum \in Payloads /\ i.size \in Sizes
  BY DEF Item

\* Without its oldest item the buffer has one item less.
LEMMA OldestRemoved ==
    ASSUME NEW S, IsFiniteSet(S), S # {}, S \subseteq Item, Ordered(S)
    PROVE  LET U == {i \in S : i.seq > FirstSeq(S)}
           IN  IsFiniteSet(U) /\ Cardinality(U) = Cardinality(S) - 1
<1>1. \A i \in S : i.seq \in Nat
  BY ItemFields
<1>2. /\ FirstSeq(S) \in Nat /\ \A i \in S : FirstSeq(S) <= i.seq
      /\ \E i \in S : i.seq = FirstSeq(S)
  BY <1>1, OldestOf
<1>3. PICK x \in S : x.seq = FirstSeq(S)
  BY <1>2
<1>4. {i \in S : i.seq > FirstSeq(S)} = S \ {x}
  BY <1>1, <1>2, <1>3 DEF Ordered
<1>5. IsFiniteSet(S \ {x}) /\ Cardinality(S \ {x}) = Cardinality(S) - 1
  BY <1>3, FS_RemoveElement
<1> QED
  BY <1>4, <1>5

\* PeekBatch takes PeekItems of the buffer, or what there is.
LEMMA PeekCounts ==
    ASSUME NEW S, IsFiniteSet(S), S \subseteq Item, Ordered(S)
    PROVE  /\ IsFiniteSet(PeekBatch(S))
           /\ Cardinality(PeekBatch(S)) = Smaller(Cardinality(S), PeekItems)
<1> DEFINE Below(i) == {j \in S : j.seq < i.seq}
           n == Cardinality(S)
           R == 0..(n - 1)
           rank == [i \in S |-> Cardinality(Below(i))]
           m == Smaller(n, PeekItems)
<1>0. n \in Nat /\ PeekItems \in Nat \ {0}
  BY FS_CardinalityType, BufferAssumption
<1>1. \A i \in S : i.seq \in Nat
  BY ItemFields
<1>2. \A i \in S : IsFiniteSet(Below(i)) /\ Cardinality(Below(i)) \in Nat
  BY FS_Subset, FS_CardinalityType
<1>3. \A i \in S : Cardinality(Below(i)) \in R
  <2> SUFFICES ASSUME NEW i \in S
               PROVE  Cardinality(Below(i)) \in R
    OBVIOUS
  <2>1. Below(i) \in SUBSET (S \ {i})
    BY <1>1
  <2>2. IsFiniteSet(S \ {i}) /\ Cardinality(S \ {i}) = n - 1
    BY FS_RemoveElement
  <2> HIDE DEF n, Below
  <2>3. Cardinality(Below(i)) <= n - 1
    BY <2>1, <2>2, FS_Subset
  <2> QED
    BY <1>0, <1>2, <2>3
<1>4. \A i, j \in S : i.seq < j.seq => Cardinality(Below(i)) < Cardinality(Below(j))
  <2> SUFFICES ASSUME NEW i \in S, NEW j \in S, i.seq < j.seq
               PROVE  Cardinality(Below(i)) < Cardinality(Below(j))
    OBVIOUS
  <2>1. Below(i) \cup {i} \in SUBSET Below(j) /\ i \notin Below(i)
    BY <1>1
  <2>2. IsFiniteSet(Below(i)) /\ IsFiniteSet(Below(j))
    BY <1>2
  <2>a. Cardinality(Below(i)) \in Nat /\ Cardinality(Below(j)) \in Nat
    BY <1>2
  <2> HIDE DEF Below
  <2>3. Cardinality(Below(i) \cup {i}) = Cardinality(Below(i)) + 1
    BY <2>1, <2>2, FS_AddElement
  <2>4. Cardinality(Below(i) \cup {i}) <= Cardinality(Below(j))
    BY <2>1, <2>2, FS_Subset
  <2> QED
    BY <2>3, <2>4, <2>a
<1>5. \A i, j \in S : i # j => i.seq < j.seq \/ j.seq < i.seq
  BY <1>1 DEF Ordered
<1>6. rank \in [S -> R]
  BY <1>3
<1>7. \A i, j \in S : rank[i] = rank[j] => i = j
  <2> SUFFICES ASSUME NEW i \in S, NEW j \in S, i # j
               PROVE  rank[i] # rank[j]
    OBVIOUS
  <2>1. rank[i] = Cardinality(Below(i)) /\ rank[j] = Cardinality(Below(j))
    OBVIOUS
  <2>2. rank[i] \in Nat /\ rank[j] \in Nat
    BY <1>2, <2>1
  <2>3. rank[i] < rank[j] \/ rank[j] < rank[i]
    BY <1>4, <1>5, <2>1
  <2> QED
    BY <2>2, <2>3
<1>8. IsFiniteSet(R) /\ Cardinality(R) = n
  <2> HIDE DEF n
  <2>1. 0 \in Int /\ n - 1 \in Int
    BY <1>0
  <2>2. IsFiniteSet(R) /\ Cardinality(R) = IF 0 > n - 1 THEN 0 ELSE (n - 1) - 0 + 1
    BY <2>1, FS_Interval
  <2> QED
    BY <1>0, <2>2
<1>9. \A k \in R : \E i \in S : rank[i] = k
  <2>1. rank \in Injection(S, R)
    BY <1>6, <1>7 DEF Injection, IsInjective
  <2> HIDE DEF rank, R
  <2>2. rank \in Surjection(S, R)
    <3> HIDE DEF n
    <3>1. Cardinality(S) = Cardinality(R)
      BY <1>8 DEF n
    <3> QED
      BY <2>1, <3>1, <1>8, FS_Injection
  <2> QED
    BY <2>2 DEF Surjection
<1> DEFINE B == PeekBatch(S)
           low == [i \in B |-> rank[i]]
<1>10. B = {i \in S : rank[i] < PeekItems}
  BY DEF PeekBatch
<1>11. m \in Nat /\ (\A k \in Nat : k < m <=> k < n /\ k < PeekItems) /\ 0..(m - 1) \subseteq R
  BY <1>0 DEF Smaller
<1>12. low \in Bijection(B, 0..(m - 1))
  <2> HIDE DEF rank, n, m
  <2>1. low \in [B -> 0..(m - 1)]
    <3>1. ASSUME NEW i \in B
          PROVE  rank[i] \in 0..(m - 1)
      <4>1. rank[i] \in R /\ rank[i] < PeekItems
        BY <1>6, <1>10
      <4> QED
        BY <1>0, <1>11, <4>1
    <3> QED
      BY <3>1
  <2>2. \A i, j \in B : low[i] = low[j] => i = j
    BY <1>7, <1>10
  <2>3. \A k \in 0..(m - 1) : \E i \in B : low[i] = k
    <3> SUFFICES ASSUME NEW k \in 0..(m - 1)
                 PROVE  \E i \in B : low[i] = k
      OBVIOUS
    <3>1. k \in R /\ k < PeekItems
      BY <1>11
    <3>2. PICK i \in S : rank[i] = k
      BY <1>9, <3>1
    <3>3. i \in B
      BY <1>10, <3>1, <3>2
    <3> QED
      BY <3>2, <3>3
  <2> HIDE DEF B, low
  <2> QED
    BY <2>1, <2>2, <2>3 DEF Bijection, Injection, IsInjective, Surjection
<1>13. B \in SUBSET S
  BY <1>10
<1> HIDE DEF B, low, rank, R, n, m
<1>14. IsFiniteSet(B)
  BY <1>13, FS_Subset
<1>15. ExistsBijection(B, 0..(m - 1))
  BY <1>12 DEF ExistsBijection
<1>16. Cardinality(0..(m - 1)) = Cardinality(B)
  BY <1>14, <1>15, FS_Bijection
<1>17. Cardinality(0..(m - 1)) = m
  <2>1. 0 \in Int /\ m - 1 \in Int
    BY <1>11
  <2>2. Cardinality(0..(m - 1)) = IF 0 > m - 1 THEN 0 ELSE (m - 1) - 0 + 1
    BY <2>1, FS_Interval
  <2> QED
    BY <1>11, <2>2
<1> QED
  BY <1>14, <1>16, <1>17 DEF B, m, n

-----------------------------------------------------------------------------
(* AgentTelemetry implements AgentBacklog, when batches have one size *)

\* Every batch has one size, and the byte limit is never the first to be reached.
OneSize == \E c \in Nat : Sizes = {c} /\ (PerSample * c) * MaxItems <= MaxBytes

LEMMA FitsIsCount ==
    ASSUME OneSize, NEW S, IsFiniteSet(S), S \subseteq Item
    PROVE  Fits(S) <=> Cardinality(S) <= MaxItems
<1>1. PICK c \in Nat : Sizes = {c} /\ (PerSample * c) * MaxItems <= MaxBytes
  BY DEF OneSize
<1>2. \A it \in S : it.size = c
  BY <1>1, ItemFields
<1>3. QueuedBytes(S) = (PerSample * c) * Cardinality(S)
  BY <1>2, BytesOfEquals
<1>4. PICK k \in Nat : k = PerSample * c
  BY DEF PerSample
<1>5. PICK n \in Nat : n = Cardinality(S)
  BY FS_CardinalityType
<1>6. MaxItems \in Nat /\ MaxBytes \in Nat
  BY BufferAssumption
<1>7. n <= MaxItems => k * n <= k * MaxItems /\ k * n \in Nat /\ k * MaxItems \in Nat
  <2> SUFFICES ASSUME n <= MaxItems
               PROVE  k * n <= k * MaxItems /\ k * n \in Nat /\ k * MaxItems \in Nat
    OBVIOUS
  <2>1. PICK d \in Nat : MaxItems = n + d
    <3>1. MaxItems - n \in Nat /\ MaxItems = n + (MaxItems - n)
      BY <1>6
    <3> QED
      BY <3>1
  <2>2. k * (n + d) = k * n + k * d /\ k * d \in Nat /\ k * n \in Nat
    OBVIOUS
  <2> QED
    BY <2>1, <2>2
<1>8. n <= MaxItems => k * n <= MaxBytes
  BY <1>1, <1>4, <1>6, <1>7
<1> QED
  BY <1>3, <1>4, <1>5, <1>8 DEF Fits

\* An Enqueue adds an item, or replaces the oldest by it when the buffer is full.
LEMMA EnqueueCounts ==
    ASSUME OneSize, NEW S, IsFiniteSet(S), S \subseteq Item, Ordered(S),
           Cardinality(S) <= MaxItems,
           NEW it \in Item, \A i \in S : i.seq < it.seq /\ i.datum < it.datum
    PROVE  /\ IsFiniteSet(Enqueue(S, it)) /\ Enqueue(S, it) \subseteq S \cup {it}
           /\ Cardinality(Enqueue(S, it)) = Smaller(Cardinality(S) + 1, MaxItems)
<1> DEFINE T == S \cup {it}
<1>1. it.seq \in Nat /\ \A i \in T : i.seq \in Nat
  BY DEF Item
<1>2. it \notin S
  BY <1>1
<1>3. IsFiniteSet(T) /\ Cardinality(T) = Cardinality(S) + 1
  BY <1>2, FS_AddElement
<1>4. Ordered(T)
  BY <1>1, ItemFields DEF Ordered, Payloads, Item
<1>5. T \subseteq Item /\ T # {} /\ Cardinality(S) \in Nat /\ MaxItems \in Nat
  BY FS_CardinalityType, BufferAssumption
<1> HIDE DEF T
<1>6. Enqueue(S, it) = Trim(T)
  BY DEF Enqueue, T
<1>7. CASE Cardinality(T) <= MaxItems
  <2>1. Trim(T) = T
    BY <1>1, <1>3, <1>5, <1>7, TrimStep, FitsIsCount
  <2> QED
    BY <1>3, <1>5, <1>6, <1>7, <2>1 DEF T, Smaller
<1>8. CASE ~(Cardinality(T) <= MaxItems)
  <2> DEFINE U == {i \in T : i.seq > FirstSeq(T)}
  <2>1. IsFiniteSet(U) /\ Cardinality(U) = Cardinality(T) - 1 /\ U \subseteq T
    BY <1>3, <1>4, <1>5, OldestRemoved
  <2>2. Trim(T) = Trim(U)
    BY <1>1, <1>3, <1>5, <1>8, TrimStep, FitsIsCount
  <2> HIDE DEF U
  <2>3. Cardinality(U) <= MaxItems /\ U \subseteq Item
    BY <1>3, <1>5, <2>1
  <2>4. Fits(U) /\ \A i \in U : i.seq \in Nat
    BY <1>1, <2>1, <2>3, FitsIsCount
  <2>5. Trim(U) = U
    BY <2>4, TrimStep
  <2>6. Cardinality(U) = Smaller(Cardinality(S) + 1, MaxItems)
    BY <1>3, <1>5, <1>8, <2>1 DEF Smaller
  <2> QED
    BY <1>6, <2>1, <2>2, <2>5, <2>6 DEF T
<1> QED
  BY <1>7, <1>8

\* What a collection leaves: up to two items more, and never too many.
LEMMA CollectCounts ==
    ASSUME OneSize, TypeInv, BufferInv, IsFiniteSet(items), Cardinality(items) <= MaxItems,
           CollectAndQueue
    PROVE  /\ Cardinality(items') <= MaxItems
           /\ \E k \in {0, 1, 2} :
                 Cardinality(items') = Smaller(Cardinality(items) + k, MaxItems)
<1>1. /\ items \subseteq Item /\ Ordered(items) /\ nextSeq \in Nat /\ born \in Nat
      /\ \A i \in items : i.seq < nextSeq /\ i.datum <= born /\ i.seq \in Nat /\ i.datum \in Nat
      /\ MaxData \in Nat
  BY TelemetryAssumption DEF TypeInv, TypeOK, BufferInv, Item, Payloads
<1>2. PICK n \in Nat : n = Cardinality(items) /\ n <= MaxItems
  BY FS_CardinalityType
<1>3. MaxItems \in Nat
  BY BufferAssumption
<1>4. CASE UNCHANGED items
  <2>1. Cardinality(items') = Smaller(n + 0, MaxItems)
    BY <1>2, <1>3, <1>4 DEF Smaller
  <2> QED
    BY <1>2, <1>4, <2>1
<1>5. ASSUME NEW size \in Sizes, EnqueueOne(size)
      PROVE  Cardinality(items') = Smaller(n + 1, MaxItems)
  <2> DEFINE it == [seq |-> nextSeq, datum |-> born + 1, size |-> size]
  <2>1. it \in Item /\ it.seq = nextSeq /\ it.datum = born + 1
    BY <1>1, <1>5 DEF EnqueueOne, Item, Payloads
  <2>2. items' = Enqueue(items, it)
    BY <1>5 DEF EnqueueOne
  <2> HIDE DEF it
  <2>3. \A i \in items : i.seq < it.seq /\ i.datum < it.datum
    BY <1>1, <2>1
  <2> QED
    BY <1>1, <1>2, <2>1, <2>2, <2>3, EnqueueCounts
<1>6. ASSUME NEW size1 \in Sizes, NEW size2 \in Sizes, EnqueueTwo(size1, size2)
      PROVE  Cardinality(items') = Smaller(n + 2, MaxItems)
  <2> DEFINE it1 == [seq |-> nextSeq, datum |-> born + 1, size |-> size1]
             it2 == [seq |-> nextSeq + 1, datum |-> born + 2, size |-> size2]
             S == Enqueue(items, it1)
  <2>1. /\ it1 \in Item /\ it1.seq = nextSeq /\ it1.datum = born + 1
        /\ it2 \in Item /\ it2.seq = nextSeq + 1 /\ it2.datum = born + 2
    BY <1>1, <1>6 DEF EnqueueTwo, Item, Payloads
  <2>2. items' = Enqueue(S, it2)
    BY <1>6 DEF EnqueueTwo
  <2> HIDE DEF it1, it2
  <2>3. \A i \in items : i.seq < it1.seq /\ i.datum < it1.datum
    BY <1>1, <2>1
  <2>4. /\ IsFiniteSet(S) /\ S \subseteq items \cup {it1}
        /\ Cardinality(S) = Smaller(n + 1, MaxItems)
    BY <1>1, <1>2, <2>1, <2>3, EnqueueCounts
  <2>5. S \subseteq Item
    BY <1>1, <2>1, <2>4
  <2>6. Ordered(S)
    <3>1. Ordered(items \cup {it1})
      BY <1>1, <2>1, <2>3 DEF Ordered
    <3> HIDE DEF S
    <3> QED
      BY <2>4, <3>1 DEF Ordered
  <2>7. \A i \in S : i.seq < it2.seq /\ i.datum < it2.datum
    BY <1>1, <2>1, <2>4
  <2>8. Cardinality(S) <= MaxItems /\ Cardinality(S) \in Nat
    BY <1>2, <1>3, <2>4 DEF Smaller
  <2> HIDE DEF S
  <2>9. Cardinality(items') = Smaller(Cardinality(S) + 1, MaxItems)
    BY <2>1, <2>2, <2>4, <2>5, <2>6, <2>7, <2>8, EnqueueCounts
  <2> QED
    BY <1>2, <1>3, <2>4, <2>9 DEF Smaller
<1>7. \A k \in {0, 1, 2} : Smaller(n + k, MaxItems) <= MaxItems
  BY <1>2, <1>3 DEF Smaller
<1> QED
  BY <1>2, <1>4, <1>5, <1>6, <1>7 DEF CollectAndQueue

\* The request that the loop waits for, as long as no late tick can change the buffer: it
\* holds the oldest items.  Answered, it was no larger than the gateway's limit.
Unstopped ==
    pc = "wait" /\ stopping = FALSE =>
        items # {} /\ req.seq = FirstSeq(items) /\ req.items = PeekBatch(items)
Oldest == pc = "wait" => req.seq < nextSeq /\ \A i \in items : req.seq <= i.seq
Answered ==
    replied = TRUE => pc = "wait" /\ Samples(req) <= MaxBatchSamples

Flow == Cardinality(items) <= MaxItems /\ Unstopped /\ Oldest /\ Answered

\* What the steps of the refinement use of the state.
LEMMA FlowTyped ==
    ASSUME TypeInv, BufferInv
    PROVE  /\ items \subseteq Item /\ Ordered(items) /\ nextSeq \in Nat /\ req.seq \in Nat
           /\ \A i \in items : i.seq \in Nat /\ i.seq < nextSeq
           /\ stopping \in BOOLEAN /\ replied \in BOOLEAN
  BY DEF TypeInv, TypeOK, BufferInv, Item, Request

LEMMA CountsBounded ==
    ASSUME OneSize, TypeInv, BufferInv, IsFiniteSet(items), Flow, [Next]_vars
    PROVE  Cardinality(items') <= MaxItems
<1>0. Cardinality(items) <= MaxItems /\ MaxItems \in Nat /\ Cardinality(items) \in Nat
  BY BufferAssumption, FS_CardinalityType DEF Flow
<1>1. CASE UNCHANGED items
  BY <1>0, <1>1
<1>2. CASE CollectAndQueue
  BY <1>0, <1>2, CollectCounts
<1>3. CASE items' \subseteq items
  <2>1. IsFiniteSet(items') /\ Cardinality(items') <= Cardinality(items)
    BY <1>3, FS_Subset
  <2> QED
    BY <1>0, <2>1, FS_CardinalityType
<1>4. CASE Agent
  <2>1. CASE Collect \/ LateCollect
    BY <1>2, <2>1 DEF Collect, LateCollect
  <2>2. CASE Expire
    BY <1>3, <2>2 DEF Expire, DropExpired, From
  <2>3. CASE Acked
    BY <1>3, <2>3 DEF Acked, Ack
  <2>4. CASE Exit \/ Crash
    BY <1>3, <2>4 DEF Exit, Crash
  <2>5. CASE Send \/ FlushEnds \/ SendFails \/ Shutdown \/ Restart
    BY <1>1, <2>5 DEF Send, FlushEnds, SendFails, Shutdown, Restart
  <2> QED
    BY <1>4, <2>1, <2>2, <2>3, <2>4, <2>5 DEF Agent
<1>5. CASE Gateway \/ Ingest
  BY <1>1, <1>5 DEF Gateway, GatewayAccepts, GatewayRejects, Ingest, IngestCompletes, IngestFails,
                    IngestStalls, Evict, ProcessorRuns, agentVars
<1>6. CASE UNCHANGED vars
  BY <1>1, <1>6 DEF vars, agentVars
<1> QED
  BY <1>4, <1>5, <1>6 DEF Next

\* The step Send, and the steps taken while the loop waits.
LEMMA SendFlows ==
    ASSUME TypeInv, BufferInv, Send
    PROVE  Unstopped' /\ Oldest' /\ Answered'
<1>1. /\ items # {} /\ UNCHANGED <<items, nextSeq, stopping>> /\ replied' = FALSE
      /\ req' = [seq |-> FirstSeq(items), items |-> PeekBatch(items)]
  BY DEF Send
<1>2. req'.seq = FirstSeq(items) /\ req'.items = PeekBatch(items)
  BY <1>1
<1>3. \A i \in items : FirstSeq(items) <= i.seq
  BY <1>1, FlowTyped, OldestOf
<1>4. \E i \in items : FirstSeq(items) = i.seq
  BY <1>1, FlowTyped, OldestOf
<1>5. Oldest'
  BY <1>1, <1>2, <1>3, <1>4, FlowTyped DEF Oldest
<1> QED
  BY <1>1, <1>2, <1>5 DEF Unstopped, Answered

LEMMA LateFlows ==
    ASSUME TypeInv, BufferInv, Flow, LateCollect
    PROVE  Unstopped' /\ Oldest' /\ Answered'
<1>1. stopping = TRUE /\ UNCHANGED <<pc, req, replied, stopping>> /\ CollectAndQueue
  BY FlowTyped DEF LateCollect
<1>2. PICK new : Queued(new)
  BY <1>1, CollectAndQueueQueues DEF TypeInv
<1>3. /\ items' \subseteq items \cup new /\ nextSeq' \in Nat /\ nextSeq <= nextSeq'
      /\ \A i \in new : i.seq \in Nat /\ nextSeq <= i.seq
  BY <1>2 DEF Queued, Item
<1>4. Oldest'
  BY <1>1, <1>3, FlowTyped DEF Flow, Oldest
<1>5. Samples(req)' = Samples(req)
  BY <1>1
<1> QED
  BY <1>1, <1>4, <1>5 DEF Flow, Unstopped, Answered

LEMMA ExpireFlows ==
    ASSUME TypeInv, BufferInv, Flow, Expire
    PROVE  Unstopped' /\ Oldest' /\ Answered'
<1>1. /\ pc = "idle" \/ stopping = TRUE
      /\ UNCHANGED <<pc, req, replied, stopping, nextSeq>> /\ items' \subseteq items
  BY FlowTyped DEF Expire, DropExpired, From
<1>2. Samples(req)' = Samples(req)
  BY <1>1
<1> QED
  BY <1>1, <1>2 DEF Flow, Unstopped, Oldest, Answered

LEMMA AcceptFlows ==
    ASSUME TypeInv, BufferInv, Flow, NEW r \in wire, GatewayAccepts(r)
    PROVE  Unstopped' /\ Oldest' /\ Answered'
<1>1. /\ UNCHANGED <<pc, req, stopping, nextSeq, items>> /\ Samples(r) <= MaxBatchSamples
      /\ replied' = (replied \/ (pc = "wait" /\ req = r))
  BY DEF GatewayAccepts
<1>2. Samples(req)' = Samples(req)
  BY <1>1
<1>3. replied' = TRUE => replied = TRUE \/ (pc = "wait" /\ req = r)
  BY <1>1, FlowTyped
<1>4. Answered'
  BY <1>1, <1>2, <1>3 DEF Flow, Answered
<1> QED
  BY <1>1, <1>4 DEF Flow, Unstopped, Oldest

LEMMA FlowStep ==
    ASSUME OneSize, TypeInv, BufferInv, IsFiniteSet(items), Flow, [Next]_vars
    PROVE  Flow'
<1>1. Unstopped' /\ Oldest' /\ Answered'
  <2>1. CASE Send
    BY <2>1, SendFlows
  <2>2. CASE LateCollect
    BY <2>2, LateFlows
  <2>3. CASE Expire
    BY <2>3, ExpireFlows
  <2>4. CASE Collect \/ FlushEnds \/ SendFails \/ Acked \/ Shutdown \/ Exit \/ Crash \/ Restart
    <3>1. replied = TRUE => pc = "wait"
      BY DEF Flow, Answered
    <3>2. pc' # "wait"
      BY <2>4 DEF Collect, FlushEnds, AfterFlush, SendFails, Acked, Shutdown, Exit, Crash, Restart
    <3>3. replied' = FALSE \/ (replied' = replied /\ pc # "wait")
      BY <2>4 DEF Collect, FlushEnds, SendFails, Acked, Shutdown, Exit, Crash, Restart
    <3> QED
      BY <3>1, <3>2, <3>3 DEF Unstopped, Oldest, Answered
  <2>5. ASSUME NEW r \in wire, GatewayAccepts(r)
        PROVE  Unstopped' /\ Oldest' /\ Answered'
    BY <2>5, AcceptFlows
  <2>6. CASE UNCHANGED agentVars
    <3>1. UNCHANGED <<pc, req, replied, stopping, nextSeq, items>>
      BY <2>6 DEF agentVars
    <3>2. Samples(req)' = Samples(req)
      BY <3>1
    <3> QED
      BY <3>1, <3>2 DEF Flow, Unstopped, Oldest, Answered
  <2>7. CASE Agent
    BY <2>1, <2>2, <2>3, <2>4, <2>7 DEF Agent
  <2>8. CASE Gateway
    BY <2>5, <2>6, <2>8 DEF Gateway, GatewayRejects
  <2>9. CASE Ingest
    BY <2>6, <2>9 DEF Ingest, IngestCompletes, IngestFails, IngestStalls, Evict, ProcessorRuns
  <2>10. CASE UNCHANGED vars
    BY <2>6, <2>10 DEF vars
  <2> QED
    BY <2>7, <2>8, <2>9, <2>10 DEF Next
<1> QED
  BY <1>1, CountsBounded DEF Flow

\* The refinement: each step of the agent is one of AgentBacklog's, or none.
LEMMA CollectIsCollect ==
    ASSUME OneSize, TypeInv, BufferInv, IsFiniteSet(items), Flow, Collect \/ LateCollect
    PROVE  Backlog!Collect \/ Backlog!LateCollect
<1>1. \E k \in {0, 1, 2} : Cardinality(items') = Smaller(Cardinality(items) + k, MaxItems)
  BY CollectCounts DEF Flow, Collect, LateCollect
<1>2. Backlog!Arrive
  BY <1>1 DEF Backlog!Arrive, Backlog!Smaller, Smaller
<1>3. CASE Collect
  BY <1>2, <1>3 DEF Collect, Backlog!Collect
<1>4. CASE LateCollect
  BY <1>2, <1>4 DEF LateCollect, Backlog!LateCollect
<1> QED
  BY <1>3, <1>4

LEMMA ExpireIsExpire ==
    ASSUME IsFiniteSet(items), Expire
    PROVE  Backlog!Expire
<1>1. items' \in SUBSET items
  BY DEF Expire, DropExpired, From
<1>2. Cardinality(items') \in 0..Cardinality(items)
  BY <1>1, FS_Subset, FS_CardinalityType
<1> QED
  BY <1>2 DEF Expire, Backlog!Expire

LEMMA FlushEndsIsGiveUp ==
    ASSUME FlushEnds
    PROVE  Backlog!GiveUp
<1>1. items = {} => Cardinality(items) = 0
  BY FS_EmptySet
<1> QED
  BY <1>1 DEF FlushEnds, AfterFlush, Backlog!GiveUp, Backlog!Done

LEMMA NotEmptyCounts ==
    ASSUME IsFiniteSet(items), items # {}
    PROVE  Cardinality(items) \in Nat /\ Cardinality(items) > 0
  BY FS_EmptySet, FS_CardinalityType

LEMMA SendFailsIsSendFails ==
    ASSUME TypeInv, BufferInv, IsFiniteSet(items), Flow, SendFails
    PROVE  Backlog!SendFails
<1>1. attempt < MaxAttempts
  BY DEF TypeInv, SendFails
<1>2. stopping \/ Cardinality(items) > 0
  BY FlowTyped, NotEmptyCounts DEF Flow, Unstopped, SendFails
<1>3. pc = "wait" /\ attempt' = attempt + 1 /\ UNCHANGED <<items, stopping>>
      /\ pc' \in {"flush"} \cup (IF stopping THEN {"persist"} ELSE {})
  BY DEF SendFails
<1> QED
  BY <1>1, <1>2, <1>3 DEF Backlog!SendFails

\* The ack takes the request's first item out, if it is still there.
LEMMA AckCounts ==
    ASSUME TypeInv, BufferInv, IsFiniteSet(items), Flow, Acked
    PROVE  \/ Cardinality(items) > 0 /\ Cardinality(items') = Cardinality(items) - 1
           \/ stopping /\ Cardinality(items') = Cardinality(items)
<1>1. /\ items' = {i \in items : i.seq > req.seq} /\ pc = "wait"
      /\ \A i \in items : req.seq <= i.seq
  BY DEF Acked, Ack, Flow, Oldest
<1>2. CASE \E x \in items : x.seq = req.seq
  <2>1. PICK x \in items : x.seq = req.seq
    BY <1>2
  <2>2. items' = items \ {x}
    BY <1>1, <2>1, FlowTyped DEF Ordered
  <2>3. Cardinality(items \ {x}) = Cardinality(items) - 1
    BY <2>1, FS_RemoveElement
  <2> QED
    BY <2>1, <2>2, <2>3, NotEmptyCounts
<1>3. CASE ~(\E x \in items : x.seq = req.seq)
  <2>1. items' = items
    BY <1>1, <1>3, FlowTyped
  <2>2. stopping = FALSE => \E x \in items : x.seq = req.seq
    BY <1>1, FlowTyped, OldestOf DEF Flow, Unstopped
  <2>3. stopping = TRUE
    BY <1>3, <2>2, FlowTyped
  <2> QED
    BY <2>1, <2>3
<1> QED
  BY <1>2, <1>3

LEMMA AckedIsSendOk ==
    ASSUME OneSize, TypeInv, BufferInv, IsFiniteSet(items), Flow, Acked
    PROVE  Backlog!SendOk
<1>1. /\ pc = "wait" /\ replied = TRUE /\ pc' = AfterFlush /\ UNCHANGED <<attempt, stopping>>
      /\ attempt < MaxAttempts
  BY FlowTyped DEF Acked, TypeInv
<1>2. stopping = FALSE => /\ Cardinality(items) > 0
                          /\ req.items = PeekBatch(items) /\ Samples(req) <= MaxBatchSamples
  BY <1>1, NotEmptyCounts DEF Flow, Unstopped, Answered
<1>3. PICK c \in Nat : Sizes = {c}
  BY DEF OneSize
<1>4. (CHOOSE n \in Sizes : TRUE) = c
  BY <1>3
<1>5. stopping = FALSE => Smaller(Cardinality(items), PeekItems) * c <= MaxBatchSamples
  <2> SUFFICES ASSUME stopping = FALSE
               PROVE  Smaller(Cardinality(items), PeekItems) * c <= MaxBatchSamples
    OBVIOUS
  <2>1. /\ IsFiniteSet(req.items)
        /\ Cardinality(req.items) = Smaller(Cardinality(items), PeekItems)
    BY <1>2, FlowTyped, PeekCounts
  <2>2. \A it \in req.items : it.size = c
    BY <1>2, <1>3, FlowTyped, ItemFields DEF PeekBatch
  <2>3. Samples(req) = c * Cardinality(req.items)
    BY <2>1, <2>2, SamplesOfEquals
  <2>4. PICK m \in Nat : m = Cardinality(req.items) /\ c * m = m * c
    BY <2>1, FS_CardinalityType
  <2> QED
    BY <1>2, <2>1, <2>3, <2>4
<1>6. stopping \/ stopping = FALSE
  BY FlowTyped
<1>7. /\ stopping \/ Cardinality(items) > 0
      /\ stopping \/ Smaller(Cardinality(items), PeekItems) * c <= MaxBatchSamples
  BY <1>2, <1>5, <1>6
<1>8. \/ Cardinality(items) > 0 /\ Cardinality(items') = Cardinality(items) - 1
      \/ stopping /\ Cardinality(items') = Cardinality(items)
  BY AckCounts
<1> QED
  BY <1>1, <1>4, <1>7, <1>8
     DEF Backlog!SendOk, Backlog!Carried, Backlog!Done, Backlog!Smaller, Smaller, AfterFlush

LEMMA EndsAndStarts ==
    ASSUME TypeInv, BufferInv, Shutdown \/ Exit \/ Crash \/ Restart
    PROVE  Backlog!Signal \/ Backlog!Die \/ Backlog!Start
<1>1. CASE Shutdown
  BY <1>1 DEF Shutdown, Backlog!Signal
<1>2. CASE Exit
  BY <1>2, FS_EmptySet DEF Exit, Backlog!Die
<1>3. CASE Crash
  <2>1. /\ pc # "down" /\ pc' = "down" /\ Cardinality(items') = 0
        /\ UNCHANGED <<attempt, stopping>>
    BY <1>3, FS_EmptySet DEF Crash
  <2>2. pc \in {"idle", "flush", "wait", "persist"}
    BY <2>1 DEF TypeInv, TypeOK
  <2> QED
    BY <2>1, <2>2 DEF Backlog!Die
<1>4. CASE Restart
  BY <1>4 DEF Restart, Backlog!Start
<1> QED
  BY <1>1, <1>2, <1>3, <1>4

LEMMA Stutters ==
    ASSUME TypeInv, Send \/ Gateway \/ Ingest \/ UNCHANGED vars
    PROVE  UNCHANGED Backlog!vars
<1>1. CASE Send
  BY <1>1 DEF Send, Backlog!vars
<1>2. CASE UNCHANGED <<items, pc, attempt, stopping>>
  BY <1>2 DEF Backlog!vars
<1>3. CASE Gateway \/ Ingest
  BY <1>2, <1>3 DEF Gateway, GatewayAccepts, GatewayRejects, Ingest, IngestCompletes, IngestFails,
                    IngestStalls, Evict, ProcessorRuns, agentVars
<1>4. CASE UNCHANGED vars
  BY <1>2, <1>4 DEF vars, agentVars
<1> QED
  BY <1>1, <1>3, <1>4

LEMMA BacklogStep ==
    ASSUME OneSize, TypeInv, BufferInv, IsFiniteSet(items), Flow, [Next]_vars
    PROVE  [Backlog!Next]_(Backlog!vars)
<1>1. CASE Agent
  BY <1>1, CollectIsCollect, ExpireIsExpire, FlushEndsIsGiveUp, SendFailsIsSendFails,
     AckedIsSendOk, EndsAndStarts, Stutters DEF Agent, Backlog!Next
<1>2. CASE Gateway \/ Ingest \/ UNCHANGED vars
  BY <1>2, Stutters
<1> QED
  BY <1>1, <1>2 DEF Next

\* scheduler.flush, app.Run and the buffer: when batches have one size and MaxItems of them
\* are within MaxBytes, the buffer's length behaves as AgentBacklog says.  In particular
\* every answered flush takes one batch out, and no more.
THEOREM ImplementsBacklog ==
    ASSUME OneSize
    PROVE  Spec => BacklogSpec
<1>1. Init => Flow
  <2>1. Cardinality({}) = 0 /\ MaxItems \in Nat
    BY FS_EmptySet, BufferAssumption
  <2> QED
    BY <2>1 DEF Init, Flow, Unstopped, Oldest, Answered
<1>2. IInv /\ Finite /\ Flow /\ [Next]_vars => Flow'
  BY FlowStep DEF IInv, Finite
<1>3. Spec => []Flow
  BY <1>1, <1>2, Inductive, FiniteBuffer, PTL DEF Spec
<1>4. Init => Backlog!Init
  <2>1. (CHOOSE n \in Sizes : TRUE) \in Sizes
    BY DEF OneSize
  <2> QED
    BY <2>1, FS_EmptySet DEF Init, Backlog!Init
<1>5. IInv /\ Finite /\ Flow /\ [Next]_vars => [Backlog!Next]_(Backlog!vars)
  BY BacklogStep DEF IInv, Finite
<1> QED
  BY <1>3, <1>4, <1>5, Inductive, FiniteBuffer, PTL DEF Spec, BacklogSpec, Backlog!Spec
=============================================================================
