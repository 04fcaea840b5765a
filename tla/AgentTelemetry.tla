--------------------------- MODULE AgentTelemetry ---------------------------
(***************************************************************************)
(* One agent's telemetry from its buffer to the metric store: the agent's  *)
(* scheduler and its persisted sequence (agent/internal/scheduler, app,    *)
(* credentials), the gateway's metrics route with its jobId per sequence   *)
(* (apps/collector-gateway/src/main.ts), the BullMQ queue ingest.metrics   *)
(* (external) and the worker's consumer (apps/worker/src/main.ts).         *)
(*                                                                         *)
(* The agent's loop is one goroutine: it collects, flushes and expires in  *)
(* turn, and a flush waits for the answer of its request.  Requests can be *)
(* lost, answers can be lost, and a request the agent gave up on can still *)
(* reach the gateway later.                                                *)
(***************************************************************************)
EXTENDS AgentBuffer

CONSTANTS
    MaxData,          \* bound: payloads ever collected
    Sizes,            \* samples one collected payload may hold
    MaxBatchSamples,  \* MetricsBatchV1 rejects a larger batch: 5000
    MaxAttempts,      \* attempts of one flush: 5
    MaxRestarts,      \* bound: restarts of the agent process
    MaxStored,        \* bound: where counting the inserts of one payload stops
    MaxWire,          \* bound: requests on their way at once
    MaxFaults         \* bound: how many of PossibleFaults happen, each once

\* The agent dies; credentials.Save fails; the worker dies; a job throws.
PossibleFaults == {"crash", "saveFails", "workerCrash", "jobFails"}

ASSUME TelemetryAssumption ==
    /\ MaxData \in Nat \ {0}
    /\ Sizes \subseteq Nat \ {0}
    /\ MaxBatchSamples \in Nat
    /\ MaxAttempts \in Nat \ {0}
    /\ MaxRestarts \in Nat
    /\ MaxStored \in Nat \ {0}
    /\ MaxWire \in Nat \ {0}
    /\ MaxFaults \in Nat

VARIABLES
    items,      \* Limited.items
    nextSeq,    \* Limited.nextSeq
    memSeq,     \* creds.Sequence of the running process
    savedSeq,   \* "sequence" of agent-state.json
    pc,         \* where the agent is
    attempt,    \* attempt of scheduler.flush
    req,        \* the request the agent waits for
    replied,    \* its 200 answer is on its way
    stopping,   \* the process got SIGINT or SIGTERM
    wire,       \* requests sent and not yet handled by the gateway
    jobs,       \* jobs of ingest.metrics, by the sequence in their jobId
    stored,     \* how often each payload was inserted in metric_samples
    born,       \* history: payloads collected so far
    dropped,    \* history: payloads given up by the agent (overflow, TTL, exit)
    faults,     \* history: the faults that happened
    restarts    \* how often the process was started again

agentVars == <<items, nextSeq, memSeq, savedSeq, pc, attempt, req, replied, stopping>>
vars == <<agentVars, wire, jobs, stored, born, dropped, faults, restarts>>

Payloads == 1..MaxData
Item == [seq : Nat, datum : Payloads, size : Sizes]
Request == [seq : Nat, items : SUBSET Item]
NoRequest == [seq |-> 0, items |-> {}]
JobState == {"waiting", "completed", "failed"}
Job == [state : JobState, items : SUBSET Item]

\* Mutant of Larger: a first start begins with sequence 0.
FirstOf(a, b) == a

Smaller(a, b) == IF a < b THEN a ELSE b
Larger(a, b) == IF a > b THEN a ELSE b

Init ==
    /\ items = {} /\ nextSeq = 1 /\ memSeq = 0 /\ savedSeq = 0
    /\ pc = "idle" /\ attempt = 0 /\ req = NoRequest /\ replied = FALSE
    /\ stopping = FALSE
    /\ wire = {} /\ jobs = [s \in {} |-> {}]
    /\ stored = [d \in Payloads |-> 0]
    /\ born = 0 /\ dropped = {}
    /\ faults = {} /\ restarts = 0

Fault(kind) ==
    /\ kind \notin faults /\ Cardinality(faults) < MaxFaults
    /\ faults' = faults \cup {kind}

-----------------------------------------------------------------------------
(* The agent *)

\* k Enqueue calls in a row, as collectAndQueue makes them: the host's item,
\* then the containers' item when docker answers.
EnqueueOne(size) ==
    LET it == [seq |-> nextSeq, datum |-> born + 1, size |-> size]
    IN  /\ born + 1 <= MaxData
        /\ born' = born + 1
        /\ nextSeq' = nextSeq + 1
        /\ items' = Enqueue(items, it)
        /\ dropped' = dropped \cup (Data(items \cup {it}) \ Data(Enqueue(items, it)))

EnqueueTwo(size1, size2) ==
    LET it1 == [seq |-> nextSeq, datum |-> born + 1, size |-> size1]
        it2 == [seq |-> nextSeq + 1, datum |-> born + 2, size |-> size2]
        S == Enqueue(Enqueue(items, it1), it2)
    IN  /\ born + 2 <= MaxData
        /\ born' = born + 2
        /\ nextSeq' = nextSeq + 2
        /\ items' = S
        /\ dropped' = dropped \cup (Data(items \cup {it1, it2}) \ Data(S))

\* collectAndQueue: a collection may also find nothing to report.
CollectAndQueue ==
    \/ UNCHANGED <<items, nextSeq, born, dropped>>
    \/ \E size \in Sizes : EnqueueOne(size)
    \/ \E size1, size2 \in Sizes : EnqueueTwo(size1, size2)

\* The collect ticker: collectAndQueue, then the first attempt of flush.
Collect ==
    /\ pc = "idle"
    /\ CollectAndQueue
    /\ pc' = "flush" /\ attempt' = 0
    /\ UNCHANGED <<memSeq, savedSeq, req, replied, stopping, wire, jobs, stored, faults, restarts>>

\* select may take one more collect tick after the context is cancelled; its
\* own flush then fails at once, while the main goroutine is flushing.
LateCollect ==
    /\ stopping /\ pc \in {"flush", "wait", "persist"}
    /\ CollectAndQueue
    /\ UNCHANGED <<memSeq, savedSeq, pc, attempt, req, replied, stopping, wire, jobs, stored,
                   faults, restarts>>

\* The drop ticker: DropExpired(24h); it too may be taken once more late.
Expire ==
    /\ pc = "idle" \/ (stopping /\ pc \in {"flush", "wait", "persist"})
    /\ \E cut \in {it.seq : it \in items} :
          /\ items' = DropExpired(items, cut + 1)
          /\ dropped' = dropped \cup Data(items \ items')
    /\ UNCHANGED <<nextSeq, memSeq, savedSeq, pc, attempt, req, replied, stopping, wire, jobs,
                   stored, born, faults, restarts>>

\* Mutant of AfterFlush: the flush goes on after an ack.
FlushAgain == IF stopping THEN "persist" ELSE "flush"

\* Where a flush that ends leaves the agent: Start goes on, Run persists.
AfterFlush == IF stopping THEN "persist" ELSE "idle"

\* One attempt of flush: peek and send.  Of the requests given up earlier, at
\* most MaxWire - 1 are still on their way, the others are lost.
Send ==
    /\ pc = "flush" /\ attempt < MaxAttempts /\ items # {}
    /\ LET batch == PeekBatch(items)
           r == [seq |-> FirstSeq(items), items |-> batch]
       IN  /\ req' = r
           /\ \E late \in SUBSET wire : /\ Cardinality(late) < MaxWire
                                        /\ wire' = late \cup {r}
    /\ pc' = "wait" /\ replied' = FALSE
    /\ UNCHANGED <<items, nextSeq, memSeq, savedSeq, attempt, stopping, jobs, stored, born,
                   dropped, faults, restarts>>

\* flush returns: nothing to send, or the attempts are used up.
FlushEnds ==
    /\ pc = "flush"
    /\ items = {} \/ attempt = MaxAttempts
    /\ pc' = AfterFlush
    /\ UNCHANGED <<items, nextSeq, memSeq, savedSeq, attempt, req, replied, stopping, wire, jobs,
                   stored, born, dropped, faults, restarts>>

\* SendMetrics fails: no answer within 15 s, a broken connection or a status
\* >= 400.  While stopping, the 5 s of the shutdown context may be over, and
\* then the backoff returns its error and flush ends.
SendFails ==
    /\ pc = "wait"
    /\ attempt' = attempt + 1
    /\ pc' \in {"flush"} \cup (IF stopping THEN {"persist"} ELSE {})
    /\ req' = NoRequest /\ replied' = FALSE
    /\ UNCHANGED <<items, nextSeq, memSeq, savedSeq, stopping, wire, jobs, stored, born, dropped,
                   faults, restarts>>

\* Mutant of PersistSequence: it saves the last sequence that was used.
PersistLastUsed ==
    /\ memSeq' = nextSeq - 1 /\ savedSeq' = nextSeq - 1
    /\ UNCHANGED faults

\* credentials.Save writes the sequence, or fails and is only logged.
PersistSequence ==
    IF nextSeq > memSeq
    THEN /\ memSeq' = nextSeq
         /\ \/ savedSeq' = nextSeq /\ UNCHANGED faults
            \/ Fault("saveFails") /\ UNCHANGED savedSeq
    ELSE UNCHANGED <<memSeq, savedSeq, faults>>

\* SendMetrics succeeds: Ack(acked), then the OnFlushed callback of app.Run.
\* The gateway acks the sequence of the request, the first item's.
Acked ==
    /\ pc = "wait" /\ replied
    /\ items' = Ack(items, req.seq)
    /\ PersistSequence
    /\ pc' = AfterFlush
    /\ req' = NoRequest /\ replied' = FALSE
    /\ UNCHANGED <<nextSeq, attempt, stopping, wire, jobs, stored, born, dropped, restarts>>

\* SIGTERM: the context of Start is cancelled, with the request it waits for
\* (an answer that came before the signal is taken before it), and Run calls
\* Flush.
Shutdown ==
    /\ pc \in {"idle", "flush", "wait"} /\ ~stopping
    /\ restarts < MaxRestarts
    /\ stopping' = TRUE
    /\ pc' = "flush" /\ attempt' = 0
    /\ req' = NoRequest /\ replied' = FALSE
    /\ UNCHANGED <<items, nextSeq, memSeq, savedSeq, wire, jobs, stored, born, dropped,
                   faults, restarts>>

\* The last lines of Run; what is still in memory is gone.
Exit ==
    /\ pc = "persist"
    /\ PersistSequence
    /\ pc' = "down"
    /\ items' = {} /\ dropped' = dropped \cup Data(items)
    /\ UNCHANGED <<nextSeq, attempt, req, replied, stopping, wire, jobs, stored, born,
                   restarts>>

\* The process dies without running any of that.
Crash ==
    /\ pc # "down"
    /\ restarts < MaxRestarts
    /\ pc' = "down"
    /\ items' = {} /\ dropped' = dropped \cup Data(items)
    /\ req' = NoRequest /\ replied' = FALSE
    /\ Fault("crash")
    /\ UNCHANGED <<nextSeq, memSeq, savedSeq, attempt, stopping, wire, jobs, stored, born,
                   restarts>>

\* Run starts again from agent-state.json.
Restart ==
    /\ pc = "down"
    /\ pc' = "idle" /\ attempt' = 0 /\ stopping' = FALSE
    /\ memSeq' = savedSeq
    /\ nextSeq' = Larger(savedSeq, 1)
    /\ restarts' = restarts + 1
    /\ UNCHANGED <<items, savedSeq, req, replied, wire, jobs, stored, born, dropped, faults>>

Agent ==
    \/ Collect \/ LateCollect \/ Expire \/ Send \/ FlushEnds \/ SendFails \/ Acked
    \/ Shutdown \/ Exit \/ Crash \/ Restart

-----------------------------------------------------------------------------
(* The gateway *)

\* Number of samples in a request.
Samples(r) == MapThenSumSet(LAMBDA it : it.size, r.items)

\* POST /agents/metrics: the job is added under metrics_<agent>_<sequence>;
\* BullMQ ignores an add whose jobId it still holds; the answer is the same.
GatewayAccepts(r) ==
    /\ Samples(r) <= MaxBatchSamples
    /\ wire' = wire \ {r}
    /\ IF r.seq \in DOMAIN jobs
       THEN UNCHANGED jobs
       ELSE jobs' = [s \in DOMAIN jobs \cup {r.seq} |->
                       IF s = r.seq
                       THEN [state |-> "waiting", items |-> r.items]
                       ELSE jobs[s]]
    /\ replied' = (replied \/ (pc = "wait" /\ req = r))
    /\ UNCHANGED <<items, nextSeq, memSeq, savedSeq, pc, attempt, req, stopping, stored, born,
                   dropped, faults, restarts>>

\* The request is lost, or answered with 400, 401, 403, 429 or 5xx.
GatewayRejects(r) ==
    /\ wire' = wire \ {r}
    /\ UNCHANGED <<agentVars, jobs, stored, born, dropped, faults, restarts>>

-----------------------------------------------------------------------------
(* The queue and the worker's consumer *)

\* createMany of the whole batch: one insert, nothing tells a repeated sample.
Insert(batch) ==
    stored' = [d \in Payloads |->
                 IF d \in Data(batch) THEN Smaller(stored[d] + 1, MaxStored) ELSE stored[d]]

\* One run of the processor on the job: it leaves the job in this state.
ProcessorRuns(s, state) ==
    /\ jobs[s].state = "waiting"
    /\ jobs' = [jobs EXCEPT ![s].state = state]
    /\ UNCHANGED <<agentVars, wire, born, dropped, restarts>>

\* The samples are inserted, the rules run, the processor returns.
IngestCompletes(s) ==
    /\ ProcessorRuns(s, "completed") /\ UNCHANGED faults
    /\ Insert(jobs[s].items)

\* createMany throws, or after it the publish of a rule's event does: the job
\* has one attempt, and BullMQ keeps a failed job (and its jobId).
IngestFails(s) ==
    /\ Fault("jobFails")
    /\ ProcessorRuns(s, "failed")
    /\ Insert(jobs[s].items) \/ UNCHANGED stored

\* The worker dies after the insert (before it, nothing has happened): BullMQ
\* finds the job stalled and queues it again.  It happens once at most, so the
\* second stall of one job, which fails it, is left to IngestFails.
IngestStalls(s) ==
    /\ Fault("workerCrash")
    /\ ProcessorRuns(s, "waiting")
    /\ Insert(jobs[s].items)

\* removeOnComplete 500: jobs of other agents push this one out.
Evict(s) ==
    /\ jobs[s].state = "completed"
    /\ jobs' = [t \in DOMAIN jobs \ {s} |-> jobs[t]]
    /\ UNCHANGED <<agentVars, wire, stored, born, dropped, faults, restarts>>

Gateway == \E r \in wire : GatewayAccepts(r) \/ GatewayRejects(r)

Ingest ==
    \E s \in DOMAIN jobs :
        IngestCompletes(s) \/ IngestFails(s) \/ IngestStalls(s) \/ Evict(s)

Next == Agent \/ Gateway \/ Ingest

Spec == Init /\ [][Next]_vars

-----------------------------------------------------------------------------
(* Properties *)

TypeOK ==
    /\ items \subseteq Item
    /\ nextSeq \in Nat \ {0} /\ memSeq \in Nat /\ savedSeq \in Nat
    /\ pc \in {"idle", "flush", "wait", "persist", "down"}
    /\ attempt \in 0..MaxAttempts
    /\ req \in Request /\ replied \in BOOLEAN /\ stopping \in BOOLEAN
    /\ wire \subseteq Request
    /\ DOMAIN jobs \subseteq Nat /\ jobs \in [DOMAIN jobs -> Job]
    /\ stored \in [Payloads -> Nat]
    /\ born \in 0..MaxData
    /\ dropped \subseteq Payloads
    /\ faults \subseteq PossibleFaults /\ restarts \in 0..MaxRestarts

\* The agent never crashed and never failed to save.
Clean == faults \subseteq {"workerCrash", "jobFails"}

(***************************************************************************)
(* As long as the agent process ends the way Run ends and its saves work,  *)
(* no payload vanishes: it waits in the buffer, was given up and counted,  *)
(* is in a job that waits or that failed, or is in metric_samples.  An ack *)
(* for a job BullMQ ignored, an answer to a request sent before the buffer *)
(* changed, a request the gateway handled after the agent gave up on it,   *)
(* and an evicted jobId lose nothing.                                      *)
(***************************************************************************)
NothingVanishes ==
    Clean => \A d \in 1..born :
        \/ d \in Data(items) \cup dropped
        \/ stored[d] > 0
        \/ \E s \in DOMAIN jobs : d \in Data(jobs[s].items) /\ jobs[s].state \in {"waiting", "failed"}

(***************************************************************************)
(* Every item that exists anywhere (the buffer, a request on its way, a    *)
(* job the queue still holds).                                             *)
(***************************************************************************)
ItemsAnywhere ==
    items \cup (UNION {r.items : r \in wire}) \cup (UNION {jobs[s].items : s \in DOMAIN jobs})

(***************************************************************************)
(* A sequence names one payload for as long as any part of the system can  *)
(* still refer to it, so that a jobId is never taken for another batch's.  *)
(***************************************************************************)
SequenceNamesOnePayload ==
    Clean => \A i, j \in ItemsAnywhere : i.seq = j.seq => i.datum = j.datum

(***************************************************************************)
(* "batch pós-restart nunca colide com jobIds antigos do gateway"          *)
(* (app.go:21-22, agent-buffering.md:23-24): a request whose jobId the     *)
(* queue already holds is a repetition of the batch that made the job.     *)
(***************************************************************************)
RestartNeverCollides ==
    \A r \in wire : r.seq \in DOMAIN jobs =>
        \A i \in r.items, j \in jobs[r.seq].items :
            i.seq = r.seq /\ j.seq = r.seq => i.datum = j.datum

(***************************************************************************)
(* Drop-oldest: whatever the mix of overflow, TTL, acks and restarts, the  *)
(* agent never gives up a payload while it keeps an older one.             *)
(***************************************************************************)
DropOldest == \A d \in dropped, e \in Data(items) : d < e

(***************************************************************************)
(* Trim is what Enqueue's loop leaves, on every buffer a collection can    *)
(* find and a new item that fits, that needs room, or that is larger than  *)
(* the whole buffer (buffer.go:42-58).                                     *)
(***************************************************************************)
TrimIsTheLoop ==
    pc = "idle" => \A size \in 1..((MaxBytes \div PerSample) + 1) :
        LET S == items \cup {[seq |-> nextSeq, datum |-> MaxData, size |-> size]}
        IN  Trim(S) = DropLoop(S)

\* A sample reaches metric_samples and the rules once ("idempotent persist",
\* apps/worker/src/main.ts:101).
StoredOnce == \A d \in Payloads : stored[d] <= 1

(***************************************************************************)
(* The buffer's length behaves as AgentBacklog says, when every payload    *)
(* has one size and that size times MaxItems is within MaxBytes.  In       *)
(* particular one flush takes at most one batch out (scheduler.go:178).    *)
(***************************************************************************)
Backlog == INSTANCE AgentBacklog WITH
    PerCycle <- {0, 1, 2},
    ItemSizes <- Sizes,
    itemSize <- CHOOSE n \in Sizes : TRUE,
    pending <- Cardinality(items),
    phase <- CASE pc = "wait" -> "flush" [] pc = "persist" -> "exit" [] OTHER -> pc

BacklogSpec == Backlog!Spec
=============================================================================
