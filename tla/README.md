# WaOPS in TLA+

WaOPS is a multi-tenant operations platform: an agent on each host collects
samples and sends them to a collector gateway; a worker stores them, evaluates
rules, turns domain events into incidents and notifies people; an API serves the
console and a realtime stream; a web client shows it all. This directory holds
TLA+ modules of those parts, TLC configurations that check them on small
instances, and TLAPS proofs for every instance.

Paths below are relative to the root of the repository.

## 1. Inventory

| Component | State it keeps | Operations | Talks to |
|---|---|---|---|
| Agent buffer `agent/internal/buffer` | items, `nextSeq`, limits (behind one mutex) | Enqueue (drops the oldest), PeekBatch, Ack, DropExpired | scheduler, shutdown code of `app.Run` |
| Agent loop `agent/internal/{scheduler,app,transport,credentials}` | tickers, attempt of a flush, `creds.Sequence`, `agent-state.json` | collect, flush (5 attempts, backoff), heartbeat, enroll, shutdown flush | gateway over HTTP |
| Gateway `apps/collector-gateway` | per-agent window counters; tokens, agents, BullMQ jobs in PostgreSQL and Redis | enrollment, heartbeat, metrics, events | agent, queues, database |
| Worker: metrics `apps/worker/src/main.ts` | rules cache, trackers, `metric_samples` | insert, rules, publish of fired events | queues `ingest.metrics`, `waops.domain-events` |
| Worker: events `main.ts`, `incident.service.ts`, `notifications.ts` | `events` (dedup), `incidents`, `incident_events`, `incident_timeline`, `notification_deliveries` | handleEventEnvelope, openFromEvent, dispatchToChannel | queue, database, mail and webhooks |
| Worker: outbox `outbox.dispatcher.ts` | `outbox_events`, ticks in progress | tick every 500 ms | database, queue |
| API `apps/api/src` | incidents, tickets, agents, tokens, sessions, rate-limit buckets | console routes; SSE broker; rate limiter | database, Redis, web client |
| Web client `apps/web/src/lib` | SSE cursor, dedup window, run token; access token in memory | connect, replay, reconnect; refresh and retry once | broker, API |
| Web pages `apps/web/src/app` | what is shown, loading, busy, reload timer | load, poll, act, submit, reload after frames | API, web client |
| Packages | entitlements, quotas, usage counters; tenancy, authz, contracts, config | checks and counters | all of the above |

What is hard in it:

* **Delivery.** Agent to gateway is at least once with one jobId per *sequence*,
  while a request merges several sequences. Events are delivered at least once
  too: outbox rows, queue retries and stalled jobs all repeat them.
* **Effects around a dedup row.** `events` has the event before anything is done
  about it.
* **Read, decide, write.** Incidents, tickets, revocations, quotas and the search
  for an open incident decide on a row they read in an earlier statement.
* **Overlap.** `setInterval` ticks, four event handlers, two metric handlers,
  several API instances, the agent's main goroutine and its scheduler.
* **Crash and restart.** The persisted sequence, claims that only a later
  statement gives back, rows that stay `pending`.
* **Ordering.** SSE ids are taken and published in two steps by three programs;
  a stream replays and subscribes in two steps.

What makes each part correct: the agent loses nothing it has not counted as
dropped, drops the oldest, stays bounded, keeps delivering, and its sequences are
names; the event pipeline handles each event, once, in one incident of its
fingerprint, with a timeline that explains the status; the dispatcher settles
every row, with the outcome it earned; an enrollment token makes one agent, a
revoked agent stays revoked; a stream delivers what it heard after the cursor; a
ticket only makes legal transitions; a bucket never grants more than its capacity
and refill allow. `PROJECT.json` lists the hazards line by line.

## 2. Modules

| Module | Models | Extends |
|---|---|---|
| `AgentBuffer` | the operations of `buffer.Limited`, as operators on sets of items | |
| `AgentTelemetry` | one agent, the gateway's metrics route, the queue `ingest.metrics`, the worker's inserts | `AgentBuffer` |
| `AgentBacklog` | abstract specification of the agent: only the length of its buffer | |
| `AgentIdentity` | tokens, agents, the gateway's enrollment and heartbeats, the agent's state file | |
| `MetricsIngest` | the worker's metrics consumer: identity bridge, rules cache, trackers, events raised | |
| `Incidents` | the incident tables and the transactions that write them | |
| `IncidentConsole` | operators who acknowledge, resolve, reopen | `Incidents` |
| `EventConsumer` | the event queue and `handleEventEnvelope`, await by await | `Incidents` |
| `EventPipeline` | the console and the consumer on the same tables; the properties | both |
| `OutboxDispatcher` | overlapping ticks of the dispatcher | |
| `RealtimeStream` | producers, retained lists, the SSE broker of an instance, the page's client | |
| `Tickets` | the handlers of the support tickets | |
| `Sessions` | login, refresh, sign-out, the check of a request and the client's retry | |
| `RateLimiter` | the token bucket, with the clocks of the instances that share it | |
| `RefusalStats` | the counters of refused requests and their history | |
| `MetricSeries` | how many points a chart is answered with | |
| `ConsolePages` | one page of the console: loads, polls, frames, actions, guards | |
| `AgentTelemetryProofs`, `AgentIdentityProofs`, `OutboxDispatcherProofs`, `EventPipelineProofs`, `RealtimeStreamProofs` | theorems | the module of that name, TLAPS |
| `RateLimitProofs` | theorems | `RateLimiter`, `RefusalStats`, TLAPS |
| `ConsoleProofs` | theorems on `Tickets`, `Sessions`, `ConsolePages`, `MetricSeries` and their composition | `MCConsole`, `RateLimitProofs`, TLAPS |
| `MetricsIngestProofs` | theorems on `MetricsIngest` and its composition | `MCPlatform`, `AgentIdentityProofs`, `RealtimeStreamProofs`, TLAPS |
| `MC...` | what TLC needs: fingerprints of events, symmetry, host names, rules, tenants of channels, and the disjoint composition of modules | |

`EventPipeline` composes components that share tables. `MCPlatform`, `MCConsole` and
`MCWorker` put modules side by side that share none: `part` says which of them moves,
so a run explores the union of their state spaces, never the product.

Operators named in a comment as a *mutant* are faulty variants of the definition
that follows; no specification uses them. They document which bug each property
would catch.

### The agent: `AgentBuffer`, `AgentTelemetry`, `AgentBacklog`

The buffer is the set of its items `[seq, datum, size]`. Go keeps a slice, but
Enqueue appends with a growing sequence, so the set ordered by `seq` is the
slice. `datum` names a payload for the life of the system, which a sequence does
not. Every method holds the mutex from its first to its last line, so each is one
step. `Trim` says what the drop loop leaves, the longest end that fits; `DropLoop`
is the loop as the code writes it, a recursive function on subsets of the buffer, and
`TrimIsTheLoop` says that they agree.

`pc` is where the agent's goroutine is: `idle` in the `select` of
`scheduler.Start`, `flush` before an attempt, `wait` for the answer of
`SendMetrics`, `persist` in the last lines of `app.Run`, `down`. One tick of the
collect ticker is `Collect` (collectAndQueue) followed by the flush's `Send`,
`SendFails`, `Acked`, `FlushEnds`. A signal (`Shutdown`) cancels the loop and runs
Run's own flush, while the loop may still take one more tick (`LateCollect`,
`Expire`). An answer that has reached the agent before the signal is taken before
it. `Crash` can happen anywhere.

`wire` holds the requests that were sent and not yet handled; a request the agent
gave up on may stay there and be handled later, or be lost. `jobs` maps a sequence
(the part of the jobId that differs) to the job the queue holds. `GatewayAccepts`
adds a job unless the queue holds that jobId, and acks the request's sequence
either way. The consumer's job inserts all samples, or fails before or after
that, or stalls after it and runs again; `Evict` is `removeOnComplete`.

`born`, `dropped`, `faults` and `restarts` are history.

`AgentBacklog` forgets payloads, so its behaviours are infinite and liveness can
be asked of it. `AgentTelemetry` implements it: `BacklogSpec` is its
specification under the mapping `pending <- Cardinality(items)`, which the run
`agent_telemetry` checks and `ImplementsBacklog` proves.

### Events and incidents: `Incidents`, `IncidentConsole`, `EventConsumer`, `EventPipeline`

Tables are sequences or sets; a transaction is one step. `Incidents` has the
transactions, `IncidentConsole` the API's handlers: `Check` is the read and the
test of the status, `Commit` the transaction some time later, on the row as it is
then. `EventConsumer` has a handler per slot (`concurrency: 4`) that goes from
await to await: `Store` or `SkipDuplicate`, `Find`, then `Link` and `Note` or
`Open`, `ListChannels`, and for each channel `Dispatch` and `Deliver`. Any of
those database calls may throw (`Throws`), which queues the job again until its
attempts are used up; the worker may die (`WorkerCrash`). `Publish` is any
publisher; it is ignored while the queue holds the event's jobId, and `Evict` is
`removeOnComplete`.

### The outbox: `OutboxDispatcher`

A tick is `Claim` (the `UPDATE ... RETURNING`), a publish per row in any order,
`MarkSent`, `MarkFailed`. Ticks overlap because `setInterval` does not wait. A
failed publish may have reached the queue. Nothing in the repository implements
the store behind `OutboxService.append`, so the rows are inputs (`Insert`).

### Identities: `AgentIdentity`

`tokens` and `agents` are the two tables; `admins` and `slots` say where each
createToken of the console and each handler of the gateway is, `machines` what each
agent process holds in memory and in `agent-state.json`. A handler goes from await
to await: `Claim` (the conditional update), `Create` (the transaction) or
`CreateFails`, `Rollback`, `AnswerEnroll`; `Beat` is the authentication of a
heartbeat and `Touch` the update some time later. `IdFaults` are what can go wrong,
each once in a behaviour: a database call that throws, a claim that was committed
although its call throws, a rollback that fails, a gateway that dies, a client that
gives up, an answer that is lost, a file torn while it is written. The claim stands
outside the handler's `try`, so nobody gives it back when its answer is lost
(`ClaimFails`). Agents are numbered by their rows, which
stands for the credential.

### Samples: `MetricsIngest`

A job of an agent holds its samples from one sequence on, since `AgentTelemetry`
shows requests to overlap. A handler goes through the bridge one statement at a
time: `Find` and `Insert` are the two halves of `host.upsert`, `Link` is
`agent.updateMany`, `BridgeContainers` the container's upsert. Between `Find` and
`Insert` another job may insert the same row, another machine or an operator one of
the same name; the insert then fails and the bridge swallows it (`AfterInsert`;
where the database makes the upsert one statement, the loser of the first race
finds the row instead, so both outcomes are there). `publisher` objects that are
opened for each fired event and never closed (`main.ts:204`) are left out.

The handler loads the rules (cached for all tenants) and tracks each sample under
each rule of its metric on the one thread of the process: `ThreadFree` says that
another handler goes on only at an await. A list of rules is the set of their
indexes, taken in ascending order as the query's rows are, and index 0 is the
default. Each rule has a tenant and so has each agent, which the code does not look
at. Operators enable and disable rows at any time (`Switch`), also during the 30 s
of the cache; a row that is added is one that was disabled before.

A job has one attempt, but a job whose lock is lost is delivered once more
(`run = 2`) and failed the second time. That happens without the death of the
process (`Stall`: the first handler goes on, on the same trackers, and what it makes
of the job at its end no longer counts) or with it (`WorkerCrash`: the trackers and
the cache are gone). `counts` keeps with every counter the samples behind it, which
the code does not, for `FiresEarned`: an event was raised on as many deliveries of
bad samples, times the rules that share its type, as its rule asks for.

### Realtime: `RealtimeStream`

`seq` is the counter `sse:seq:<tenant>`: an id is taken, published and retained in
three steps by any producer. Frames are named by the order in which their ids were
taken, over all tenants, and `frames` says which channel and which id each has: two
tenants use the same ids. A response of `RealtimeBroker.stream` replays channel by
channel, subscribes the *shared* connection, attaches its listener and, once it is
closed, unsubscribes for everybody. The listener writes what comes over the
connection, whoever's it is. What is written to a response waits in its `pipe`;
`Cut` loses the pipe. The client moves its cursor with every frame and forgets ids
after `Window` others; it does so by the id, so a frame of another tenant
moves the cursor and fills the window too (`crossed` remembers which clients have
read one). A close during `await subscribe` leaves a listener and its heartbeat for
ever: `Attach` does not look. A replay that Redis does not answer is an empty one
(`ReplayFails`), and the stream goes on without it: what it would have brought is
taken out of `heard`, as no later replay need bring it.

### Tickets, sessions

`Tickets` has `Bump`, which waits for another create of the tenant to commit, and
the handlers that read a ticket and write later. `log` is what the comments tell of
transitions. A request whose audit throws is answered 500 although it committed, so
that a retry makes a second ticket.

In `Sessions` a grant is a login or a refresh: membership read, role read, tokens
signed. `lastHeld` is when the user last had each permission, or a handler that had
read so was about to sign it; `overdue` how long after that a request was served.
The role row is assumed to exist (the key of memberships says so). A sign-out whose
answer overtakes a refresh's is undone by it, and clears the cookie only.

### Limits and charts: `RateLimiter`, `RefusalStats`, `MetricSeries`

One bucket of one principal and one route class, in units of which `Window` make a
token, so that a tick refills `Capacity` of them without fractions. The script is
one step on the stamp its instance took up to `Delay` ticks before. Stamps that go
back set `ts` back, so the next refill counts that time again (`rewound`). What a
refused request was told is kept as a moment of the true time (`promised`): who comes
back then may meet an instance whose clock is behind the one that refused, and be
refused again. `WaitIsEnough` says that `Skew` more is enough, through any instance.
`RefusalStats` has the key per minute, `INCR` and `EXPIRE`, and its reader.
`MetricSeries` is arithmetic: the two ways a series is thinned out, over every
window and every number of buckets within the bounds.

### Pages: `ConsolePages`

`kind` is one of eight pages; what it shows is a version of the data. Guards
(`Listens`, `Hides`, `ErrorHides`, `Buttons`, `Form`) say in which way the pages
differ: which poll and hear frames, which put a skeleton or an error in place of
the data, where a form or a button is disabled while a POST is under way.

## 3. Runs

| Run | Question | Result |
|---|---|---|
| `agent_telemetry` | does a payload vanish, does a sequence become ambiguous, is anything but the oldest dropped, is `Trim` the loop, does the agent implement `AgentBacklog`? | all hold |
| `agent_backlog_live` | does the agent keep delivering what fits in a request, does a flush end? | both hold |
| `agent_sequence_after_crash` | does a batch after a restart ever collide with an older jobId? | **it does** |
| `agent_backlog_drains` | is a backlog drained once the gateway is back? | **it is not** |
| `event_pipeline` | duplicates skipped, timelines that explain statuses, nothing lost while nothing fails | all hold |
| `event_pipeline_lost` | is every completed event in a timeline? | **it is not** |
| `event_pipeline_two_open` | has a fingerprint one open incident at most? | **it may have two** |
| `worker_live` | is every event dealt with, and does it join incidents of its fingerprint only; is every row of the outbox settled, once, with an outcome that was earned, and within how many attempts? | all hold |
| `platform` | does a token make one agent, how far may the quota be passed, who holds a claim or an agent, does a revoked agent stay out; are alarms raised, and only when earned, are hosts linked; does a stream lose or repeat what it heard? | all hold |
| `platform_rules` | is an event raised under a rule of its agent's tenant, or the default? | **under any tenant's** |
| `console` | are tickets numbered without gaps and is their story told; how long does a lost permission serve; what passes the bucket, how long a wait is enough, is the history whole; how long is a chart; do pages catch up and never go back? | all hold |
| `stream_channels` | does a stream carry the channels it asked for only, of its tenant? | **it carries others** |

The six that fail are places where the code and its comments, documents or tests
disagree; `PROJECT.json` quotes each.

* *Collision after a crash*: the agent enqueues batch 2, the request for it makes
  job 2, the answer is lost and the agent dies. The last save said 2, so the next
  batch is 2 again; its request is ignored by the queue and acked.
* *No drain*: each cycle enqueues at least one batch and a flush is acked for
  exactly one. The backlog also keeps every later batch late by as many cycles,
  and each batch is part of up to 100 requests with different jobIds, so its
  samples are inserted again and again (`StoredOnce` states that they are not, and
  fails without a fault).
* *Lost event*: `Store` commits, the next call throws, the retry is a duplicate.
* *Two open incidents*: both handlers `Find` nothing, both `Open`.
* *Rules of all tenants*: `loadRules` reads the rows of every tenant, and an agent's
  samples are tracked under all of them. The default is used only when no tenant has
  a rule.
* *Other channels*: a listener writes whatever comes over the connection that all
  streams of the instance share, of every tenant.

Three more races are no run, but decide how a property of `platform` or `console` is
stated:

* a heartbeat is authenticated, the agent revoked, and the update of the heartbeat
  writes `online`: the agent is back. `OutStaysOut` says that once no such heartbeat
  is under way, nothing brings it back;
* two requests read a ticket as `open`, one writes `resolved`, then the other
  `in_progress`, which the table does not allow in a row. `TicketStory` says that
  every entry is of the table, from a status the ticket has had;
* a replay does not find a frame yet, the listener is too late for it, and the next
  frame moves the cursor past it: no reconnect delivers it. `NothingHeardIsLost` is
  about frames published, in order, while the listener of a one-channel stream was
  in place, as long as the replays of that channel work and no frame of another
  tenant has been read: that one leaves its id in the cursor.

### Bounds

* `agent_telemetry`: a buffer of 2 items, requests of up to 2 items, 3 payloads,
  one restart and one fault. Three payloads overflow a buffer of two, so drops,
  multi-item requests, partial acks and late requests of another shape all
  happen; one restart is enough for a sequence to be used by two lives of the
  agent; `MaxWire = 2` lets one late request race the current one. Items have one
  size (the condition of the refinement); `TrimIsTheLoop` tries new items of three
  sizes. `stored` counts to 1, as no property of this run tells 1 from 2.
* `agent_backlog_*`: a buffer of 8 and requests of 3, so that a backlog is longer
  than a request. Batches have one of two sizes: with the smaller one 3 batches are
  just within the gateway's limit, with the larger one only a single batch is, so a
  backlog of two is refused until the TTL has made it smaller. `KeepsAcking` is about
  the flushes that fit (`Flushable`): every one of the first, and those of the second
  after an expiry.
* `event_pipeline`: two events of one fingerprint are what it takes for a
  recurrence and for a race; two handlers, two operators with two requests between
  them for a stale check; one fault (a throw or a crash) at any point.
  Handlers and operators are interchangeable, hence the symmetry.
* `worker_live`, events: three events, with two fingerprints and none, and no
  operators; two handlers, two attempts and a fault.
* `worker_live`, outbox: two rows, a batch of one, two ticks, a cap of 2 and a
  crash, so that a row is claimed by both ticks below, at and past the cap. No
  symmetry, as liveness is checked.
* `platform`, identities: two tokens, machines, requests to mint and handlers are
  what two racing enrollments of one token or of one machine take; a quota of one
  is passed by two requests; two faults of the seven, such as a transaction that
  throws and a rollback that fails.
* `platform`, samples: one agent with two samples and one with one, whose machines
  have the same name, so that they race for it; two handlers, which may be at one
  job each of one machine; three rules, of which the first shares its event type with
  one of another tenant, and a default, starting from all rules or none. Two mishaps
  for the agent of one sample, so that a job stalls and its second delivery fails or
  is cut short; with the jobs of the other agent one. An operator switches one rule
  or creates one host where nothing goes wrong (`IngestBounds`), as the properties
  that speak of it have no mishaps.
* `platform`, streams: three frames and a list that keeps two, so that trimming
  happens; a dedup window of two; one page with two responses, the old and the new
  one, and two cuts, restarts, unmounts or failures of Redis. A page of another tenant
  may be there first: its channel's frame, with an id the first tenant uses too, then
  reaches both. With that page, or with a page that asks for two channels (whose replays
  lose frames to each other's ids, which the property leaves out), one failure
  (`StreamBounds`).
* `console`: two requests, two tickets, three transitions and a fault; two grants, a
  fetch and two changes over three access lifetimes; two instances whose clocks
  differ by a tick, over two refills, with one tick back and one fault of Redis;
  keys of minutes over more than their lifetime, which is the least the assumption
  allows; every window up to 40 units; all eight kinds of page with two GETs, two
  POSTs, three versions and two failures. One permission stands for any, as none is
  treated differently.
* The parts of `platform` share two sets of names, one for what each handles at once
  (`Slots`, `Workers`, `Conns`) and one for who calls it (`Admins`, `Producers`): a
  permutation of a set then permutes whichever part moves, and the others rest in a
  state it leaves alone.
* The runs that find a violation are as small as the counterexample allows.

### Fairness

* `AgentBacklog!FairSpec`: the collect ticker ticks, the steps of a flush end (the
  HTTP client has a timeout, the backoff is finite) and a dead agent is started
  again: weak fairness. Strong fairness of `SendOk` is the assumption on the
  environment that requests the gateway could accept do not all fail. `LeftAlone`
  and `Restored` are hypotheses of the properties, not assumptions.
* `FairConsumer` of `EventPipeline`: a handler that can go on does (weak), and a waiting job
  is taken in its turn: the queue is first in, first out and every handler ends,
  which is strong fairness per job. Nobody has to publish, evict or act.
* `FairOutbox` of `OutboxDispatcher`: the interval fires and a tick goes on. That a
  publish ends, well or badly, is assumed (a queue connection that comes back or
  gives up); that it ends well is not.
* `MCWorker` has both. No job waits and no row is pending in an initial state, so in
  the part that rests nothing fairness asks for is ever possible.
* `ConsolePages!FairPages`: an interval fires, a request that was sent is served and
  what was served is shown; a request that fails is a fault, of which there are
  finitely many. The user, others and the stream owe nothing: `CatchesUp` rests on
  the poll.

Deadlock is not checked where the bounds let a system finish: `worker_live`
(every row is settled and nothing writes another), `platform`, `platform_rules` and `console` (time,
samples, frames, transitions and versions are used up) and `stream_channels`. The runs
of the agent and of the event pipeline check it.

## 4. Proofs

`AgentTelemetryProofs` proves, for every number of payloads, every limit and every
number of restarts and faults:

* `TypeCorrect`: `Spec => []TypeOK`;
* `DropsOldestFirst`: `Spec => []DropOldest`;
* `SequencesNamePayloads`: `Spec => []SequenceNamesOnePayload`;
* `PayloadsAreKept`: `Spec => []NothingVanishes`;
* `LoopKeepsWhatFits`: `Spec => []TrimIsTheLoop`, with `FiniteBuffer`;
* `ImplementsBacklog`: `Spec => BacklogSpec`, when batches have one size (`OneSize`).

The first four rest on `TelemetryAssumption` and `BufferAssumption` and on one inductive
invariant, `IInv == TypeInv /\ BufferInv /\ SessionInv`. `TypeInv` adds to `TypeOK`
that payloads are numbered by `born`. `BufferInv` orders the buffer: a larger
sequence is a younger payload, all are below `nextSeq`, and everything dropped is
older than everything kept; it holds whatever fails. `SessionInv` holds while the
agent never crashed and never failed to save (`Clean`): every item anywhere is
below `nextSeq` (or, when down, below what was saved), a sequence names one
payload, a request and a job are named by the first item they hold, a completed
job's payloads are stored, and -- `Waiting` -- when an answer is on its way, the
buffer has nothing older than the request's sequence, and the item of that
sequence is safe with the queue. The last is what makes the ack sound although the
buffer may have changed since the request was made and although the queue may have
ignored the request; without it `NothingVanishes` is not inductive at `Acked`.
TLC checked `IInv` before it was proved.

`LoopKeepsWhatFits` needs what a recursive function computes. `DropLoop(S)` is a
`CHOOSE` of a function that satisfies the loop's equation: `[T |-> Trim(T)]` does, and
another one that does would differ from it at some smallest subset, whose remainder
after one drop is smaller still. The step is `TrimStep`: the longest end that fits is
also the longest one of what is left without the oldest item, unless everything fits.

The refinement counts items. `OneSize` says that every batch has `c` samples and that
`MaxItems` of them are within the byte limit, so that `Fits` is a bound on the
cardinality (`FitsIsCount`: a fold over equal sizes is a product) and an `Enqueue` adds
one item or replaces the oldest (`EnqueueCounts`). `PeekCounts` numbers the buffer by
rank: `PeekBatch` takes exactly `PeekItems` of it, or all. `Flow` is what the steps
need of the agent: the buffer is within `MaxItems`; a loop that is not stopping waits with
a request for the oldest batches of a buffer nobody has touched since (`Unstopped`); no
request is younger than the buffer's oldest item (`Oldest`); only a request of at most
`MaxBatchSamples` is answered 200 (`Answered`). With it every step of the
agent is the step of the same name of `AgentBacklog`, and every step of the gateway or
the worker leaves the mapped variables alone. Where batches differ in size the byte limit
may drop two for one, and `AgentBacklog` does not apply.

`OutboxDispatcherProofs` proves `TypeCorrect` (`OutboxOK`), `OutcomesAreEarned` and
`SettledRowsStaySettled` for every number of rows, ticks and crashes. The
strengthening (`TickInv`) says that what a tick holds in its local variables stays
true while others run: what it will mark sent is published, what it will mark
failed has used up its attempts, and the attempts it read are no more than the
row's. It needs that attempts and published rows only grow (`GrowsStep`).
`AttemptsAreBounded` (`AttemptsBounded`) has an invariant of its own, `LateCounted`:
every attempt of a pending row from the last one on belongs to a tick that claimed the
row then and has yet to mark it (`Late`), or to one that a crash took; a crash takes no
more than all ticks. The set of late ticks gets one more member with each such claim,
which is why the count is of ticks and not of attempts.

`AgentIdentityProofs` proves, for every number of tokens, machines, requests and
handlers, every quota and every fault, `TypeCorrect`, `TokensEnrollOnce`
(`EnrolledOnce`), `ClaimsAreExplained` (`ClaimsAreHeld`), `RevokedStaysOut`
(`OutStaysOut`) and `QuotaNearlyHolds` (`PendingBounded`). The strengthening
(`HandlersHold`) says that a handler between its claim and the end of its
transaction is the only one of its token and finds it claimed: that is what the
conditional update buys, and without it a second `Create` of a token could not be
excluded. A claim that was committed although its call threw leaves no handler that
holds it, which is why `ClaimsAreHeld` names `claimLost` beside the gateway's death and
the failed rollback; nothing else does so. The quota counts places: what a request has
counted and not yet used is given to the token it mints, so the sum grows only by a count that found room, at
which moment all requests but one may still hold a place. `NoAgentLeftBehind`
(`AgentsAreHeld`) rests on `MachinesKeep` -- an agent's memory and its file agree, but
between the answer and `Save` -- and on `Waited`: unless an answer, a file or a gateway
was lost, every enrollment a gateway works on is waited for by a machine, so a row never
appears that nobody will learn of.

`EventPipelineProofs` proves `TypeCorrect`, `DuplicatesSkipped` (`DuplicatesAreSkipped`),
`EventsBelongTogether` (`EventsBelong`), `StatusExplained` (`TimelineExplainsStatus`) and
`CleanMeansHandled` (`CompletedIsHandledWhenClean`) for every set of events, handlers,
channels, operators and requests. `HandlersKnow` is what a handler may still rely on
after each await: past the dedup table its event is in no timeline until it writes it,
and no channel it has yet to visit has a delivery of it. `HeldOnce` says that no two
handlers have one event, which the queue's jobId gives; `HandledInv` says that without
faults an event in the table is in a timeline or on its way to one.

`RealtimeStreamProofs` proves `StreamTypeCorrect`, `FramesShownOnce`
(`ShownOnceInWindow`) and `HeardFramesReachThePage` (`NothingHeardIsLost`) for every
number of tenants, producers, pages, responses and channels and every length of the
list and the window. `Windows` says that the ids a client remembers are those of the
end of what it has shown; two frames of one id are one frame or of two tenants, so that
needs nothing else. `HeardKept` follows a frame that was heard by a client no other
tenant's frame has reached: it is shown, or it is above the cursor and the response the
page reads, if it reads one, has it in its pipe behind smaller ids of its tenant only or
is about to replay its channel from that cursor. Frames of other tenants may be in that
pipe; once one is read the client is in `crossed`. The argument needs that ids of
one tenant rise with the frames (`IdsRise`), that nothing is read or retained before it
was published (`SentOnly`), and that the cursor of such a client is the id of a frame of
its own tenant (`OwnOnly`): a frame that is published in order is then above it.

`RateLimitProofs` proves `LimiterTypeCorrect`, `BudgetHolds` (`WithinBudget`),
`WaitEnough` (`WaitIsEnough`), `StatsTypeCorrect` and `HistoryWhole` (`HistoryIsWhole`)
whatever the clocks say. `Metered` is a balance: what passed and what the bucket holds
were refilled by the stamp in it, with what going back, restarts and refusals of Redis
add. Once the bucket is gone the same must hold for every stamp still to come, which the
expiry allows as it comes no sooner than a refill of the bucket and the slack for clocks.
`PromiseHolds` is about stamps: by any stamp that comes `Skew` after the promised moment
the bucket holds a token. The stamp in the bucket was at most `Skew` ahead of the true
time when it was written (`BucketWritten`), which is what the `Skew` is for; a later
refusal keeps what was refilled, and a `ts` that it sets back only makes the next refill
larger. `KeysOutlive` says
that a key that was written outlives every call that may still name its minute.

`ConsoleProofs` has, of `Tickets`, `TicketsTypeCorrect`, `NumbersAreWhole`
(`NumbersHaveNoGap`) and `StoriesAreTold` (`TicketStory`). `NumbersInv` is the lock: at
most one request holds the next number. `AdmittedInv` is what a stale read leaves true:
an admitted transition is of the table, from a status that the ticket's comments already
tell. It needs that comments are never taken back (`LogsGrow`), and that the status is
always the last thing they told.

Of `Sessions` it has `SessionsTypeCorrect` and `GoneInTime` (`GoneWithinOneTTL`). The
invariant `SInv` says of each token, in the client or in a request, that it expires
within one access TTL of the last moment at which each of its permissions was held, or
was in the hands of a handler about to sign it (`TokensFresh`), and that a handler which
reads the role has found the user a member (`GrantsFound`).

Of `ConsolePages` it has `PagesTypeCorrect` and `ShownNeverGoesBack`
(`IncidentNeverGoesBack`). The pages of an incident and a host (`Alone`) hear no frames and guard
their buttons, so at most one GET or POST is under way (`OneRequest`), and what it was
served is no older than what is shown (`NewerComes`). Other pages have no such invariant.

Of `MetricSeries` it has `SeriesTypeCorrect` and `ResponsesAreSmall`
(`SeriesIsBounded`): rounding takes less than a third from the width of a bin
(`WidthIsWide`), so a window has at most half as many bins again (`FewBins`),
and points are in bins (`NumberedSet` numbers them).

`ConsoleTypeCorrect` is about `MCConsole`: its specification implies that of each part
(the pages' fairness apart, which safety does not need), so the theorems about the parts
hold of the composition that the run explores.

`MetricsIngestProofs` proves `IngestTypeCorrect`, `AgentsGetLinked`
(`LinkedOrNameTaken`), `EventsEarned` (`FiresEarned`) and `NoAlarmMissed`
(`AlarmRaised`) for every fleet, every set of tenants and rules and any number of
workers, samples, edits and mishaps. `Placed` says where a handler stands: at a delivery
of a job, which no other one handles (`OneEach`), at one of its samples and one of its
rules; the delivery is the last one and under way, or the job has been delivered again
or failed since. So a handler that has lost its lock stays in the argument as one of
an earlier delivery.

`LinkInv`, while nothing went wrong: a row of a machine has its agent and its container
attached, or a handler that is between its `Find` or `Insert` and the container
(`HostsAreAttached`); a job comes to the rules only when the row is there or the name
is taken (`ReadyAreKnown`), also when it lost the race for the row; and neither a row
nor a taken name is given back. That leaves a completed job with its agent attached,
or with the handler that won still at it, or with the name taken.

`EarnedInv` bounds a count by the evidence that went through the rule (`Seen`). A piece
of evidence is a rule, a delivery and a sample; it is `Through` once the handler of that
delivery is past it, or the delivery is over and has no handler any more. A handler moves
on once for each piece. A stall takes nothing back: the first delivery still has its
handler, and the second has not been through anything. A crash loses handlers and counts
together. `AlarmInv` is the other direction: a rule that is enabled all the time
(`Steady`) is in every list a handler holds and in a fresh cache, whatever else is edited
(`RulesKept`); while nothing goes wrong and all samples of an agent are bad for such a
rule that has its event type to itself, its count was never started again and holds every
sample that went through, and once it is high enough the event is raised or about to be.
`NoAlarmMissed` speaks of the rules of the agent's tenant only: that others fire too is
what the run `platform_rules` shows. `PlatformTypeCorrect` is about `MCPlatform`, as
above.

Only model-checked:

* liveness (`KeepsAcking`, `FlushEnds`, `EventsAreHandled`, `RowsSettle`,
  `CatchesUp`): fairness and ENABLED are out of the prover's reach;
* the six properties the code does not have: their runs show the counterexamples.

Every invariant and action property of a passing run is a theorem, and so is the
refinement under the condition its run has, batches of one size.

## 5. Not modelled, and why

* Contents: samples, envelopes, mails, titles, severities, labels. No property
  depends on them.
* Tenants: every modelled table is keyed by tenant, so most modules are about one. The
  rules, which the worker caches for all of them, and the realtime connection, which the
  streams of all of them share, are the exceptions, and their modules have tenants.
* `SKIP LOCKED` of the outbox's claim, and the other choices of rows it allows: two
  ticks' claims are one after the other, of the oldest rows.
* The `credentials` mode of the login page's request: the model keeps the cookie it
  answers with, as a browser does when console and API have one origin. The instances
  that serve sessions have one clock.
* Code without a caller: `Entitlements` and its quotas, the gateway's events route
  and `SendEvents`, `openIncidentForTenant`, `OutboxService.append`, the reset of a
  tracker. A client of `lib/sse.ts` that is stopped and started again: the hook makes
  a new one for every mount.
* `ShouldThrottle`: `app.Run` never installs a battery hook.
* The concurrent flush of the loop with an answer that arrives just after the
  signal: taken before it (see `Shutdown`).
* Collectors, configuration, logging, rendering, read-only routes other than the
  series, audit rows: no shared state that anything decides on.
* Hashing and signing, mail and webhooks, the databases' own failures beyond a call
  that throws: external.
* The length of a backoff and the heartbeats of a response: time without a decision.
* The order in which a reader sees the timeline (`created_at`): the models order it by
  commit.
* The page of the agents shows a token it minted; that token is `shown` in
  `AgentIdentity`, the page's form is left out.

## 6. Plan

Done: the agent and its telemetry with its abstract specification, identities, the
event pipeline, the outbox, metrics and rules, realtime, tickets, sessions, limits,
charts and pages; eight proof modules, which cover every safety property of the runs.
What would be worth adding, in this order:

1. The refinement for batches of different sizes, with an `AgentBacklog` that may drop
   several batches for one.
2. An abstract specification of a stream -- each frame once, in order, after the cursor
   -- for `RealtimeStream` with one channel to implement.
3. Entitlements and quotas, once something in the repository calls them.
