--------------------------- MODULE MetricsIngest ---------------------------
(***************************************************************************)
(* The worker's consumer of ingest.metrics (consumeMetrics of              *)
(* apps/worker/src/main.ts) with the identity bridge and the rules engine: *)
(* a job links its agent to a host, notes the container of its machine,    *)
(* inserts its samples and tracks each of them under each rule of its      *)
(* metric; a fired rule publishes an event.                                *)
(* Job n of an agent carries its samples n to hi, since the agent merges   *)
(* what it has queued and is acked for the first only (AgentTelemetry).    *)
(* The evaluation runs on one thread and gives it up only to publish.  A   *)
(* job whose lock is lost is delivered once more, to the same tracker,     *)
(* while its first handler goes on (BullMQ: maxStalledCount 1).            *)
(***************************************************************************)
EXTENDS Integers, Sequences, FiniteSets, FiniteSetsExt

CONSTANTS
    Agents,        \* agents of the fleet, one machine and one resource each
    AgentTenant,   \* the tenant of each
    NameOf,        \* the host name of each: the first 12 characters of its machine id
    Rules,         \* rows of alert_rules, of every tenant, in the order they are read
    DefaultRule,   \* DEFAULT_CPU_RULE
    Workers,       \* jobs handled at once: concurrency 2
    MaxSamples,    \* bound: samples of each agent
    Values,        \* values a sample may have
    MaxSwitched,   \* bound: rules that get disabled or enabled
    MaxMishaps     \* bound: database errors, failed publishes, lost locks and crashes

\* A rule by its index; the default comes before every row.
RuleAt(i) == IF i = 0 THEN DefaultRule ELSE Rules[i]
Indexes == {0} \cup DOMAIN Rules

\* consecutive_samples is any number an operator wrote.
ASSUME IngestAssumption ==
    /\ MaxSamples \in [Agents -> Nat] /\ Values \subseteq Int
    /\ MaxSwitched \in Nat /\ MaxMishaps \in Nat
    /\ DOMAIN Rules \subseteq Nat \ {0} /\ IsFiniteSet(DOMAIN Rules)
    /\ \A i \in Indexes : RuleAt(i).need \in Int

VARIABLES
    values,      \* what each agent measures
    jobs,        \* of each agent, in the order of their sequences
    handlers,    \* where each handler is
    counts,      \* RuleStateTracker, and the samples behind each count
    enabled,     \* indexes of the enabled rules
    switched,    \* history: those that were disabled or enabled
    rulesCache,  \* the indexes loadRules keeps for 30 s
    hosts,       \* machines that have a row in hosts
    named,       \* names of the rows that an operator has created
    links,       \* agents whose hostId is set
    containers,  \* machines whose container has a row
    raised,      \* history: the events that were published
    mishaps      \* history: how many things went wrong

ingestVars == <<values, jobs, handlers, counts, enabled, switched, rulesCache, hosts, named, links,
                containers, raised, mishaps>>

Idle == [at |-> "idle", agent |-> {}, job |-> 0, run |-> 0, sample |-> 0, rules |-> {},
         rule |-> 0, by |-> {}]
Keys == {RuleAt(i).event : i \in Indexes} \X Agents
Unseen == [n |-> 0, by |-> {}]

InitIngest ==
    /\ values \in [UNION {{a} \X (1..MaxSamples[a]) : a \in Agents} -> Values]
    /\ jobs = [a \in Agents |-> <<>>]
    /\ handlers = [w \in Workers |-> Idle]
    /\ counts = [k \in Keys |-> Unseen]
    /\ enabled \in {{}, DOMAIN Rules} /\ switched = {}
    /\ rulesCache = [rules |-> {}, fresh |-> FALSE]
    /\ hosts = {} /\ named = {} /\ links = {} /\ containers = {}
    /\ raised = {} /\ mishaps = 0

Mishap == mishaps < MaxMishaps /\ mishaps' = mishaps + 1
The(S) == CHOOSE x \in S : TRUE

-----------------------------------------------------------------------------
(* Jobs and rules *)

\* The agent's next request reaches the queue.
Send(a, hi) ==
    /\ hi \in (Len(jobs[a]) + 1)..MaxSamples[a]
    /\ jobs' = [jobs EXCEPT ![a] = Append(@, [hi |-> hi, at |-> "waiting", run |-> 1])]
    /\ UNCHANGED <<values, handlers, counts, enabled, switched, rulesCache, hosts, named, links,
                   containers, raised, mishaps>>

\* An operator's edit of the row.
Switch(r) ==
    /\ r \in switched \/ Cardinality(switched) < MaxSwitched
    /\ enabled' = IF r \in enabled THEN enabled \ {r} ELSE enabled \cup {r}
    /\ switched' = switched \cup {r}
    /\ UNCHANGED <<values, jobs, handlers, counts, rulesCache, hosts, named, links,
                   containers, raised, mishaps>>

\* The rules whose rows are enabled, or were when they were last read.
Loaded == IF rulesCache.fresh THEN rulesCache.rules ELSE enabled

\* 30 s are over; of no consequence while a load would find the same rows.
CacheAges ==
    /\ rulesCache.fresh /\ rulesCache.rules # enabled
    /\ rulesCache' = [rulesCache EXCEPT !.fresh = FALSE]
    /\ UNCHANGED <<values, jobs, handlers, counts, enabled, switched, hosts, named, links,
                   containers, raised, mishaps>>

-----------------------------------------------------------------------------
(* The processor *)

TakeJob(w, a, n) ==
    /\ handlers[w] = Idle /\ jobs[a][n].at = "waiting"
    /\ jobs' = [jobs EXCEPT ![a][n].at = "active"]
    /\ handlers' = [handlers EXCEPT ![w] = [Idle EXCEPT !.at = "find", !.agent = {a},
                                          !.job = n, !.run = jobs[a][n].run, !.sample = n]]
    /\ UNCHANGED <<values, counts, enabled, switched, rulesCache, hosts, named, links, containers,
                   raised, mishaps>>

\* The lock of the job was not extended in time: the job is queued again, or failed
\* when that has happened before.  Its handler goes on.
Requeued(job) == IF job.run = 1 THEN [job EXCEPT !.at = "waiting", !.run = 2]
                 ELSE [job EXCEPT !.at = "failed"]
Stall(a, n) ==
    /\ jobs[a][n].at = "active" /\ Mishap
    /\ jobs' = [jobs EXCEPT ![a][n] = Requeued(@)]
    /\ UNCHANGED <<values, handlers, counts, enabled, switched, rulesCache, hosts, named,
                   links, containers, raised>>

\* The job of h is over for the queue, if h still has its lock.
Ended(h, a, how) ==
    IF jobs[a][h.job].at = "active" /\ jobs[a][h.job].run = h.run
    THEN [jobs EXCEPT ![a][h.job].at = how] ELSE jobs

-----------------------------------------------------------------------------
(* The identity bridge, one statement at a time *)

\* A host of the same tenant has the name already: the insert breaks the unique
\* index (tenantId, name).
NameTaken(a) ==
    /\ a \notin hosts
    /\ \/ NameOf[a] \in named
       \/ \E b \in hosts : AgentTenant[b] = AgentTenant[a] /\ NameOf[b] = NameOf[a]

\* POST hosts: a host with a name and no machine id.
CreateHost(name) ==
    /\ name \notin named \cup {NameOf[b] : b \in hosts}
    /\ named' = named \cup {name}
    /\ UNCHANGED <<values, jobs, handlers, counts, enabled, switched, rulesCache, hosts, links,
                   containers, raised, mishaps>>

\* host.upsert looks the machine up.  What it throws is swallowed, here and below.
Find(w) ==
    /\ handlers[w].at = "find"
    /\ \/ /\ handlers' = [handlers EXCEPT ![w].at =
                               IF handlers[w].agent \subseteq hosts THEN "link" ELSE "insert"]
          /\ UNCHANGED mishaps
       \/ Mishap /\ handlers' = [handlers EXCEPT ![w].at = "rules"]
    /\ UNCHANGED <<values, jobs, counts, enabled, switched, rulesCache, hosts, named, links,
                   containers, raised>>

\* Where host.upsert goes on after its insert: a row that another job has inserted
\* meanwhile breaks the unique index (tenantId, machineId), or is found after all where
\* the database has the upsert as one statement.
AfterInsert(a) == IF a \in hosts THEN {"rules", "link"}
                  ELSE IF NameTaken(a) THEN {"rules"} ELSE {"link"}

\* It makes the row.
Insert(w) ==
    /\ handlers[w].at = "insert"
    /\ \E a \in handlers[w].agent :
          \/ \E next \in AfterInsert(a) :
                /\ handlers' = [handlers EXCEPT ![w].at = next]
                /\ hosts' = IF next = "link" THEN hosts \cup {a} ELSE hosts
                /\ UNCHANGED mishaps
          \/ /\ Mishap /\ handlers' = [handlers EXCEPT ![w].at = "rules"]
             /\ hosts' \in {hosts, IF NameTaken(a) THEN hosts ELSE hosts \cup {a}}
    /\ UNCHANGED <<values, jobs, counts, enabled, switched, rulesCache, named, links,
                   containers, raised>>

\* Mutant of Link: the error of updateMany is taken for its success.
LinkUnseen(w) ==
    /\ handlers[w].at = "link"
    /\ UNCHANGED <<links, mishaps>>
    /\ handlers' = [handlers EXCEPT ![w].at = "containers"]
    /\ UNCHANGED <<values, jobs, counts, enabled, switched, rulesCache, hosts, named,
                   containers, raised>>

\* agent.updateMany, whose failure is ignored.
Link(w) ==
    /\ handlers[w].at = "link"
    /\ \/ links' = links \cup handlers[w].agent /\ UNCHANGED mishaps
       \/ Mishap /\ UNCHANGED links
    /\ handlers' = [handlers EXCEPT ![w].at = "containers"]
    /\ UNCHANGED <<values, jobs, counts, enabled, switched, rulesCache, hosts, named,
                   containers, raised>>

\* An upsert that fails is skipped.
BridgeContainers(w) ==
    /\ handlers[w].at = "containers"
    /\ \/ containers' = containers \cup handlers[w].agent /\ UNCHANGED mishaps
       \/ Mishap /\ UNCHANGED containers
    /\ handlers' = [handlers EXCEPT ![w].at = "rules"]
    /\ UNCHANGED <<values, jobs, counts, enabled, switched, rulesCache, hosts, named, links,
                   raised>>

-----------------------------------------------------------------------------
(* The rules *)

\* No other handler is between two awaits.
ThreadFree == \A w \in Workers : handlers[w].at # "track"

\* metricSample.createMany, whose rows AgentTelemetry counts; then loadRules, and
\* the default when it has none.
LoadRules(w) ==
    LET rules == IF Loaded = {} THEN {0} ELSE Loaded
    IN  /\ handlers[w].at = "rules" /\ ThreadFree
        /\ rulesCache' = [rules |-> Loaded, fresh |-> TRUE]
        /\ handlers' = [handlers EXCEPT ![w].at = "track", ![w].rules = rules,
                                        ![w].rule = Min(rules)]
        /\ UNCHANGED <<values, jobs, counts, enabled, switched, hosts, named, links, containers,
                       raised, mishaps>>

\* evaluateThresholdRule.
Violates(rule, v) == IF rule.comparator = ">" THEN v > rule.threshold ELSE v < rule.threshold

\* Mutants of NextCount: a good sample does not start the count again; the new
\* count is not kept.
KeepCounting(key, rule, sample, v) ==
    IF Violates(rule, v) THEN [n |-> counts[key].n + 1, by |-> counts[key].by \cup {sample}]
    ELSE [n |-> counts[key].n, by |-> {}]
CountAnew(key, rule, sample, v) ==
    IF Violates(rule, v) THEN [n |-> 1, by |-> {sample}] ELSE Unseen
NextCount(key, rule, sample, v) ==
    IF Violates(rule, v) THEN [n |-> counts[key].n + 1, by |-> counts[key].by \cup {sample}]
    ELSE Unseen

\* The handler after this rule: the next one, the next sample, or the end.
After(h, hi) ==
    LET later == {r \in h.rules : r > h.rule}
    IN  IF later # {} THEN [h EXCEPT !.at = "track", !.rule = Min(later), !.by = {}]
        ELSE IF h.sample < hi
        THEN [h EXCEPT !.at = "track", !.rule = Min(h.rules), !.sample = @ + 1, !.by = {}]
        ELSE Idle

\* The handler goes on; with nothing left, its job is completed, if it is still its.
GoOn(w, a) ==
    LET h == handlers[w] next == After(h, jobs[a][h.job].hi)
    IN  /\ handlers' = [handlers EXCEPT ![w] = next]
        /\ jobs' = IF next = Idle THEN Ended(h, a, "completed") ELSE jobs

\* One sample under one rule; if it fires, its event is to be published.
Track(w) ==
    /\ handlers[w].at = "track"
    /\ \E a \in handlers[w].agent :
          LET h == handlers[w]
              rule == RuleAt(h.rule)
              key == <<rule.event, a>>
              count == NextCount(key, rule, h.sample, values[<<a, h.sample>>])
          IN  /\ counts' = [counts EXCEPT ![key] = count]
              /\ IF count.n >= rule.need
                 THEN handlers' = [handlers EXCEPT ![w].at = "publish", ![w].by = count.by]
                      /\ UNCHANGED jobs
                 ELSE GoOn(w, a)
    /\ UNCHANGED <<values, enabled, switched, rulesCache, hosts, named, links, containers, raised,
                   mishaps>>

\* A new event id each time.
Publish(w) ==
    /\ handlers[w].at = "publish" /\ ThreadFree
    /\ \E a \in handlers[w].agent :
          /\ raised' = raised \cup {[rule |-> RuleAt(handlers[w].rule),
                                      agent |-> a, by |-> handlers[w].by]}
          /\ GoOn(w, a)
    /\ UNCHANGED <<values, counts, enabled, switched, rulesCache, hosts, named, links, containers,
                   mishaps>>

\* An insert, a load or a publish throws.  The job has one attempt.
JobFails(w) ==
    /\ handlers[w].at \in {"rules", "publish"} /\ Mishap
    /\ jobs' = Ended(handlers[w], The(handlers[w].agent), "failed")
    /\ handlers' = [handlers EXCEPT ![w] = Idle]
    /\ UNCHANGED <<values, counts, enabled, switched, rulesCache, hosts, named, links, containers,
                   raised>>

\* The tracker and the cache are in memory; the jobs stall.
WorkerCrash ==
    /\ Mishap /\ \E w \in Workers : handlers[w] # Idle
    /\ jobs' = [a \in Agents |-> [n \in DOMAIN jobs[a] |->
                   IF jobs[a][n].at = "active" THEN Requeued(jobs[a][n]) ELSE jobs[a][n]]]
    /\ handlers' = [w \in Workers |-> Idle]
    /\ counts' = [k \in Keys |-> Unseen]
    /\ rulesCache' = [rules |-> {}, fresh |-> FALSE]
    /\ UNCHANGED <<values, enabled, switched, hosts, named, links, containers, raised>>

-----------------------------------------------------------------------------

NextIngest ==
    \/ \E a \in Agents : \/ \E hi \in 1..MaxSamples[a] : Send(a, hi)
                         \/ \E n \in DOMAIN jobs[a] : \/ \E w \in Workers : TakeJob(w, a, n)
                                                     \/ Stall(a, n)
    \/ \E r \in DOMAIN Rules : Switch(r)
    \/ \E a \in Agents : CreateHost(NameOf[a])
    \/ CacheAges
    \/ \E w \in Workers : \/ Find(w) \/ Insert(w) \/ Link(w) \/ BridgeContainers(w)
                          \/ LoadRules(w) \/ Track(w) \/ Publish(w) \/ JobFails(w)
    \/ WorkerCrash

SpecIngest == InitIngest /\ [][NextIngest]_ingestVars

-----------------------------------------------------------------------------
(* Properties *)

IngestOK ==
    /\ jobs \in [Agents -> Seq([hi : Nat, at : {"waiting", "active", "completed", "failed"},
                                run : 1..2])]
    /\ handlers \in [Workers -> [at : {"idle", "find", "insert", "link", "containers",
                                       "rules", "track", "publish"},
                                 agent : SUBSET Agents, job : Nat, run : 0..2,
                                 sample : Nat, rules : SUBSET Indexes, rule : Indexes,
                                 by : SUBSET Nat]]
    /\ counts \in [Keys -> [n : Nat, by : SUBSET Nat]]
    /\ enabled \subseteq DOMAIN Rules /\ switched \subseteq DOMAIN Rules
    /\ rulesCache \in [rules : SUBSET DOMAIN Rules, fresh : BOOLEAN]
    /\ hosts \subseteq Agents /\ links \subseteq Agents
    /\ containers \subseteq Agents /\ named \subseteq {NameOf[a] : a \in Agents}
    /\ raised \subseteq [rule : {RuleAt(i) : i \in Indexes}, agent : Agents, by : SUBSET Nat]
    /\ mishaps \in Nat

Sharing(rule) == {r \in DOMAIN Rules : Rules[r].event = rule.event}

\* What may have counted for an event: each rule of its type, or the default
\* where there is none, on each delivery of one of its samples.
Counting(rule) == IF Sharing(rule) = {} THEN {0} ELSE Sharing(rule)
Deliveries(a, by) ==
    {x \in (DOMAIN jobs[a]) \X (1..2) \X by :
        x[2] <= jobs[a][x[1]].run /\ x[3] \in x[1]..jobs[a][x[1]].hi}
Evidence(rule, a, by) == Counting(rule) \X Deliveries(a, by)

\* An event is never raised on less than its rule asks for: what counts are bad
\* samples with no good one between them, as often as they were delivered, by the
\* agent or because their job had stalled, and as many rules as share the event
\* type.  One delivery and one rule leave what the catalog promises, never an
\* isolated sample.
FiresEarned == \A e \in raised : e.rule.need <= Cardinality(Evidence(e.rule, e.agent, e.by))

\* No alarm is missed: once every sample of an agent was bad and is handled, in
\* whatever order its jobs ran, a rule of its tenant that has its event type to
\* itself and was enabled all the time has fired, unless something went wrong.
AlarmRaised ==
    \A a \in Agents, r \in enabled \ switched :
        LET delivered == UNION {n..jobs[a][n].hi : n \in DOMAIN jobs[a]}
        IN  (/\ mishaps = 0 /\ Rules[r].tenant = AgentTenant[a]
             /\ Sharing(Rules[r]) = {r} /\ jobs[a] # <<>>
             /\ \A n \in DOMAIN jobs[a] : jobs[a][n].at = "completed"
             /\ \A k \in delivered : Violates(Rules[r], values[<<a, k>>])
             /\ Cardinality(delivered) >= Rules[r].need)
            => \E e \in raised : e.rule = Rules[r] /\ e.agent = a

\* "Threshold/duration come from alert_rules rows (per tenant, enabled)": an event is
\* raised under a rule of the tenant of its agent, or under the default.
OwnRulesOnly ==
    \A e \in raised : e.rule = DefaultRule \/ e.rule.tenant = AgentTenant[e.agent]

\* A completed job has linked its agent to its host and noted the container there,
\* unless another host took the name first, another machine's or one an operator
\* created: then the agent has neither, however often it reports.  A job that lost the
\* race for the row leaves the link to the one that won it, which is still at it.
LinkedOrNameTaken ==
    \A a \in Agents :
        /\ links \cup containers \subseteq hosts
        /\ (mishaps = 0 /\ \E n \in DOMAIN jobs[a] : jobs[a][n].at = "completed")
              => \/ a \in links \cap containers \/ NameTaken(a)
                 \/ \E w \in Workers : /\ handlers[w].at \in {"link", "containers"}
                                       /\ handlers[w].agent = {a}
=============================================================================
