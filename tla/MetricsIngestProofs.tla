------------------------ MODULE MetricsIngestProofs ------------------------
(***************************************************************************)
(* Theorems about MetricsIngest, for every fleet, every set of tenants and *)
(* rules and any number of workers, samples, edits of rules, stalls and    *)
(* other mishaps: its types, that an event is raised on as many bad        *)
(* samples as its rule asks for, that no alarm is missed, and that the     *)
(* jobs of an agent link it to its host.                                   *)
(* MCPlatform runs it beside AgentIdentity and RealtimeStream; at the end, *)
(* the types of all three.                                                 *)
(***************************************************************************)
EXTENDS MCPlatform, AgentIdentityProofs, RealtimeStreamProofs,
        FiniteSetTheorems, SequenceTheorems, WellFoundedInduction, TLAPS

JobAt == {"waiting", "active", "completed", "failed"}
JobRec == [hi : Nat, at : JobAt, run : 1..2]
HandlerAt == {"idle", "find", "insert", "link", "containers", "rules", "track", "publish"}
HandlerRec == [at : HandlerAt, agent : SUBSET Agents, job : Nat, run : 0..2, sample : Nat,
               rules : SUBSET Indexes, rule : Indexes, by : SUBSET Nat]
CountRec == [n : Nat, by : SUBSET Nat]

Evaluating(h) == h.at \in {"track", "publish"}
Key(i, a) == <<RuleAt(i).event, a>>

(***************************************************************************)
(* Handlers.  One that is not idle handles a delivery of a job, which no   *)
(* other one handles, and stands at one of its samples and one of its      *)
(* rules.  Its delivery is the last one and under way, or the job has been *)
(* delivered again or given up since, which is a mishap.                   *)
(***************************************************************************)
Handles(w, a, n, m) ==
    handlers[w].agent = {a} /\ handlers[w].job = n /\ handlers[w].run = m
Handled(a, n, m) == \E w \in Workers : Handles(w, a, n, m)
HasLock(h, a) == jobs[a][h.job].at = "active" /\ jobs[a][h.job].run = h.run

Placed(h) ==
    \/ h = Idle
    \/ \E a \in Agents :
          /\ h.agent = {a} /\ h.at # "idle"
          /\ h.job \in DOMAIN jobs[a] /\ h.run \in 1..jobs[a][h.job].run
          /\ h.run = jobs[a][h.job].run => jobs[a][h.job].at \in {"active", "failed"}
          /\ h.sample \in h.job..jobs[a][h.job].hi
          /\ IF Evaluating(h) THEN h.rule \in h.rules ELSE h.sample = h.job
          /\ h.rules = {0} \/ h.rules \subseteq DOMAIN Rules

JobsReach == \A a \in Agents : \A n \in DOMAIN jobs[a] : n <= jobs[a][n].hi
HandlersPlaced == \A w \in Workers : Placed(handlers[w])
OneEach ==
    \A v, w \in Workers :
        /\ handlers[v] # Idle
        /\ handlers[v].agent = handlers[w].agent /\ handlers[v].job = handlers[w].job
        /\ handlers[v].run = handlers[w].run
        => v = w
NothingStalled ==
    mishaps = 0 => \A a \in Agents : \A n \in DOMAIN jobs[a] :
                      jobs[a][n].run = 1 /\ jobs[a][n].at # "failed"
TypeInv == IngestOK /\ JobsReach /\ HandlersPlaced /\ OneEach /\ NothingStalled

(***************************************************************************)
(* Links.  A machine whose row is there has its agent and its container    *)
(* attached, or a handler at it; a job comes to the rules only when the    *)
(* row is there or the name is taken.                                      *)
(***************************************************************************)
Ready(h) == h.at \in {"rules", "track", "publish"}
Attaching(h) == h.at \in {"link", "containers"}
Attached(a) ==
    \/ a \in links \cap containers
    \/ \E w \in Workers : Attaching(handlers[w]) /\ handlers[w].agent = {a}
Known(a) == a \in hosts \/ NameTaken(a)

WrittenInHosts ==
    /\ links \cup containers \subseteq hosts
    /\ \A w \in Workers : Attaching(handlers[w]) => handlers[w].agent \subseteq hosts
NotedAreLinked ==
    \A w \in Workers : handlers[w].at = "containers" => handlers[w].agent \subseteq links
HostsAreAttached == \A a \in hosts : Attached(a)
ReadyAreKnown ==
    \A w \in Workers : Ready(handlers[w]) => \A a \in handlers[w].agent : Known(a)
DoneAreKnown ==
    \A a \in Agents : \A n \in DOMAIN jobs[a] : jobs[a][n].at = "completed" => Known(a)
BridgeHolds == NotedAreLinked /\ HostsAreAttached /\ ReadyAreKnown /\ DoneAreKnown
LinkInv == WrittenInHosts /\ (mishaps = 0 => BridgeHolds)

(***************************************************************************)
(* Evidence.  A sample of a delivery has been through a rule if its        *)
(* handler is past them, or is gone.  A count is at most what has been     *)
(* through of the evidence that may have counted.                          *)
(***************************************************************************)
Past(h, r, k) ==
    /\ Evaluating(h)
    /\ \/ k < h.sample
       \/ k = h.sample /\ r < h.rule
       \/ k = h.sample /\ h.at = "publish" /\ h.rule \in {r, 0}
Over(a, n, m) == m < jobs[a][n].run \/ jobs[a][n].at \in {"completed", "failed"}
Through(a, n, m, r, k) ==
    \/ Over(a, n, m) /\ ~ Handled(a, n, m)
    \/ \E w \in Workers : Handles(w, a, n, m) /\ Past(handlers[w], r, k)
Seen(rule, a, by) ==
    {x \in Evidence(rule, a, by) : Through(a, x[2][1], x[2][2], x[1], x[2][3])}

CountsEarned ==
    \A i \in Indexes, a \in Agents :
        /\ IsFiniteSet(counts[Key(i, a)].by)
        /\ counts[Key(i, a)].n <= Cardinality(Seen(RuleAt(i), a, counts[Key(i, a)].by))
PublishEarned ==
    \A w \in Workers, a \in Agents :
        handlers[w].at = "publish" /\ handlers[w].agent = {a} =>
            /\ IsFiniteSet(handlers[w].by)
            /\ RuleAt(handlers[w].rule).need
                 <= Cardinality(Evidence(RuleAt(handlers[w].rule), a, handlers[w].by))
RaisedFinite == \A e \in raised : IsFiniteSet(e.by)
EarnedInv == CountsEarned /\ PublishEarned /\ RaisedFinite /\ FiresEarned

(***************************************************************************)
(* Alarms.  A rule that is enabled all the time is in every list.  While   *)
(* nothing goes wrong and the samples of an agent are all bad for one that *)
(* has its event type to itself, its count is never started again and      *)
(* holds every sample that went through, and when it is high enough the    *)
(* event is raised or about to be.                                         *)
(***************************************************************************)
Steady == enabled \ switched
RulesKept ==
    /\ rulesCache.fresh => Steady \subseteq rulesCache.rules
    /\ \A w \in Workers : Evaluating(handlers[w]) => Steady \subseteq handlers[w].rules

Alone(r) == Sharing(Rules[r]) = {r}
AllBad(a, r) ==
    \A n \in DOMAIN jobs[a] : \A k \in n..jobs[a][n].hi : Violates(Rules[r], values[<<a, k>>])
Announced(a, r) ==
    \/ \E e \in raised : e.rule = Rules[r] /\ e.agent = a
    \/ \E w \in Workers : /\ handlers[w].at = "publish" /\ handlers[w].rule = r
                          /\ handlers[w].agent = {a}
Counted(a, r) ==
    LET c == counts[Key(r, a)]
    IN  /\ IsFiniteSet(c.by) /\ Cardinality(c.by) <= c.n
        /\ \A n \in DOMAIN jobs[a] :
              \A k \in n..jobs[a][n].hi : Through(a, n, 1, r, k) => k \in c.by
        /\ c.by # {} /\ c.n >= Rules[r].need => Announced(a, r)
AlarmInv ==
    RulesKept
    /\ (mishaps = 0 => \A a \in Agents : \A r \in Steady :
                          Alone(r) /\ AllBad(a, r) => Counted(a, r))

IngestInv == TypeInv /\ LinkInv /\ EarnedInv /\ AlarmInv

-----------------------------------------------------------------------------
(* Rules, and the types of what is kept *)

LEMMA RulesTyped ==
    /\ Indexes \subseteq Nat /\ 0 \in Indexes /\ IsFiniteSet(Indexes)
    /\ DOMAIN Rules \subseteq Indexes /\ 0 \notin DOMAIN Rules /\ IsFiniteSet(DOMAIN Rules)
    /\ \A r \in DOMAIN Rules : RuleAt(r) = Rules[r]
    /\ \A i \in Indexes : RuleAt(i).need \in Int
<1>1. /\ DOMAIN Rules \subseteq Nat \ {0} /\ IsFiniteSet(DOMAIN Rules)
      /\ \A i \in Indexes : RuleAt(i).need \in Int
  BY IngestAssumption
<1>2. IsFiniteSet({0}) /\ IsFiniteSet({0} \cup DOMAIN Rules)
  BY <1>1, FS_Singleton, FS_Union
<1> QED
  BY <1>1, <1>2 DEF Indexes, RuleAt

\* A set of naturals that is not empty has a least element.
LEMMA MinIsLeast ==
    ASSUME NEW N \in SUBSET Nat, N # {}
    PROVE  Min(N) \in N /\ \A m \in N : Min(N) <= m
<1> DEFINE R == OpToRel(<, Nat)
<1>1. IsWellFoundedOn(R, Nat)
  BY NatLessThanWellFounded
<1> HIDE DEF R
<1>2. PICK n \in N : \A m \in N : ~ (<<m, n>> \in R)
  BY <1>1, WFMin
<1>3. \A m \in N : m < n => <<m, n>> \in R
  BY DEF R, OpToRel
<1>4. ASSUME NEW m \in N
      PROVE  n <= m
  <2>1. ~ (m < n)
    BY <1>2, <1>3
  <2> QED
    BY <2>1
<1> QED
  BY <1>4 DEF Min

LEMMA JobsTyped ==
    ASSUME IngestOK
    PROVE  /\ jobs \in [Agents -> Seq(JobRec)]
           /\ \A a \in Agents : /\ jobs[a] \in Seq(JobRec)
                                /\ DOMAIN jobs[a] = 1..Len(jobs[a]) /\ Len(jobs[a]) \in Nat
           /\ \A a \in Agents : \A n \in DOMAIN jobs[a] :
                 n \in Nat \ {0} /\ jobs[a][n] \in JobRec /\ jobs[a][n].hi \in Nat
                 /\ jobs[a][n].at \in JobAt /\ jobs[a][n].run \in 1..2
<1>1. jobs \in [Agents -> Seq(JobRec)]
  BY DEF IngestOK, JobRec, JobAt
<1>2. \A a \in Agents : /\ jobs[a] \in Seq(JobRec)
                        /\ DOMAIN jobs[a] = 1..Len(jobs[a]) /\ Len(jobs[a]) \in Nat
  BY <1>1
<1>3. \A a \in Agents : \A n \in DOMAIN jobs[a] : n \in Nat \ {0} /\ jobs[a][n] \in JobRec
  BY <1>2
<1> QED
  BY <1>1, <1>2, <1>3 DEF JobRec

LEMMA HandlersTyped ==
    ASSUME IngestOK
    PROVE  /\ handlers \in [Workers -> HandlerRec]
           /\ \A w \in Workers :
                 /\ handlers[w] \in HandlerRec
                 /\ handlers[w].at \in HandlerAt /\ handlers[w].agent \in SUBSET Agents
                 /\ handlers[w].job \in Nat /\ handlers[w].sample \in Nat
                 /\ handlers[w].run \in 0..2
                 /\ handlers[w].rules \in SUBSET Indexes /\ handlers[w].rule \in Indexes
                 /\ handlers[w].by \in SUBSET Nat
<1>1. handlers \in [Workers -> HandlerRec]
  BY DEF IngestOK, HandlerRec, HandlerAt
<1>2. \A w \in Workers : handlers[w] \in HandlerRec
  BY <1>1
<1> QED
  BY <1>1, <1>2 DEF HandlerRec

LEMMA IdleTyped ==
    /\ Idle \in HandlerRec /\ Idle.at = "idle" /\ Idle.agent = {}
    /\ ~ Evaluating(Idle)
  BY RulesTyped DEF Idle, HandlerRec, HandlerAt, Evaluating

LEMMA CountIs ==
    ASSUME IngestOK, NEW i \in Indexes, NEW a \in Agents
    PROVE  counts \in [Keys -> CountRec] /\ Key(i, a) \in Keys /\ counts[Key(i, a)] \in CountRec
<1>1. counts \in [Keys -> CountRec]
  BY DEF IngestOK, CountRec
<1>2. Key(i, a) \in Keys
  BY DEF Keys, Key
<1> QED
  BY <1>1, <1>2

\* What a handler that is not idle is about.
LEMMA Busy ==
    ASSUME TypeInv, NEW w \in Workers, handlers[w].at # "idle"
    PROVE  \E a \in Agents :
              /\ handlers[w].agent = {a} /\ handlers[w].job \in DOMAIN jobs[a]
              /\ handlers[w].run \in 1..jobs[a][handlers[w].job].run
              /\ handlers[w].run = jobs[a][handlers[w].job].run
                    => jobs[a][handlers[w].job].at \in {"active", "failed"}
              /\ handlers[w].sample \in handlers[w].job..jobs[a][handlers[w].job].hi
              /\ IF Evaluating(handlers[w]) THEN handlers[w].rule \in handlers[w].rules
                 ELSE handlers[w].sample = handlers[w].job
              /\ handlers[w].rules = {0} \/ handlers[w].rules \subseteq DOMAIN Rules
<1>1. handlers[w] # Idle /\ Placed(handlers[w])
  BY IdleTyped DEF TypeInv, HandlersPlaced
<1> QED
  BY <1>1 DEF Placed

-----------------------------------------------------------------------------
(* What the steps do to jobs and handlers *)

\* The job n of a is marked.
Marks(a, n, x) ==
    /\ jobs' \in [Agents -> Seq(JobRec)]
    /\ \A b \in Agents : DOMAIN jobs'[b] = DOMAIN jobs[b]
    /\ \A b \in Agents : \A m \in DOMAIN jobs[b] :
          /\ jobs'[b][m].hi = jobs[b][m].hi /\ jobs'[b][m].run = jobs[b][m].run
          /\ jobs'[b][m].at = IF b = a /\ m = n THEN x ELSE jobs[b][m].at

LEMMA JobMarked ==
    ASSUME IngestOK, NEW a \in Agents, NEW n \in DOMAIN jobs[a], NEW x \in JobAt,
           jobs' = [jobs EXCEPT ![a][n].at = x]
    PROVE  Marks(a, n, x)
<1> DEFINE row == [jobs[a] EXCEPT ![n] = [jobs[a][n] EXCEPT !.at = x]]
<1>1. jobs' = [jobs EXCEPT ![a] = row]
  OBVIOUS
<1>2. jobs[a][n] \in JobRec /\ [jobs[a][n] EXCEPT !.at = x] \in JobRec
  BY JobsTyped DEF JobRec
<1>3. row \in Seq(JobRec) /\ DOMAIN row = DOMAIN jobs[a]
  BY <1>2, JobsTyped
<1>4. /\ row[n].at = x /\ row[n].hi = jobs[a][n].hi /\ row[n].run = jobs[a][n].run
      /\ \A m \in DOMAIN jobs[a] : m # n => row[m] = jobs[a][m]
  BY <1>2 DEF JobRec
<1> HIDE DEF row
<1>5. jobs' \in [Agents -> Seq(JobRec)]
  BY <1>1, <1>3, JobsTyped
<1>6. jobs'[a] = row /\ \A b \in Agents : b # a => jobs'[b] = jobs[b]
  BY <1>1, JobsTyped
<1> QED
  BY <1>3, <1>4, <1>5, <1>6 DEF Marks

\* A handler that goes on without its lock leaves its job alone.
LEMMA JobEnded ==
    ASSUME IngestOK, NEW a \in Agents, NEW h, h.job \in DOMAIN jobs[a], NEW x \in JobAt,
           jobs' = Ended(h, a, x)
    PROVE  IF HasLock(h, a) THEN Marks(a, h.job, x) ELSE UNCHANGED jobs
<1>1. PICK n \in DOMAIN jobs[a] : n = h.job
  OBVIOUS
<1>2. HasLock(h, a) => jobs' = [jobs EXCEPT ![a][n].at = x]
  BY <1>1 DEF Ended, HasLock
<1>3. HasLock(h, a) => Marks(a, n, x)
  BY <1>2, JobMarked
<1> QED
  BY <1>1, <1>3 DEF Ended, HasLock

\* The next job of a is there.
Sends(a, hi) ==
    /\ jobs' \in [Agents -> Seq(JobRec)]
    /\ hi \in Nat /\ Len(jobs[a]) + 1 <= hi
    /\ DOMAIN jobs'[a] = DOMAIN jobs[a] \cup {Len(jobs[a]) + 1}
    /\ Len(jobs[a]) + 1 \notin DOMAIN jobs[a]
    /\ jobs'[a][Len(jobs[a]) + 1] = [hi |-> hi, at |-> "waiting", run |-> 1]
    /\ \A m \in DOMAIN jobs[a] : jobs'[a][m] = jobs[a][m]
    /\ \A b \in Agents : b # a => jobs'[b] = jobs[b]

LEMMA JobSent ==
    ASSUME IngestOK, NEW a \in Agents, NEW hi \in 1..MaxSamples[a], Send(a, hi)
    PROVE  Sends(a, hi)
<1> DEFINE job == [hi |-> hi, at |-> "waiting", run |-> 1]
<1>1. MaxSamples[a] \in Nat /\ hi \in Nat
  BY IngestAssumption
<1>2. job \in JobRec
  BY <1>1 DEF JobRec, JobAt
<1>3. jobs' = [jobs EXCEPT ![a] = Append(jobs[a], job)]
  BY DEF Send
<1>4. Len(jobs[a]) + 1 <= hi
  BY <1>1, JobsTyped DEF Send
<1> HIDE DEF job
<1>5. /\ Append(jobs[a], job) \in Seq(JobRec)
      /\ Len(Append(jobs[a], job)) = Len(jobs[a]) + 1
      /\ Append(jobs[a], job)[Len(jobs[a]) + 1] = job
      /\ \A m \in DOMAIN jobs[a] : Append(jobs[a], job)[m] = jobs[a][m]
  BY <1>2, JobsTyped
<1>6. DOMAIN Append(jobs[a], job) = DOMAIN jobs[a] \cup {Len(jobs[a]) + 1}
  BY <1>5, JobsTyped
<1>7. Len(jobs[a]) + 1 \notin DOMAIN jobs[a]
  BY JobsTyped
<1>8. /\ jobs' \in [Agents -> Seq(JobRec)] /\ jobs'[a] = Append(jobs[a], job)
      /\ \A b \in Agents : b # a => jobs'[b] = jobs[b]
  BY <1>3, <1>5, JobsTyped
<1> QED
  BY <1>1, <1>4, <1>5, <1>6, <1>7, <1>8 DEF Sends, job

\* One handler changes.
Changes(w, h) ==
    /\ handlers' \in [Workers -> HandlerRec] /\ handlers'[w] = h
    /\ \A v \in Workers : v # w => handlers'[v] = handlers[v]

LEMMA HandlerChanged ==
    ASSUME IngestOK, NEW w \in Workers, NEW h \in HandlerRec,
           handlers' = [handlers EXCEPT ![w] = h]
    PROVE  Changes(w, h)
  BY HandlersTyped DEF Changes

\* The handler h goes on to the next rule of its list, or from the last of them to
\* the next sample.
Moves(h, g, hi) ==
    /\ g \in HandlerRec /\ g.at = "track"
    /\ g.agent = h.agent /\ g.job = h.job /\ g.run = h.run
    /\ g.rules = h.rules /\ g.rule \in h.rules
    /\ \/ /\ g.sample = h.sample /\ h.rule < g.rule
          /\ \A r \in h.rules : h.rule < r => g.rule <= r
       \/ /\ g.sample = h.sample + 1 /\ h.sample < hi
          /\ \A r \in h.rules : r <= h.rule /\ g.rule <= r
EndsJob(h, hi) == h.sample >= hi /\ \A r \in h.rules : r <= h.rule

LEMMA AfterIs ==
    ASSUME NEW h \in HandlerRec, Evaluating(h), h.rule \in h.rules, NEW hi \in Nat
    PROVE  \/ After(h, hi) = Idle /\ EndsJob(h, hi)
           \/ After(h, hi) # Idle /\ Moves(h, After(h, hi), hi)
<1> DEFINE later == {r \in h.rules : r > h.rule}
<1>1. /\ h.rules \in SUBSET Indexes /\ h.rule \in Indexes /\ h.sample \in Nat
      /\ h.rules \in SUBSET Nat /\ h.rule \in Nat
  BY RulesTyped DEF HandlerRec
<1>2. CASE later # {}
  <2> DEFINE g == [h EXCEPT !.at = "track", !.rule = Min(later), !.by = {}]
  <2>1. Min(later) \in later /\ \A m \in later : Min(later) <= m
    BY <1>1, <1>2, MinIsLeast
  <2>2. /\ g \in HandlerRec /\ g.at = "track" /\ g.rule = Min(later)
        /\ g.agent = h.agent /\ g.job = h.job /\ g.run = h.run
        /\ g.rules = h.rules /\ g.sample = h.sample
    BY <1>1, <2>1 DEF HandlerRec, HandlerAt
  <2>3. After(h, hi) = g
    BY <1>2 DEF After
  <2>4. g # Idle
    BY <2>2 DEF Idle
  <2>5. \A r \in h.rules : h.rule < r => Min(later) <= r
    BY <1>1, <2>1
  <2> HIDE DEF g
  <2> QED
    BY <2>1, <2>2, <2>3, <2>4, <2>5 DEF Moves
<1>3. CASE later = {} /\ h.sample < hi
  <2> DEFINE g == [h EXCEPT !.at = "track", !.rule = Min(h.rules), !.sample = @ + 1, !.by = {}]
  <2>1. Min(h.rules) \in h.rules /\ \A m \in h.rules : Min(h.rules) <= m
    BY <1>1, MinIsLeast
  <2>a. PICK k \in Nat : k = h.sample + 1
    BY <1>1
  <2>b. PICK r \in Indexes : r = Min(h.rules)
    BY <1>1, <2>1
  <2>c. g = [h EXCEPT !.at = "track", !.rule = r, !.sample = k, !.by = {}]
    BY <2>a, <2>b
  <2>2. /\ g \in HandlerRec /\ g.at = "track" /\ g.rule = Min(h.rules)
        /\ g.agent = h.agent /\ g.job = h.job /\ g.run = h.run
        /\ g.rules = h.rules /\ g.sample = h.sample + 1
    <3> HIDE DEF g
    <3>1. /\ g \in HandlerRec /\ g.at = "track" /\ g.rule = r /\ g.sample = k
          /\ g.agent = h.agent /\ g.job = h.job /\ g.run = h.run /\ g.rules = h.rules
      BY <2>c DEF HandlerRec, HandlerAt
    <3> QED
      BY <2>a, <2>b, <3>1
  <2>3. After(h, hi) = g
    BY <1>3 DEF After
  <2>4. g # Idle
    BY <2>2 DEF Idle
  <2>5. \A m \in h.rules : m <= h.rule
    BY <1>1, <1>3
  <2> HIDE DEF g
  <2> QED
    BY <1>3, <2>1, <2>2, <2>3, <2>4, <2>5 DEF Moves
<1>4. CASE later = {} /\ ~ (h.sample < hi)
  <2>1. After(h, hi) = Idle
    BY <1>4 DEF After
  <2>2. \A m \in h.rules : m <= h.rule
    BY <1>1, <1>4
  <2> QED
    BY <1>1, <1>4, <2>1, <2>2 DEF EndsJob
<1> QED
  BY <1>2, <1>3, <1>4

-----------------------------------------------------------------------------
(* The flow: what any step does to the jobs and to their handlers *)

Only(w) ==
    /\ handlers' \in [Workers -> HandlerRec]
    /\ \A v \in Workers : v # w => handlers'[v] = handlers[v]
JobsKept(w) ==
    /\ Only(w) /\ UNCHANGED jobs
    /\ handlers'[w].agent = handlers[w].agent /\ handlers'[w].job = handlers[w].job
    /\ handlers'[w].run = handlers[w].run

Takes(w, a, n) ==
    /\ handlers[w] = Idle /\ jobs[a][n].at = "waiting" /\ Marks(a, n, "active") /\ Only(w)
    /\ handlers'[w].at = "find" /\ handlers'[w].agent = {a} /\ handlers'[w].rules = {}
    /\ handlers'[w].job = n /\ handlers'[w].run = jobs[a][n].run /\ handlers'[w].sample = n
Readies(w) ==
    /\ JobsKept(w) /\ handlers[w].at \in {"find", "insert", "link", "containers"}
    /\ handlers'[w].at \in {"insert", "link", "containers", "rules"}
    /\ handlers'[w].sample = handlers[w].sample /\ handlers'[w].rules = handlers[w].rules
Loads(w) ==
    /\ JobsKept(w) /\ handlers[w].at = "rules" /\ handlers'[w].at = "track"
    /\ handlers'[w].sample = handlers[w].sample /\ handlers'[w].rule \in handlers'[w].rules
    /\ handlers'[w].rules = {0} \/ handlers'[w].rules \subseteq DOMAIN Rules
    /\ \A r \in handlers'[w].rules : handlers'[w].rule <= r
Fires(w) ==
    /\ JobsKept(w) /\ handlers[w].at = "track" /\ handlers'[w].at = "publish"
    /\ handlers'[w].sample = handlers[w].sample /\ handlers'[w].rules = handlers[w].rules
    /\ handlers'[w].rule = handlers[w].rule
Advances(w) ==
    /\ JobsKept(w) /\ Evaluating(handlers[w])
    /\ \E a \in Agents :
          /\ handlers[w].agent = {a}
          /\ Moves(handlers[w], handlers'[w], jobs[a][handlers[w].job].hi)
Ends(w, x) ==
    /\ Only(w) /\ handlers[w].at \in {"rules", "track", "publish"} /\ handlers'[w] = Idle
    /\ \E a \in Agents :
          /\ handlers[w].agent = {a}
          /\ IF HasLock(handlers[w], a) THEN Marks(a, handlers[w].job, x) ELSE UNCHANGED jobs
          /\ x = "completed" => /\ Evaluating(handlers[w])
                                /\ EndsJob(handlers[w], jobs[a][handlers[w].job].hi)

\* A job that is under way is to be delivered once more, or is given up.
Requeues(a, n) ==
    /\ jobs' \in [Agents -> Seq(JobRec)] /\ jobs[a][n].at = "active"
    /\ \A b \in Agents : DOMAIN jobs'[b] = DOMAIN jobs[b]
    /\ \A b \in Agents : \A m \in DOMAIN jobs[b] : b # a \/ m # n => jobs'[b][m] = jobs[b][m]
    /\ jobs'[a][n].hi = jobs[a][n].hi
    /\ \/ jobs[a][n].run = 1 /\ jobs'[a][n].run = 2 /\ jobs'[a][n].at = "waiting"
       \/ jobs'[a][n].run = jobs[a][n].run /\ jobs'[a][n].at = "failed"

\* Any step but the bridge's and a crash.
Moved ==
    \/ \E a \in Agents, hi \in Nat : Sends(a, hi) /\ UNCHANGED handlers
    \/ \E w \in Workers : \/ \E a \in Agents : \E n \in DOMAIN jobs[a] : Takes(w, a, n)
                          \/ Loads(w) \/ Fires(w) \/ Advances(w)
                          \/ Ends(w, "completed")
                          \/ Ends(w, "failed") /\ mishaps' # 0
    \/ \E a \in Agents : \E n \in DOMAIN jobs[a] :
          Requeues(a, n) /\ UNCHANGED handlers /\ mishaps' # 0
    \/ UNCHANGED <<jobs, handlers>>
Flow == Moved \/ \E w \in Workers : Readies(w)

\* The statements of the identity bridge.
Bridge(w) == Find(w) \/ Insert(w) \/ Link(w) \/ BridgeContainers(w)

LEMMA GoOnFlows ==
    ASSUME TypeInv, NEW w \in Workers, NEW a \in Agents, Evaluating(handlers[w]),
           handlers[w].agent = {a}, GoOn(w, a)
    PROVE  Advances(w) \/ Ends(w, "completed")
<1> DEFINE h == handlers[w]
           hi == jobs[a][h.job].hi
           next == After(h, hi)
<1>1. IngestOK
  BY DEF TypeInv
<1>2. h \in HandlerRec
  BY <1>1, HandlersTyped
<1>3. handlers[w].at # "idle" /\ handlers[w].at \in {"rules", "track", "publish"}
  BY DEF Evaluating
<1>4. h.rule \in h.rules /\ h.job \in DOMAIN jobs[a]
  BY <1>3, Busy
<1>5. hi \in Nat
  BY <1>1, <1>4, JobsTyped
<1>6. \/ next = Idle /\ EndsJob(h, hi)
      \/ next # Idle /\ Moves(h, next, hi)
  <2> HIDE DEF h, hi
  <2> QED
    BY <1>2, <1>4, <1>5, AfterIs DEF h
<1>7. next \in HandlerRec
  BY <1>6, IdleTyped DEF Moves
<1>8. handlers' = [handlers EXCEPT ![w] = next]
  BY DEF GoOn
<1>9. Changes(w, next)
  <2> HIDE DEF next
  <2> QED
    BY <1>1, <1>7, <1>8, HandlerChanged
<1>10. handlers'[w] = next /\ Only(w)
  BY <1>9 DEF Changes, Only
<1>11. CASE next = Idle
  <2>1. jobs' = Ended(h, a, "completed")
    BY <1>11 DEF GoOn
  <2>2. IF HasLock(h, a) THEN Marks(a, h.job, "completed") ELSE UNCHANGED jobs
    BY <1>1, <1>4, <2>1, JobEnded DEF JobAt
  <2>3. EndsJob(h, hi)
    BY <1>6, <1>11
  <2> QED
    BY <1>3, <1>10, <1>11, <2>2, <2>3 DEF Ends
<1>12. CASE next # Idle
  <2>1. UNCHANGED jobs
    BY <1>12 DEF GoOn
  <2>2. Moves(h, next, hi)
    BY <1>6, <1>12
  <2> QED
    BY <1>10, <2>1, <2>2 DEF Advances, JobsKept, Moves
<1> QED
  BY <1>11, <1>12

LEMMA TakeFlows ==
    ASSUME TypeInv, NEW w \in Workers, NEW a \in Agents, NEW n \in DOMAIN jobs[a], TakeJob(w, a, n)
    PROVE  Takes(w, a, n)
<1>1. IngestOK
  BY DEF TypeInv
<1>2. n \in Nat
  BY <1>1, JobsTyped
<1>a. PICK m \in 0..2 : m = jobs[a][n].run
  <2>1. jobs[a][n].run \in 1..2
    BY <1>1, JobsTyped
  <2> QED
    BY <2>1
<1> DEFINE g == [Idle EXCEPT !.at = "find", !.agent = {a}, !.job = n, !.run = m, !.sample = n]
<1>3. /\ g \in HandlerRec /\ g.at = "find" /\ g.agent = {a} /\ g.job = n /\ g.run = m
      /\ g.sample = n /\ g.rules = {}
  BY <1>2, RulesTyped DEF Idle, HandlerRec, HandlerAt
<1>4. handlers' = [handlers EXCEPT ![w] = g]
  BY <1>a DEF TakeJob
<1> HIDE DEF g
<1>5. Changes(w, g)
  BY <1>1, <1>3, <1>4, HandlerChanged
<1>6. Marks(a, n, "active")
  BY <1>1, JobMarked DEF TakeJob, JobAt
<1> QED
  BY <1>a, <1>3, <1>5, <1>6 DEF Takes, TakeJob, Changes, Only

\* A handler whose place changes only.
LEMMA PlaceSet ==
    ASSUME IngestOK, NEW w \in Workers, NEW x \in HandlerAt, UNCHANGED jobs,
           handlers' = [handlers EXCEPT ![w].at = x]
    PROVE  /\ JobsKept(w) /\ handlers'[w].at = x /\ handlers'[w].sample = handlers[w].sample
           /\ handlers'[w].rules = handlers[w].rules /\ handlers'[w].rule = handlers[w].rule
<1> DEFINE g == [handlers[w] EXCEPT !.at = x]
<1>1. handlers[w] \in HandlerRec
  BY HandlersTyped
<1>2. /\ g \in HandlerRec /\ g.at = x /\ g.agent = handlers[w].agent
      /\ g.job = handlers[w].job /\ g.run = handlers[w].run /\ g.sample = handlers[w].sample
      /\ g.rules = handlers[w].rules /\ g.rule = handlers[w].rule
  BY <1>1 DEF HandlerRec
<1>3. handlers' = [handlers EXCEPT ![w] = g]
  OBVIOUS
<1> HIDE DEF g
<1>4. Changes(w, g)
  BY <1>2, <1>3, HandlerChanged
<1> QED
  BY <1>2, <1>4 DEF JobsKept, Only, Changes

LEMMA BridgeFlows ==
    ASSUME TypeInv, NEW w \in Workers, Bridge(w)
    PROVE  Readies(w)
<1> DEFINE Next4 == {"insert", "link", "containers", "rules"}
<1>1. IngestOK
  BY DEF TypeInv
<1>2. \E x \in Next4 : handlers' = [handlers EXCEPT ![w].at = x]
  <2>1. CASE Find(w)
    <3>1. CASE handlers[w].agent \subseteq hosts
      BY <2>1, <3>1 DEF Find
    <3>2. CASE ~ (handlers[w].agent \subseteq hosts)
      BY <2>1, <3>2 DEF Find
    <3> QED
      BY <3>1, <3>2
  <2>2. CASE Insert(w)
    BY <2>2 DEF Insert, AfterInsert
  <2>3. CASE Link(w) \/ BridgeContainers(w)
    BY <2>3 DEF Link, BridgeContainers
  <2> QED
    BY <2>1, <2>2, <2>3 DEF Bridge
<1>3. UNCHANGED jobs /\ handlers[w].at \in {"find", "insert", "link", "containers"}
  BY DEF Bridge, Find, Insert, Link, BridgeContainers
<1>4. PICK x \in Next4 : handlers' = [handlers EXCEPT ![w].at = x]
  BY <1>2
<1>5. x \in HandlerAt
  BY DEF HandlerAt
<1> QED
  BY <1>1, <1>3, <1>4, <1>5, PlaceSet DEF Readies

LEMMA LoadFlows ==
    ASSUME TypeInv, NEW w \in Workers, LoadRules(w)
    PROVE  /\ Loads(w)
           /\ handlers'[w].rules = IF Loaded = {} THEN {0} ELSE Loaded
<1> DEFINE rules == IF Loaded = {} THEN {0} ELSE Loaded
           g == [handlers[w] EXCEPT !.at = "track", !.rules = rules, !.rule = Min(rules)]
<1>1. IngestOK
  BY DEF TypeInv
<1>2. handlers[w] \in HandlerRec
  BY <1>1, HandlersTyped
<1>3. Loaded \subseteq DOMAIN Rules
  BY <1>1 DEF IngestOK, Loaded
<1>4. /\ rules \in SUBSET Indexes /\ rules \in SUBSET Nat /\ rules # {}
      /\ rules = {0} \/ rules \subseteq DOMAIN Rules
  BY <1>3, RulesTyped
<1>5. handlers' = [handlers EXCEPT ![w] = g] /\ UNCHANGED jobs /\ handlers[w].at = "rules"
  BY DEF LoadRules
<1> HIDE DEF rules
<1>6. Min(rules) \in rules /\ \A r \in rules : Min(rules) <= r
  BY <1>4, MinIsLeast
<1>7. PICK i \in Indexes : i = Min(rules)
  BY <1>4, <1>6
<1>8. /\ g \in HandlerRec /\ g.at = "track" /\ g.rules = rules /\ g.rule = i
      /\ g.agent = handlers[w].agent /\ g.job = handlers[w].job /\ g.run = handlers[w].run
      /\ g.sample = handlers[w].sample
  BY <1>2, <1>4, <1>7 DEF HandlerRec, HandlerAt
<1> HIDE DEF g
<1>9. Changes(w, g)
  BY <1>1, <1>5, <1>8, HandlerChanged
<1>10. handlers'[w] = g /\ JobsKept(w)
  BY <1>5, <1>8, <1>9 DEF JobsKept, Only, Changes
<1>11. Loads(w)
  BY <1>4, <1>5, <1>6, <1>7, <1>8, <1>10 DEF Loads
<1> QED
  BY <1>8, <1>10, <1>11 DEF rules

\* A sample is counted under the rule; the handler fires or goes on.
LEMMA TrackFlows ==
    ASSUME TypeInv, NEW w \in Workers, Track(w)
    PROVE  \E a \in Agents :
              LET h == handlers[w]
                  count == NextCount(Key(h.rule, a), RuleAt(h.rule), h.sample, values[<<a, h.sample>>])
              IN  /\ h.at = "track" /\ h.agent = {a}
                  /\ counts' = [counts EXCEPT ![Key(h.rule, a)] = count]
                  /\ IF count.n >= RuleAt(h.rule).need
                     THEN Fires(w) /\ handlers'[w].by = count.by
                     ELSE Advances(w) \/ Ends(w, "completed")
<1>1. IngestOK /\ handlers[w].at = "track" /\ Evaluating(handlers[w])
  BY DEF TypeInv, Track, Evaluating
<1>2. PICK a \in Agents : handlers[w].agent = {a}
  BY <1>1, Busy
<1> DEFINE h == handlers[w]
           count == NextCount(Key(h.rule, a), RuleAt(h.rule), h.sample, values[<<a, h.sample>>])
<1>3. /\ counts' = [counts EXCEPT ![Key(h.rule, a)] = count]
      /\ IF count.n >= RuleAt(h.rule).need
         THEN handlers' = [handlers EXCEPT ![w].at = "publish", ![w].by = count.by] /\ UNCHANGED jobs
         ELSE GoOn(w, a)
  BY <1>2 DEF Track, Key
<1>4. /\ h \in HandlerRec /\ h.rule \in Indexes /\ h.sample \in Nat /\ h.by \in SUBSET Nat
      /\ Key(h.rule, a) \in Keys
  BY <1>1, HandlersTyped DEF Keys, Key
<1>5. counts[Key(h.rule, a)].by \in SUBSET Nat
  BY <1>1, <1>4 DEF IngestOK
<1>6. count.by \in SUBSET Nat
  BY <1>4, <1>5 DEF NextCount, Unseen
<1>7. CASE count.n >= RuleAt(h.rule).need
  <2> DEFINE g == [h EXCEPT !.at = "publish", !.by = count.by]
  <2> HIDE DEF count
  <2>1. /\ g \in HandlerRec /\ g.at = "publish" /\ g.by = count.by /\ g.agent = h.agent
        /\ g.job = h.job /\ g.run = h.run /\ g.sample = h.sample /\ g.rules = h.rules
        /\ g.rule = h.rule
    BY <1>4, <1>6 DEF HandlerRec, HandlerAt
  <2>2. handlers' = [handlers EXCEPT ![w] = g] /\ UNCHANGED jobs
    BY <1>3, <1>7
  <2> HIDE DEF g
  <2>3. Changes(w, g)
    BY <1>1, <2>1, <2>2, HandlerChanged
  <2>4. handlers'[w] = g /\ JobsKept(w)
    BY <2>1, <2>2, <2>3 DEF JobsKept, Only, Changes
  <2>5. Fires(w) /\ handlers'[w].by = count.by
    BY <1>1, <2>1, <2>4 DEF Fires
  <2> QED
    BY <1>1, <1>2, <1>3, <1>7, <2>5 DEF count
<1>8. CASE ~ (count.n >= RuleAt(h.rule).need)
  <2>1. GoOn(w, a)
    BY <1>3, <1>8
  <2>2. Advances(w) \/ Ends(w, "completed")
    BY <1>1, <1>2, <2>1, GoOnFlows
  <2> QED
    BY <1>1, <1>2, <1>3, <1>8, <2>2
<1> QED
  BY <1>7, <1>8

LEMMA PublishFlows ==
    ASSUME TypeInv, NEW w \in Workers, Publish(w)
    PROVE  \E a \in Agents :
              /\ handlers[w].at = "publish" /\ handlers[w].agent = {a}
              /\ raised' = raised \cup {[rule |-> RuleAt(handlers[w].rule), agent |-> a,
                                         by |-> handlers[w].by]}
              /\ Advances(w) \/ Ends(w, "completed")
<1>1. handlers[w].at = "publish" /\ Evaluating(handlers[w])
  BY DEF Publish, Evaluating
<1>2. PICK a \in Agents : handlers[w].agent = {a}
  BY <1>1, Busy
<1>3. /\ raised' = raised \cup {[rule |-> RuleAt(handlers[w].rule), agent |-> a,
                                 by |-> handlers[w].by]}
      /\ GoOn(w, a)
  BY <1>2 DEF Publish
<1> QED
  BY <1>1, <1>2, <1>3, GoOnFlows

LEMMA FailFlows ==
    ASSUME TypeInv, NEW w \in Workers, JobFails(w)
    PROVE  Ends(w, "failed") /\ mishaps' = mishaps + 1
<1>1. /\ IngestOK /\ handlers[w].at # "idle"
      /\ handlers[w].at \in {"rules", "track", "publish"}
  BY DEF TypeInv, JobFails
<1>2. PICK a \in Agents : handlers[w].agent = {a} /\ handlers[w].job \in DOMAIN jobs[a]
  BY <1>1, Busy
<1>3. The(handlers[w].agent) = a
  BY <1>2 DEF The
<1>4. jobs' = Ended(handlers[w], a, "failed")
  BY <1>3 DEF JobFails
<1>5. IF HasLock(handlers[w], a) THEN Marks(a, handlers[w].job, "failed") ELSE UNCHANGED jobs
  BY <1>1, <1>2, <1>4, JobEnded DEF JobAt
<1>6. Changes(w, Idle)
  BY <1>1, IdleTyped, HandlerChanged DEF JobFails
<1> QED
  BY <1>1, <1>2, <1>5, <1>6 DEF Ends, Only, Changes, JobFails, Mishap

LEMMA RequeuedIs ==
    ASSUME NEW job \in JobRec
    PROVE  /\ Requeued(job) \in JobRec /\ Requeued(job).hi = job.hi
           /\ job.run <= Requeued(job).run
           /\ \/ job.run = 1 /\ Requeued(job).run = 2 /\ Requeued(job).at = "waiting"
              \/ Requeued(job).run = job.run /\ Requeued(job).at = "failed"
<1>1. 2 \in 1..2 /\ "waiting" \in JobAt /\ "failed" \in JobAt /\ job.run \in 1..2
  BY DEF JobAt, JobRec
<1> DEFINE again == [job EXCEPT !.at = "waiting", !.run = 2]
           over == [job EXCEPT !.at = "failed"]
<1>2. again \in JobRec /\ again.hi = job.hi /\ again.run = 2 /\ again.at = "waiting"
  BY <1>1 DEF JobRec
<1>3. over \in JobRec /\ over.hi = job.hi /\ over.run = job.run /\ over.at = "failed"
  BY <1>1 DEF JobRec
<1>4. Requeued(job) = IF job.run = 1 THEN again ELSE over
  BY DEF Requeued
<1> HIDE DEF again, over
<1> QED
  BY <1>1, <1>2, <1>3, <1>4

LEMMA StallFlows ==
    ASSUME TypeInv, NEW a \in Agents, NEW n \in DOMAIN jobs[a], Stall(a, n)
    PROVE  Requeues(a, n) /\ UNCHANGED handlers /\ mishaps' # 0
<1>1. IngestOK /\ mishaps' # 0
  BY DEF TypeInv, IngestOK, Stall, Mishap
<1>2. PICK job \in JobRec : job = Requeued(jobs[a][n])
  BY <1>1, JobsTyped, RequeuedIs
<1>3. /\ job.hi = jobs[a][n].hi
      /\ \/ jobs[a][n].run = 1 /\ job.run = 2 /\ job.at = "waiting"
         \/ job.run = jobs[a][n].run /\ job.at = "failed"
  BY <1>1, <1>2, JobsTyped, RequeuedIs
<1> DEFINE row == [jobs[a] EXCEPT ![n] = job]
<1>4. row \in Seq(JobRec) /\ DOMAIN row = DOMAIN jobs[a]
  BY <1>1, JobsTyped
<1>5. row[n] = job /\ \A m \in DOMAIN jobs[a] : m # n => row[m] = jobs[a][m]
  OBVIOUS
<1>6. jobs' = [jobs EXCEPT ![a] = row]
  BY <1>2 DEF Stall
<1> HIDE DEF row
<1>7. jobs' \in [Agents -> Seq(JobRec)]
  BY <1>1, <1>4, <1>6, JobsTyped
<1>8. jobs'[a] = row /\ \A b \in Agents : b # a => jobs'[b] = jobs[b]
  BY <1>1, <1>6, JobsTyped
<1> QED
  BY <1>1, <1>3, <1>4, <1>5, <1>7, <1>8 DEF Requeues, Stall

LEMMA StepFlows ==
    ASSUME TypeInv, NextIngest, ~ WorkerCrash
    PROVE  Flow /\ (Moved \/ \E w \in Workers : Bridge(w))
<1>1. IngestOK
  BY DEF TypeInv
<1>2. ASSUME NEW a \in Agents, NEW hi \in 1..MaxSamples[a], Send(a, hi)
      PROVE  Moved
  <2>1. Sends(a, hi) /\ UNCHANGED handlers
    BY <1>1, <1>2, JobSent DEF Send
  <2>2. hi \in Nat
    BY <2>1 DEF Sends
  <2> QED
    BY <2>1, <2>2 DEF Moved
<1>3. ASSUME NEW a \in Agents, NEW n \in DOMAIN jobs[a],
             Stall(a, n) \/ \E w \in Workers : TakeJob(w, a, n)
      PROVE  Moved
  BY <1>3, TakeFlows, StallFlows DEF Moved
<1>4. ASSUME \/ \E r \in DOMAIN Rules : Switch(r)
             \/ \E a \in Agents : CreateHost(NameOf[a])
             \/ CacheAges
      PROVE  Moved
  BY <1>4 DEF Moved, Switch, CreateHost, CacheAges
<1>5. ASSUME NEW w \in Workers, Bridge(w)
      PROVE  Readies(w)
  BY <1>5, BridgeFlows
<1>6. ASSUME NEW w \in Workers, LoadRules(w)
      PROVE  Moved
  BY <1>6, LoadFlows DEF Moved
<1>7. ASSUME NEW w \in Workers, Track(w)
      PROVE  Moved
  BY <1>7, TrackFlows DEF Moved
<1>8. ASSUME NEW w \in Workers, Publish(w)
      PROVE  Moved
  BY <1>8, PublishFlows DEF Moved
<1>9. ASSUME NEW w \in Workers, JobFails(w)
      PROVE  Moved
  <2>1. Ends(w, "failed") /\ mishaps' # 0
    BY <1>9, FailFlows DEF TypeInv, IngestOK
  <2> QED
    BY <2>1 DEF Moved
<1> QED
  BY <1>2, <1>3, <1>4, <1>5, <1>6, <1>7, <1>8, <1>9 DEF NextIngest, Flow, Bridge

-----------------------------------------------------------------------------
(* The type invariant *)

\* A handler that stays where it is stays right, unless its own delivery ends.
LEMMA StaysPlaced ==
    ASSUME TypeInv, NEW v \in Workers, UNCHANGED handlers[v],
           \A a \in Agents : handlers[v].agent = {a} =>
              /\ handlers[v].job \in DOMAIN jobs'[a]
              /\ jobs'[a][handlers[v].job].hi = jobs[a][handlers[v].job].hi
              /\ \/ /\ jobs'[a][handlers[v].job].run = jobs[a][handlers[v].job].run
                    /\ \/ jobs'[a][handlers[v].job].at \in {jobs[a][handlers[v].job].at, "failed"}
                       \/ handlers[v].run # jobs[a][handlers[v].job].run
                 \/ jobs[a][handlers[v].job].run = 1 /\ jobs'[a][handlers[v].job].run = 2
    PROVE  Placed(handlers[v])'
<1>1. Placed(handlers[v])
  BY DEF TypeInv, HandlersPlaced
<1>2. CASE handlers[v] = Idle
  BY <1>2 DEF Placed
<1>3. CASE handlers[v] # Idle
  <2>1. PICK a \in Agents :
          /\ handlers[v].agent = {a} /\ handlers[v].at # "idle"
          /\ handlers[v].job \in DOMAIN jobs[a]
          /\ handlers[v].run \in 1..jobs[a][handlers[v].job].run
          /\ handlers[v].run = jobs[a][handlers[v].job].run
                => jobs[a][handlers[v].job].at \in {"active", "failed"}
          /\ handlers[v].sample \in handlers[v].job..jobs[a][handlers[v].job].hi
          /\ IF Evaluating(handlers[v]) THEN handlers[v].rule \in handlers[v].rules
             ELSE handlers[v].sample = handlers[v].job
          /\ handlers[v].rules = {0} \/ handlers[v].rules \subseteq DOMAIN Rules
    BY <1>1, <1>3 DEF Placed
  <2>2. Evaluating(handlers[v])' <=> Evaluating(handlers[v])
    BY DEF Evaluating
  <2>3. PICK m : m = jobs'[a][handlers[v].job]
    OBVIOUS
  <2>4. /\ handlers[v].run \in 1..m.run
        /\ handlers[v].run = m.run => m.at \in {"active", "failed"}
        /\ m.hi = jobs[a][handlers[v].job].hi
    <3>1. jobs[a][handlers[v].job].run \in 1..2
      BY <2>1, JobsTyped DEF TypeInv
    <3> QED
      BY <2>1, <2>3, <3>1
  <2> QED
    BY <2>1, <2>2, <2>3, <2>4 DEF Placed
<1> QED
  BY <1>2, <1>3

LEMMA PlacesWhenSent ==
    ASSUME TypeInv, NEW a \in Agents, NEW hi \in Nat, Sends(a, hi), UNCHANGED handlers
    PROVE  JobsReach' /\ HandlersPlaced' /\ OneEach'
<1>1. IngestOK
  BY DEF TypeInv
<1>2. /\ \A b \in Agents : DOMAIN jobs[b] \subseteq DOMAIN jobs'[b]
      /\ \A b \in Agents : \A m \in DOMAIN jobs[b] : jobs'[b][m] = jobs[b][m]
  BY DEF Sends
<1>3. \A v \in Workers : Placed(handlers[v])'
  <2>1. TAKE v \in Workers
  <2>2. \A b \in Agents : handlers[v].agent = {b} => handlers[v].job \in DOMAIN jobs[b]
    BY Busy, IdleTyped DEF TypeInv, HandlersPlaced, Placed
  <2> QED
    BY <1>2, <2>2, StaysPlaced
<1>4. JobsReach'
  <2>1. ASSUME NEW b \in Agents, NEW n \in DOMAIN jobs'[b]
        PROVE  n <= jobs'[b][n].hi
    <3>1. CASE n \in DOMAIN jobs[b]
      BY <1>2, <3>1 DEF TypeInv, JobsReach
    <3>2. CASE n \notin DOMAIN jobs[b]
      <4>1. b = a /\ n = Len(jobs[a]) + 1
        BY <3>2 DEF Sends
      <4> QED
        BY <4>1 DEF Sends
    <3> QED
      BY <3>1, <3>2
  <2> QED
    BY <2>1 DEF JobsReach
<1> QED
  BY <1>3, <1>4 DEF TypeInv, OneEach, HandlersPlaced

\* The delivery of a job that waits has no handler.
LEMMA WaitingIsFree ==
    ASSUME TypeInv, NEW a \in Agents, NEW n \in DOMAIN jobs[a], jobs[a][n].at = "waiting"
    PROVE  \A v \in Workers : ~ Handles(v, a, n, jobs[a][n].run)
<1>1. ASSUME NEW v \in Workers, Handles(v, a, n, jobs[a][n].run)
      PROVE  FALSE
  <2>1. handlers[v].at # "idle"
    BY <1>1, IdleTyped DEF TypeInv, HandlersPlaced, Placed, Handles
  <2> QED
    BY <1>1, <2>1, Busy DEF Handles
<1> QED
  BY <1>1

LEMMA PlacesWhenTaken ==
    ASSUME TypeInv, NEW w \in Workers, NEW a \in Agents, NEW n \in DOMAIN jobs[a], Takes(w, a, n)
    PROVE  JobsReach' /\ HandlersPlaced' /\ OneEach'
<1>1. IngestOK /\ n \in Nat /\ jobs[a][n].run \in 1..2
  BY JobsTyped DEF TypeInv
<1>2. \A v \in Workers : handlers[v] # Idle => \E b \in Agents :
         handlers[v].agent = {b} /\ handlers[v].job \in DOMAIN jobs[b]
  BY DEF TypeInv, HandlersPlaced, Placed
<1>3. \A v \in Workers : handlers[v].agent = {a} /\ handlers[v].job = n =>
                            handlers[v].run # jobs[a][n].run
  BY WaitingIsFree DEF Takes, Handles
<1>4. ASSUME NEW v \in Workers, v # w
      PROVE  Placed(handlers[v])'
  <2>1. UNCHANGED handlers[v]
    BY <1>4 DEF Takes, Only
  <2>2. \A b \in Agents : handlers[v].agent = {b} =>
           /\ handlers[v].job \in DOMAIN jobs[b]
           /\ b # a \/ handlers[v].job # n \/ handlers[v].run # jobs[a][n].run
    BY <1>2, <1>3, IdleTyped
  <2>3. \A b \in Agents : handlers[v].agent = {b} =>
           /\ handlers[v].job \in DOMAIN jobs'[b]
           /\ jobs'[b][handlers[v].job].hi = jobs[b][handlers[v].job].hi
           /\ jobs'[b][handlers[v].job].run = jobs[b][handlers[v].job].run
           /\ \/ jobs'[b][handlers[v].job].at = jobs[b][handlers[v].job].at
              \/ handlers[v].run # jobs[b][handlers[v].job].run
    BY <2>2 DEF Takes, Marks
  <2> QED
    BY <2>1, <2>3, StaysPlaced
<1>5. Placed(handlers[w])'
  <2>1. n <= jobs[a][n].hi /\ jobs[a][n].hi \in Nat
    BY <1>1, JobsTyped DEF TypeInv, JobsReach
  <2>2. /\ jobs'[a][n].at = "active" /\ jobs'[a][n].hi = jobs[a][n].hi /\ n \in DOMAIN jobs'[a]
        /\ jobs'[a][n].run = jobs[a][n].run
    BY DEF Takes, Marks
  <2>3. ~ Evaluating(handlers'[w]) /\ handlers'[w].at # "idle"
    BY DEF Takes, Evaluating
  <2>4. n \in n..jobs[a][n].hi /\ jobs[a][n].run \in 1..jobs[a][n].run
    BY <1>1, <2>1
  <2> QED
    BY <2>2, <2>3, <2>4 DEF Placed, Takes, Evaluating
<1>6. HandlersPlaced'
  BY <1>4, <1>5 DEF HandlersPlaced
<1>7. JobsReach'
  BY DEF Takes, Marks, JobsReach, TypeInv
<1>8. OneEach'
  <2>1. ASSUME NEW u \in Workers, NEW v \in Workers, handlers'[u] # Idle,
               handlers'[u].agent = handlers'[v].agent, handlers'[u].job = handlers'[v].job,
               handlers'[u].run = handlers'[v].run
        PROVE  u = v
    <3>1. \A x \in Workers : x # w => handlers'[x] = handlers[x]
      BY DEF Takes, Only
    <3>2. handlers'[w].agent = {a} /\ handlers'[w].job = n /\ handlers'[w].run = jobs[a][n].run
      BY DEF Takes
    <3>3. CASE u # w /\ v # w
      BY <2>1, <3>1, <3>3 DEF TypeInv, OneEach
    <3>4. CASE u = w /\ v # w
      BY <1>3, <2>1, <3>1, <3>2, <3>4
    <3>5. CASE u # w /\ v = w
      BY <1>3, <2>1, <3>1, <3>2, <3>5
    <3> QED
      BY <3>3, <3>4, <3>5
  <2> QED
    BY <2>1 DEF OneEach
<1> QED
  BY <1>6, <1>7, <1>8

\* The handler w moves within its job.
LEMMA PlacesWhenKept ==
    ASSUME TypeInv, NEW w \in Workers, JobsKept(w), handlers[w].at # "idle", Placed(handlers[w])'
    PROVE  JobsReach' /\ HandlersPlaced' /\ OneEach'
<1>1. \A v \in Workers : v # w => handlers'[v] = handlers[v]
  BY DEF JobsKept, Only
<1>2. \A v \in Workers : /\ handlers'[v].agent = handlers[v].agent
                         /\ handlers'[v].job = handlers[v].job
                         /\ handlers'[v].run = handlers[v].run
  BY <1>1 DEF JobsKept
<1>3. jobs' = jobs
  BY DEF JobsKept
<1>4. ASSUME NEW v \in Workers, v # w PROVE Placed(handlers[v])'
  <2>1. Placed(handlers[v])
    BY DEF TypeInv, HandlersPlaced
  <2>2. handlers'[v] = handlers[v]
    BY <1>1, <1>4
  <2> QED
    BY <2>1, <2>2, <1>3 DEF Placed, Evaluating
<1>5. HandlersPlaced'
  BY <1>4 DEF HandlersPlaced
<1>6. JobsReach'
  BY <1>3 DEF JobsReach, TypeInv
<1>7. \A v \in Workers : handlers'[v] # Idle => handlers[v] # Idle
  BY <1>1, IdleTyped
<1>8. OneEach'
  BY <1>2, <1>7 DEF OneEach, TypeInv
<1> QED
  BY <1>5, <1>6, <1>8

LEMMA PlacesWhenOver ==
    ASSUME TypeInv, NEW w \in Workers, NEW x \in JobAt, Ends(w, x)
    PROVE  JobsReach' /\ HandlersPlaced' /\ OneEach'
<1>1. PICK a \in Agents :
        /\ handlers[w].agent = {a}
        /\ IF HasLock(handlers[w], a) THEN Marks(a, handlers[w].job, x) ELSE UNCHANGED jobs
  BY DEF Ends
<1>2. handlers'[w] = Idle /\ \A v \in Workers : v # w => handlers'[v] = handlers[v]
  BY DEF Ends, Only
<1>3. ASSUME NEW v \in Workers, v # w
      PROVE  Placed(handlers[v])'
  <2>1. UNCHANGED handlers[v]
    BY <1>2, <1>3
  <2>2. \A b \in Agents : handlers[v].agent = {b} => handlers[v].job \in DOMAIN jobs[b]
    BY IdleTyped DEF TypeInv, HandlersPlaced, Placed
  <2>3. handlers[v].agent = {a} /\ handlers[v].job = handlers[w].job =>
           handlers[v].run # handlers[w].run
    <3>1. handlers[w] # Idle
      BY IdleTyped DEF Ends
    <3> QED
      BY <1>1, <1>3, <3>1 DEF TypeInv, OneEach
  <2>4. CASE HasLock(handlers[w], a)
    <3>1. \A b \in Agents : handlers[v].agent = {b} =>
             /\ handlers[v].job \in DOMAIN jobs'[b]
             /\ jobs'[b][handlers[v].job].hi = jobs[b][handlers[v].job].hi
             /\ jobs'[b][handlers[v].job].run = jobs[b][handlers[v].job].run
             /\ \/ jobs'[b][handlers[v].job].at = jobs[b][handlers[v].job].at
                \/ handlers[v].run # jobs[b][handlers[v].job].run
      BY <1>1, <2>2, <2>3, <2>4 DEF Marks, HasLock
    <3> QED
      BY <2>1, <3>1, StaysPlaced
  <2>5. CASE ~ HasLock(handlers[w], a)
    <3>1. jobs' = jobs
      BY <1>1, <2>5
    <3> QED
      BY <2>1, <2>2, <3>1, StaysPlaced
  <2> QED
    BY <2>4, <2>5
<1>4. HandlersPlaced'
  <2>1. Placed(handlers[w])'
    BY <1>2 DEF Placed
  <2> QED
    BY <1>3, <2>1 DEF HandlersPlaced
<1>5. JobsReach'
  BY <1>1 DEF Marks, JobsReach, TypeInv
<1>6. OneEach'
  <2>1. ASSUME NEW u \in Workers, NEW v \in Workers, handlers'[u] # Idle,
               handlers'[u].agent = handlers'[v].agent, handlers'[u].job = handlers'[v].job,
               handlers'[u].run = handlers'[v].run
        PROVE  u = v
    <3>1. u # w /\ handlers'[u] = handlers[u]
      BY <1>2, <2>1
    <3>2. CASE v # w
      BY <1>2, <2>1, <3>1, <3>2 DEF TypeInv, OneEach
    <3>3. CASE v = w
      <4>1. handlers'[u].agent = {}
        BY <1>2, <2>1, <3>3, IdleTyped
      <4>2. Placed(handlers[u]) /\ handlers[u] # Idle
        BY <2>1, <3>1 DEF TypeInv, HandlersPlaced
      <4> QED
        BY <3>1, <4>1, <4>2 DEF Placed
    <3> QED
      BY <3>2, <3>3
  <2> QED
    BY <2>1 DEF OneEach
<1> QED
  BY <1>4, <1>5, <1>6

LEMMA PlacesWhenRequeued ==
    ASSUME TypeInv, NEW a \in Agents, NEW n \in DOMAIN jobs[a], Requeues(a, n), UNCHANGED handlers
    PROVE  JobsReach' /\ HandlersPlaced' /\ OneEach'
<1>1. ASSUME NEW b \in Agents, NEW m \in DOMAIN jobs[b]
      PROVE  /\ m \in DOMAIN jobs'[b] /\ jobs'[b][m].hi = jobs[b][m].hi
             /\ \/ /\ jobs'[b][m].run = jobs[b][m].run
                   /\ jobs'[b][m].at \in {jobs[b][m].at, "failed"}
                \/ jobs[b][m].run = 1 /\ jobs'[b][m].run = 2
  <2>1. CASE b = a /\ m = n
    BY <2>1 DEF Requeues
  <2>2. CASE b # a \/ m # n
    BY <2>2 DEF Requeues
  <2> QED
    BY <2>1, <2>2
<1>2. \A v \in Workers : Placed(handlers[v])'
  <2>1. TAKE v \in Workers
  <2>2. \A b \in Agents : handlers[v].agent = {b} => handlers[v].job \in DOMAIN jobs[b]
    BY Busy, IdleTyped DEF TypeInv, HandlersPlaced, Placed
  <2> QED
    BY <1>1, <2>2, StaysPlaced
<1>3. JobsReach'
  BY <1>1 DEF Requeues, JobsReach, TypeInv
<1> QED
  BY <1>2, <1>3 DEF TypeInv, OneEach, HandlersPlaced

LEMMA KeptIsPlaced ==
    ASSUME TypeInv, NEW w \in Workers, Readies(w) \/ Loads(w) \/ Fires(w) \/ Advances(w)
    PROVE  JobsKept(w) /\ handlers[w].at # "idle" /\ Placed(handlers[w])'
<1>1. JobsKept(w) /\ handlers[w].at # "idle" /\ handlers'[w].at # "idle"
  BY DEF Readies, Loads, Fires, Advances, Evaluating, Moves
<1>2. PICK a \in Agents :
        /\ handlers[w].agent = {a} /\ handlers[w].job \in DOMAIN jobs[a]
        /\ handlers[w].run \in 1..jobs[a][handlers[w].job].run
        /\ handlers[w].run = jobs[a][handlers[w].job].run
              => jobs[a][handlers[w].job].at \in {"active", "failed"}
        /\ handlers[w].sample \in handlers[w].job..jobs[a][handlers[w].job].hi
        /\ IF Evaluating(handlers[w]) THEN handlers[w].rule \in handlers[w].rules
           ELSE handlers[w].sample = handlers[w].job
        /\ handlers[w].rules = {0} \/ handlers[w].rules \subseteq DOMAIN Rules
  BY <1>1, Busy
<1>3. /\ handlers[w].job \in Nat /\ handlers[w].sample \in Nat /\ jobs[a][handlers[w].job].hi \in Nat
  BY <1>2, HandlersTyped, JobsTyped DEF TypeInv
<1>4. /\ handlers'[w].agent = {a} /\ handlers'[w].job = handlers[w].job
      /\ handlers'[w].run = handlers[w].run /\ jobs' = jobs
  BY <1>1, <1>2 DEF JobsKept
<1>5. /\ handlers'[w].sample \in handlers'[w].job..jobs[a][handlers'[w].job].hi
      /\ IF Evaluating(handlers'[w]) THEN handlers'[w].rule \in handlers'[w].rules
         ELSE handlers'[w].sample = handlers'[w].job
      /\ handlers'[w].rules = {0} \/ handlers'[w].rules \subseteq DOMAIN Rules
  <2>1. CASE Readies(w)
    BY <1>2, <1>4, <2>1 DEF Readies, Evaluating
  <2>2. CASE Loads(w)
    BY <1>2, <1>4, <2>2 DEF Loads, Evaluating
  <2>3. CASE Fires(w)
    BY <1>2, <1>4, <2>3 DEF Fires, Evaluating
  <2>4. CASE Advances(w)
    <3>1. Moves(handlers[w], handlers'[w], jobs[a][handlers[w].job].hi)
      BY <1>2, <2>4 DEF Advances
    <3> QED
      BY <1>2, <1>3, <1>4, <3>1 DEF Moves, Evaluating
  <2> QED
    BY <2>1, <2>2, <2>3, <2>4
<1> QED
  BY <1>1, <1>2, <1>4, <1>5 DEF Placed, Evaluating

LEMMA PlacesStep ==
    ASSUME TypeInv, Flow
    PROVE  JobsReach' /\ HandlersPlaced' /\ OneEach'
<1>1. CASE \E a \in Agents, hi \in Nat : Sends(a, hi) /\ UNCHANGED handlers
  BY <1>1, PlacesWhenSent
<1>2. ASSUME NEW w \in Workers, NEW a \in Agents, NEW n \in DOMAIN jobs[a], Takes(w, a, n)
      PROVE  JobsReach' /\ HandlersPlaced' /\ OneEach'
  BY <1>2, PlacesWhenTaken
<1>3. ASSUME NEW w \in Workers, Readies(w) \/ Loads(w) \/ Fires(w) \/ Advances(w)
      PROVE  JobsReach' /\ HandlersPlaced' /\ OneEach'
  BY <1>3, KeptIsPlaced, PlacesWhenKept
<1>4. ASSUME NEW w \in Workers, Ends(w, "completed") \/ Ends(w, "failed")
      PROVE  JobsReach' /\ HandlersPlaced' /\ OneEach'
  BY <1>4, PlacesWhenOver DEF JobAt
<1>5. CASE UNCHANGED <<jobs, handlers>>
  BY <1>5 DEF JobsReach, HandlersPlaced, OneEach, Placed, Evaluating, TypeInv
<1>6. CASE \E a \in Agents : \E n \in DOMAIN jobs[a] : Requeues(a, n) /\ UNCHANGED handlers
  BY <1>6, PlacesWhenRequeued
<1> QED
  BY <1>1, <1>2, <1>3, <1>4, <1>5, <1>6 DEF Flow, Moved

\* What a crash leaves.
LEMMA Crashed ==
    ASSUME IngestOK, WorkerCrash
    PROVE  /\ jobs' \in [Agents -> Seq(JobRec)]
           /\ \A a \in Agents : DOMAIN jobs'[a] = DOMAIN jobs[a]
           /\ \A a \in Agents : \A n \in DOMAIN jobs[a] :
                 /\ jobs'[a][n].hi = jobs[a][n].hi /\ jobs[a][n].run <= jobs'[a][n].run
           /\ handlers' = [w \in Workers |-> Idle] /\ counts' = [k \in Keys |-> Unseen]
           /\ mishaps' = mishaps + 1
<1> DEFINE Back(a, n) == IF jobs[a][n].at = "active" THEN Requeued(jobs[a][n]) ELSE jobs[a][n]
<1>1. jobs' = [a \in Agents |-> [n \in DOMAIN jobs[a] |-> Back(a, n)]]
  BY DEF WorkerCrash
<1>2. \A a \in Agents : \A n \in DOMAIN jobs[a] :
         /\ Back(a, n) \in JobRec /\ Back(a, n).hi = jobs[a][n].hi
         /\ jobs[a][n].run <= Back(a, n).run
  <2>1. TAKE a \in Agents
  <2>2. TAKE n \in DOMAIN jobs[a]
  <2>3. PICK job \in JobRec : job = jobs[a][n]
    BY JobsTyped
  <2>4. Requeued(job) \in JobRec /\ Requeued(job).hi = job.hi /\ job.run <= Requeued(job).run
    BY RequeuedIs
  <2>5. job.run <= job.run
    BY DEF JobRec
  <2> QED
    BY <2>3, <2>4, <2>5
<1> HIDE DEF Back
<1>3. \A a \in Agents : jobs'[a] = [n \in DOMAIN jobs[a] |-> Back(a, n)]
  BY <1>1
<1>4. \A a \in Agents : jobs'[a] \in Seq(JobRec)
  <2>1. TAKE a \in Agents
  <2>2. DOMAIN jobs[a] = 1..Len(jobs[a]) /\ Len(jobs[a]) \in Nat
    BY JobsTyped
  <2>3. [n \in 1..Len(jobs[a]) |-> Back(a, n)] \in [1..Len(jobs[a]) -> JobRec]
    BY <1>2, <2>2
  <2>4. [n \in 1..Len(jobs[a]) |-> Back(a, n)] \in Seq(JobRec)
    BY <2>2, <2>3, SeqDef
  <2> QED
    BY <1>3, <2>2, <2>4
<1>5. jobs' \in [Agents -> Seq(JobRec)]
  BY <1>1, <1>4
<1>6. \A a \in Agents : /\ DOMAIN jobs'[a] = DOMAIN jobs[a]
                        /\ \A n \in DOMAIN jobs[a] : jobs'[a][n] = Back(a, n)
  BY <1>3
<1>7. /\ handlers' = [w \in Workers |-> Idle] /\ counts' = [k \in Keys |-> Unseen]
      /\ mishaps' = mishaps + 1
  BY DEF WorkerCrash, Mishap
<1> QED
  BY <1>2, <1>5, <1>6, <1>7

LEMMA PlacesAfterCrash ==
    ASSUME TypeInv, WorkerCrash
    PROVE  JobsReach' /\ HandlersPlaced' /\ OneEach'
<1>1. IngestOK
  BY DEF TypeInv
<1>2. handlers' = [w \in Workers |-> Idle]
  BY <1>1, Crashed
<1>3. JobsReach'
  BY <1>1, Crashed DEF JobsReach, TypeInv
<1> QED
  BY <1>2, <1>3 DEF HandlersPlaced, Placed, OneEach

\* Nothing has gone wrong, and does not now.
LEMMA NothingWrong ==
    ASSUME TypeInv, NextIngest, mishaps' = 0
    PROVE  /\ mishaps = 0 /\ ~ WorkerCrash /\ \A w \in Workers : ~ JobFails(w)
           /\ \A a \in Agents : \A n \in DOMAIN jobs[a] : ~ Stall(a, n)
<1>1. mishaps \in Nat
  BY DEF TypeInv, IngestOK
<1>2. mishaps' = mishaps \/ mishaps' = mishaps + 1
  BY DEF Mishap, NextIngest, Send, TakeJob, Stall, Switch, CreateHost, CacheAges, Find, Insert,
     Link, BridgeContainers, LoadRules, Track, Publish, JobFails, WorkerCrash
<1>3. \/ WorkerCrash \/ \E w \in Workers : JobFails(w)
      \/ \E a \in Agents : \E n \in DOMAIN jobs[a] : Stall(a, n)
      => mishaps' = mishaps + 1
  BY DEF WorkerCrash, JobFails, Stall, Mishap
<1> QED
  BY <1>1, <1>2, <1>3

LEMMA StalledStep ==
    ASSUME TypeInv, NextIngest
    PROVE  NothingStalled'
<1> SUFFICES ASSUME mishaps' = 0
             PROVE  \A a \in Agents : \A n \in DOMAIN jobs'[a] :
                       jobs'[a][n].run = 1 /\ jobs'[a][n].at # "failed"
  BY DEF NothingStalled
<1>1. /\ ~ WorkerCrash /\ Flow
      /\ \A a \in Agents : \A n \in DOMAIN jobs[a] : jobs[a][n].run = 1 /\ jobs[a][n].at # "failed"
  BY NothingWrong, StepFlows DEF TypeInv, NothingStalled
<1>2. CASE \E b \in Agents, hi \in Nat : Sends(b, hi)
  <2>1. PICK b \in Agents, hi \in Nat : Sends(b, hi)
    BY <1>2
  <2>2. ASSUME NEW a \in Agents, NEW n \in DOMAIN jobs'[a]
        PROVE  jobs'[a][n].run = 1 /\ jobs'[a][n].at # "failed"
    <3>1. CASE n \in DOMAIN jobs[a]
      BY <1>1, <2>1, <3>1 DEF Sends
    <3>2. CASE n \notin DOMAIN jobs[a]
      BY <2>1, <2>2, <3>2 DEF Sends
    <3> QED
      BY <3>1, <3>2
  <2> QED
    BY <2>2
<1>3. ASSUME NEW b, NEW m, NEW x \in {"active", "completed"}, Marks(b, m, x)
      PROVE  \A a \in Agents : \A n \in DOMAIN jobs'[a] :
                jobs'[a][n].run = 1 /\ jobs'[a][n].at # "failed"
  BY <1>1, <1>3 DEF Marks
<1>4. CASE jobs' = jobs
  BY <1>1, <1>4
<1>5. CASE \E w \in Workers : Readies(w) \/ Loads(w) \/ Fires(w) \/ Advances(w)
  BY <1>4, <1>5 DEF Readies, Loads, Fires, Advances, JobsKept
<1>6. CASE \E w \in Workers : \E a \in Agents : \E n \in DOMAIN jobs[a] : Takes(w, a, n)
  BY <1>3, <1>6 DEF Takes
<1>7. CASE \E w \in Workers : Ends(w, "completed")
  BY <1>3, <1>4, <1>7 DEF Ends
<1> QED
  BY <1>1, <1>2, <1>4, <1>5, <1>6, <1>7 DEF Flow, Moved

-----------------------------------------------------------------------------
(* Types *)

LEMMA JobsStayTyped ==
    ASSUME TypeInv, Flow
    PROVE  jobs' \in [Agents -> Seq(JobRec)] /\ handlers' \in [Workers -> HandlerRec]
  BY HandlersTyped, JobsTyped
     DEF Flow, Moved, TypeInv, Sends, Takes, Marks, Readies, Loads, Fires, Advances, JobsKept, Only, Ends,
         Requeues

LEMMA CountTyped ==
    ASSUME IngestOK, NEW key \in Keys, NEW rule, NEW k \in Nat, NEW v
    PROVE  NextCount(key, rule, k, v) \in CountRec
<1>1. counts[key] \in CountRec
  BY DEF IngestOK, CountRec
<1>2. /\ counts[key].n \in Nat /\ counts[key].by \in SUBSET Nat
  BY <1>1 DEF CountRec
<1>3. /\ [n |-> counts[key].n + 1, by |-> counts[key].by \cup {k}] \in CountRec
      /\ Unseen \in CountRec
  BY <1>2 DEF CountRec, Unseen
<1> QED
  BY <1>3 DEF NextCount

LEMMA IngestTypesStep ==
    ASSUME TypeInv, NextIngest
    PROVE  IngestOK'
<1>1. IngestOK
  BY DEF TypeInv
<1>2. jobs' \in [Agents -> Seq(JobRec)] /\ handlers' \in [Workers -> HandlerRec]
  <2>1. CASE WorkerCrash
    BY <1>1, <2>1, Crashed, IdleTyped
  <2>2. CASE ~ WorkerCrash
    BY <2>2, StepFlows, JobsStayTyped
  <2> QED
    BY <2>1, <2>2
<1>3. counts' \in [Keys -> CountRec]
  <2>1. counts \in [Keys -> CountRec]
    BY <1>1 DEF IngestOK, CountRec
  <2>2. CASE \E w \in Workers : Track(w)
    <3>1. PICK w \in Workers : Track(w)
      BY <2>2
    <3>2. PICK a \in Agents :
            counts' = [counts EXCEPT ![Key(handlers[w].rule, a)] =
                          NextCount(Key(handlers[w].rule, a), RuleAt(handlers[w].rule),
                                    handlers[w].sample, values[<<a, handlers[w].sample>>])]
      BY <3>1, TrackFlows
    <3>3. Key(handlers[w].rule, a) \in Keys /\ handlers[w].sample \in Nat
      BY <1>1, HandlersTyped DEF Keys, Key
    <3> DEFINE count == NextCount(Key(handlers[w].rule, a), RuleAt(handlers[w].rule),
                                  handlers[w].sample, values[<<a, handlers[w].sample>>])
    <3>4. count \in CountRec
      BY <1>1, <3>3, CountTyped
    <3> HIDE DEF count
    <3> QED
      BY <2>1, <3>2, <3>3, <3>4 DEF count
  <2>3. CASE WorkerCrash
    BY <2>3 DEF WorkerCrash, Unseen, CountRec
  <2>4. CASE ~ WorkerCrash /\ ~ \E w \in Workers : Track(w)
    BY <2>1, <2>4 DEF NextIngest, Send, TakeJob, Stall, Switch, CreateHost, CacheAges, Find,
       Insert, Link, BridgeContainers, LoadRules, Publish, JobFails
  <2> QED
    BY <2>2, <2>3, <2>4
<1>4. enabled' \subseteq DOMAIN Rules /\ switched' \subseteq DOMAIN Rules
  BY <1>1 DEF IngestOK, NextIngest, Send, TakeJob, Stall, Switch, CreateHost, CacheAges, Find,
       Insert, Link, BridgeContainers, LoadRules, Track, Publish, JobFails, WorkerCrash
<1>5. hosts' \subseteq Agents /\ links' \subseteq Agents
  <2>1. \A w \in Workers : handlers[w].agent \subseteq Agents
    BY <1>1, HandlersTyped
  <2>2. ASSUME NEW w \in Workers, Insert(w)
        PROVE  hosts' \subseteq Agents
    <3>1. PICK a \in handlers[w].agent : hosts' \subseteq hosts \cup {a}
      BY <2>2 DEF Insert
    <3> QED
      BY <1>1, <2>1, <3>1 DEF IngestOK
  <2> QED
    BY <1>1, <2>1, <2>2 DEF IngestOK, NextIngest, Send, TakeJob, Stall, Switch, CreateHost,
       CacheAges, Find, Insert, Link, BridgeContainers, LoadRules, Track, Publish, JobFails,
       WorkerCrash
<1>6. containers' \subseteq Agents
  <2>1. \A w \in Workers : handlers[w].agent \subseteq Agents
    BY <1>1, HandlersTyped
  <2> QED
    BY <1>1, <2>1 DEF IngestOK, NextIngest, Send, TakeJob, Stall, Switch, CreateHost, CacheAges,
       Find, Insert, Link, BridgeContainers, LoadRules, Track, Publish, JobFails, WorkerCrash
<1>7. named' \subseteq {NameOf[a] : a \in Agents}
  BY <1>1 DEF IngestOK, NextIngest, Send, TakeJob, Stall, Switch, CreateHost, CacheAges, Find,
     Insert, Link, BridgeContainers, LoadRules, Track, Publish, JobFails, WorkerCrash
<1>8. rulesCache' \in [rules : SUBSET DOMAIN Rules, fresh : BOOLEAN]
  <2> DEFINE Cache == [rules : SUBSET DOMAIN Rules, fresh : BOOLEAN]
  <2>1. rulesCache \in Cache
    BY <1>1 DEF IngestOK
  <2>2. [rulesCache EXCEPT !.fresh = FALSE] \in Cache /\ [rules |-> {}, fresh |-> FALSE] \in Cache
    BY <2>1
  <2>3. Loaded \subseteq DOMAIN Rules
    BY <1>1, <2>1 DEF Loaded, IngestOK
  <2>4. [rules |-> Loaded, fresh |-> TRUE] \in Cache
    BY <2>3
  <2> HIDE DEF Cache
  <2> QED
    BY <2>1, <2>2, <2>4 DEF Cache, NextIngest, Send, TakeJob, Stall, Switch, CreateHost,
       CacheAges, Find, Insert, Link, BridgeContainers, LoadRules, Track, Publish, JobFails,
       WorkerCrash
<1>9. raised' \subseteq [rule : {RuleAt(i) : i \in Indexes}, agent : Agents, by : SUBSET Nat]
  <2> DEFINE EventRecs == [rule : {RuleAt(i) : i \in Indexes}, agent : Agents, by : SUBSET Nat]
  <2>1. raised \subseteq EventRecs
    BY <1>1 DEF IngestOK
  <2>2. ASSUME NEW w \in Workers, Publish(w)
        PROVE  raised' \subseteq EventRecs
    <3>1. PICK a \in Agents :
            raised' = raised \cup {[rule |-> RuleAt(handlers[w].rule), agent |-> a,
                                    by |-> handlers[w].by]}
      BY <2>2, PublishFlows
    <3>2. handlers[w].rule \in Indexes /\ handlers[w].by \in SUBSET Nat
      BY <1>1, HandlersTyped
    <3> QED
      BY <2>1, <3>1, <3>2
  <2> HIDE DEF EventRecs
  <2> QED
    BY <2>1, <2>2 DEF NextIngest, Send, TakeJob, Stall, Switch, CreateHost, CacheAges, Find,
       Insert, Link, BridgeContainers, LoadRules, Track, Publish, JobFails, WorkerCrash, EventRecs
<1>10. mishaps' \in Nat
  <2>1. mishaps \in Nat /\ mishaps + 1 \in Nat
    BY <1>1 DEF IngestOK
  <2>2. mishaps' = mishaps \/ mishaps' = mishaps + 1
    BY DEF Mishap, NextIngest, Send, TakeJob, Stall, Switch, CreateHost, CacheAges, Find,
       Insert, Link, BridgeContainers, LoadRules, Track, Publish, JobFails, WorkerCrash
  <2> QED
    BY <2>1, <2>2
<1> QED
  BY <1>2, <1>3, <1>4, <1>5, <1>6, <1>7, <1>8, <1>9, <1>10
     DEF IngestOK, JobRec, JobAt, HandlerRec, HandlerAt, CountRec

-----------------------------------------------------------------------------
(* Links *)

LEMMA FindDoes ==
    ASSUME TypeInv, NEW w \in Workers, Find(w)
    PROVE  \E a \in Agents :
              /\ handlers[w].at = "find" /\ handlers[w].agent = {a} /\ JobsKept(w)
              /\ \/ handlers'[w].at = "link" /\ a \in hosts
                 \/ handlers'[w].at = "insert"
                 \/ handlers'[w].at = "rules" /\ Mishap
              /\ UNCHANGED <<hosts, links, named, containers>>
<1>1. IngestOK /\ handlers[w].at = "find"
  BY DEF TypeInv, Find
<1>2. PICK a \in Agents : handlers[w].agent = {a}
  BY <1>1, Busy
<1>3. \E x \in {"link", "insert", "rules"} :
         /\ handlers' = [handlers EXCEPT ![w].at = x]
         /\ x = "link" => a \in hosts
         /\ x = "rules" => Mishap
  <2>1. CASE a \in hosts
    BY <1>2, <2>1 DEF Find
  <2>2. CASE a \notin hosts
    BY <1>2, <2>2 DEF Find
  <2> QED
    BY <2>1, <2>2
<1>4. PICK x \in {"link", "insert", "rules"} :
         /\ handlers' = [handlers EXCEPT ![w].at = x]
         /\ x = "link" => a \in hosts
         /\ x = "rules" => Mishap
  BY <1>3
<1>5. UNCHANGED jobs /\ x \in HandlerAt
  BY DEF Find, HandlerAt
<1>6. JobsKept(w) /\ handlers'[w].at = x
  BY <1>1, <1>4, <1>5, PlaceSet
<1> QED
  BY <1>1, <1>2, <1>4, <1>6 DEF Find

LEMMA InsertDoes ==
    ASSUME TypeInv, NEW w \in Workers, Insert(w)
    PROVE  \E a \in Agents :
              /\ handlers[w].at = "insert" /\ handlers[w].agent = {a} /\ JobsKept(w)
              /\ \/ handlers'[w].at = "link" /\ hosts' = hosts \cup {a}
                 \/ handlers'[w].at = "rules" /\ hosts' = hosts /\ Known(a)
                 \/ handlers'[w].at = "rules" /\ hosts' \in {hosts, hosts \cup {a}} /\ Mishap
              /\ UNCHANGED <<links, named, containers>>
<1>1. IngestOK /\ handlers[w].at = "insert"
  BY DEF TypeInv, Insert
<1>2. PICK a \in Agents : handlers[w].agent = {a}
  BY <1>1, Busy
<1>3. \E x \in {"link", "rules"} :
         /\ handlers' = [handlers EXCEPT ![w].at = x]
         /\ \/ x = "link" /\ hosts' = hosts \cup {a}
            \/ x = "rules" /\ hosts' = hosts /\ Known(a)
            \/ x = "rules" /\ hosts' \in {hosts, hosts \cup {a}} /\ Mishap
  <2>1. CASE \E next \in AfterInsert(a) :
                /\ handlers' = [handlers EXCEPT ![w].at = next]
                /\ hosts' = IF next = "link" THEN hosts \cup {a} ELSE hosts
    <3>1. PICK next \in AfterInsert(a) :
                /\ handlers' = [handlers EXCEPT ![w].at = next]
                /\ hosts' = IF next = "link" THEN hosts \cup {a} ELSE hosts
      BY <2>1
    <3>2. next \in {"link", "rules"} /\ (next = "rules" => Known(a))
      BY DEF AfterInsert, Known
    <3> QED
      BY <3>1, <3>2
  <2>2. CASE /\ Mishap /\ handlers' = [handlers EXCEPT ![w].at = "rules"]
             /\ hosts' \in {hosts, IF NameTaken(a) THEN hosts ELSE hosts \cup {a}}
    BY <2>2
  <2> QED
    BY <1>2, <2>1, <2>2 DEF Insert
<1>4. PICK x \in {"link", "rules"} :
         /\ handlers' = [handlers EXCEPT ![w].at = x]
         /\ \/ x = "link" /\ hosts' = hosts \cup {a}
            \/ x = "rules" /\ hosts' = hosts /\ Known(a)
            \/ x = "rules" /\ hosts' \in {hosts, hosts \cup {a}} /\ Mishap
  BY <1>3
<1>5. UNCHANGED jobs /\ x \in HandlerAt
  BY DEF Insert, HandlerAt
<1>6. JobsKept(w) /\ handlers'[w].at = x
  BY <1>1, <1>4, <1>5, PlaceSet
<1> QED
  BY <1>1, <1>2, <1>4, <1>6 DEF Insert

LEMMA LinkDoes ==
    ASSUME TypeInv, NEW w \in Workers, Link(w)
    PROVE  \E a \in Agents :
              /\ handlers[w].at = "link" /\ handlers[w].agent = {a} /\ JobsKept(w)
              /\ \/ links' = links \cup {a}
                 \/ Mishap /\ UNCHANGED links
              /\ handlers'[w].at = "containers" /\ UNCHANGED <<hosts, containers, named>>
<1>1. IngestOK /\ handlers[w].at # "idle"
  BY DEF TypeInv, Link
<1>2. PICK a \in Agents : handlers[w].agent = {a}
  BY <1>1, Busy
<1>3. handlers' = [handlers EXCEPT ![w].at = "containers"] /\ UNCHANGED jobs
  BY DEF Link
<1>4. JobsKept(w) /\ handlers'[w].at = "containers"
  BY <1>1, <1>3, PlaceSet DEF HandlerAt
<1> QED
  BY <1>2, <1>4 DEF Link

LEMMA ContainersDo ==
    ASSUME TypeInv, NEW w \in Workers, BridgeContainers(w)
    PROVE  \E a \in Agents :
              /\ handlers[w].at = "containers" /\ handlers[w].agent = {a} /\ JobsKept(w)
              /\ \/ containers' = containers \cup {a}
                 \/ Mishap /\ UNCHANGED containers
              /\ handlers'[w].at = "rules" /\ UNCHANGED <<hosts, links, named>>
<1>1. IngestOK /\ handlers[w].at # "idle"
  BY DEF TypeInv, BridgeContainers
<1>2. PICK a \in Agents : handlers[w].agent = {a}
  BY <1>1, Busy
<1>3. handlers' = [handlers EXCEPT ![w].at = "rules"] /\ UNCHANGED jobs
  BY DEF BridgeContainers
<1>4. JobsKept(w) /\ handlers'[w].at = "rules"
  BY <1>1, <1>3, PlaceSet DEF HandlerAt
<1> QED
  BY <1>2, <1>4 DEF BridgeContainers

\* A step that is none of the bridge's leaves what it has written.
LEMMA OthersKeepLinks ==
    ASSUME NextIngest, ~ \E w \in Workers : Bridge(w)
    PROVE  UNCHANGED <<hosts, links, containers>> /\ named \subseteq named'
  BY DEF NextIngest, Bridge, Send, TakeJob, Stall, Switch, CreateHost, CacheAges, LoadRules,
     Track, Publish, JobFails, WorkerCrash

\* What is written stays, and a machine that has a row or a rival for its name keeps
\* the one or the other.
LEMMA KnownStays ==
    ASSUME TypeInv, NextIngest
    PROVE  /\ hosts \subseteq hosts' /\ links \subseteq links' /\ containers \subseteq containers'
           /\ \A b : Known(b) => Known(b)'
<1>1. /\ hosts \subseteq hosts' /\ links \subseteq links' /\ containers \subseteq containers'
      /\ named \subseteq named'
  <2>1. CASE \E w \in Workers : Bridge(w)
    BY <2>1, FindDoes, InsertDoes, LinkDoes, ContainersDo DEF Bridge
  <2>2. CASE ~ \E w \in Workers : Bridge(w)
    BY <2>2, OthersKeepLinks
  <2> QED
    BY <2>1, <2>2
<1> QED
  BY <1>1 DEF Known, NameTaken

\* What a step of no bridge leaves: no handler comes to attach or stops, none is ready
\* for an agent that was not, and a job that is completed was so or had a ready handler.
LEMMA OthersMove ==
    ASSUME TypeInv, Moved
    PROVE  /\ \A v \in Workers : Attaching(handlers'[v]) \/ Attaching(handlers[v]) =>
                                    handlers'[v] = handlers[v]
           /\ \A v \in Workers : Ready(handlers'[v]) =>
                 Ready(handlers[v]) /\ handlers'[v].agent = handlers[v].agent
           /\ \A a \in Agents : \A n \in DOMAIN jobs'[a] : jobs'[a][n].at = "completed" =>
                 \/ n \in DOMAIN jobs[a] /\ jobs[a][n].at = "completed"
                 \/ \E v \in Workers : Ready(handlers[v]) /\ handlers[v].agent = {a}
<1>1. ASSUME NEW a \in Agents, NEW hi \in Nat, Sends(a, hi), UNCHANGED handlers
      PROVE  \A b \in Agents : \A n \in DOMAIN jobs'[b] : jobs'[b][n].at = "completed" =>
                n \in DOMAIN jobs[b] /\ jobs[b][n].at = "completed"
  BY <1>1 DEF Sends
<1>2. ASSUME NEW w \in Workers, NEW a \in Agents, NEW n \in DOMAIN jobs[a], Takes(w, a, n)
      PROVE  /\ \A v \in Workers : v # w => handlers'[v] = handlers[v]
             /\ handlers'[w].at = "find" /\ handlers[w].at = "idle"
             /\ \A b \in Agents : \A m \in DOMAIN jobs'[b] : jobs'[b][m].at = "completed" =>
                   m \in DOMAIN jobs[b] /\ jobs[b][m].at = "completed"
  BY <1>2, IdleTyped DEF Takes, Only, Marks
<1>3. ASSUME NEW w \in Workers, Loads(w) \/ Fires(w) \/ Advances(w)
      PROVE  /\ \A v \in Workers : v # w => handlers'[v] = handlers[v]
             /\ handlers'[w].at \in {"track", "publish"} /\ Ready(handlers[w])
             /\ handlers'[w].agent = handlers[w].agent /\ jobs' = jobs
  BY <1>3 DEF Loads, Fires, Advances, JobsKept, Only, Moves, Ready, Evaluating
<1>4. ASSUME NEW w \in Workers, NEW x \in {"completed", "failed"}, Ends(w, x)
      PROVE  /\ \A v \in Workers : v # w => handlers'[v] = handlers[v]
             /\ handlers'[w].at = "idle" /\ Ready(handlers[w])
             /\ \A b \in Agents : \A m \in DOMAIN jobs'[b] : jobs'[b][m].at = "completed" =>
                   \/ m \in DOMAIN jobs[b] /\ jobs[b][m].at = "completed"
                   \/ Ready(handlers[w]) /\ handlers[w].agent = {b}
  <2>1. PICK a \in Agents :
          /\ handlers[w].agent = {a}
          /\ Marks(a, handlers[w].job, x) \/ UNCHANGED jobs
    BY <1>4 DEF Ends
  <2>2. Ready(handlers[w])
    BY <1>4 DEF Ends, Ready
  <2>3. \A b \in Agents : \A m \in DOMAIN jobs'[b] : jobs'[b][m].at = "completed" =>
           \/ m \in DOMAIN jobs[b] /\ jobs[b][m].at = "completed"
           \/ Ready(handlers[w]) /\ handlers[w].agent = {b}
    BY <2>1, <2>2 DEF Marks
  <2> QED
    BY <1>4, <2>2, <2>3, IdleTyped DEF Ends, Only
<1>5. CASE \E a \in Agents, hi \in Nat : Sends(a, hi) /\ UNCHANGED handlers
  BY <1>1, <1>5
<1>6. CASE UNCHANGED <<jobs, handlers>>
  BY <1>6
<1>7. CASE \E w \in Workers, a \in Agents : \E n \in DOMAIN jobs[a] : Takes(w, a, n)
  BY <1>2, <1>7 DEF Ready, Attaching
<1>8. CASE \E w \in Workers : Loads(w) \/ Fires(w) \/ Advances(w)
  BY <1>3, <1>8 DEF Ready, Attaching
<1>9. CASE \E w \in Workers : Ends(w, "completed") \/ Ends(w, "failed")
  BY <1>4, <1>9 DEF Ready, Attaching
<1>10. CASE \E a \in Agents : \E n \in DOMAIN jobs[a] : Requeues(a, n) /\ UNCHANGED handlers
  <2>1. PICK a \in Agents : \E n \in DOMAIN jobs[a] : Requeues(a, n) /\ UNCHANGED handlers
    BY <1>10
  <2>2. PICK n \in DOMAIN jobs[a] : Requeues(a, n) /\ UNCHANGED handlers
    BY <2>1
  <2>3. \A b \in Agents : \A m \in DOMAIN jobs'[b] : jobs'[b][m].at = "completed" =>
           m \in DOMAIN jobs[b] /\ jobs[b][m].at = "completed"
    BY <2>2 DEF Requeues
  <2> QED
    BY <2>2, <2>3
<1> QED
  BY <1>5, <1>6, <1>7, <1>8, <1>9, <1>10 DEF Moved

LEMMA WrittenStep ==
    ASSUME TypeInv, WrittenInHosts, NextIngest
    PROVE  WrittenInHosts'
<1>1. hosts \subseteq hosts'
  BY KnownStays
<1>2. ASSUME NEW w \in Workers, Bridge(w)
      PROVE  WrittenInHosts'
  <2>1. PICK a \in Agents :
          /\ handlers[w].agent = {a} /\ JobsKept(w)
          /\ links' \subseteq links \cup {a} /\ containers' \subseteq containers \cup {a}
          /\ links' # links \/ containers' # containers => Attaching(handlers[w])
          /\ Attaching(handlers'[w]) => Attaching(handlers[w]) \/ a \in hosts'
    BY <1>2, FindDoes, InsertDoes, LinkDoes, ContainersDo DEF Bridge, Attaching
  <2>2. Attaching(handlers[w]) => a \in hosts
    BY <2>1 DEF WrittenInHosts
  <2>3. links' \cup containers' \subseteq hosts'
    BY <1>1, <2>1, <2>2 DEF WrittenInHosts
  <2>4. ASSUME NEW v \in Workers, Attaching(handlers'[v])
        PROVE  handlers'[v].agent \subseteq hosts'
    <3>1. CASE v = w
      BY <1>1, <2>1, <2>2, <2>4, <3>1 DEF JobsKept
    <3>2. CASE v # w
      BY <1>1, <2>1, <2>4, <3>2 DEF JobsKept, Only, WrittenInHosts
    <3> QED
      BY <3>1, <3>2
  <2> QED
    BY <2>3, <2>4 DEF WrittenInHosts, Attaching
<1>3. CASE ~ WorkerCrash /\ ~ \E w \in Workers : Bridge(w)
  <2>1. UNCHANGED <<hosts, links, containers>> /\ Moved
    BY <1>3, OthersKeepLinks, StepFlows
  <2> QED
    BY <2>1, OthersMove DEF WrittenInHosts, Attaching
<1>4. CASE WorkerCrash
  BY <1>4, IdleTyped DEF WorkerCrash, WrittenInHosts, Attaching
<1> QED
  BY <1>2, <1>3, <1>4

LEMMA LinksWhenBridged ==
    ASSUME TypeInv, WrittenInHosts, BridgeHolds, NEW w \in Workers, Bridge(w), NextIngest,
           mishaps' = mishaps
    PROVE  BridgeHolds'
<1>1. ~ Mishap
  BY DEF TypeInv, IngestOK, Mishap
<1>2. PICK a \in Agents :
        /\ handlers[w].agent = {a} /\ JobsKept(w) /\ hosts' \subseteq hosts \cup {a}
        /\ handlers'[w].at = "containers" => a \in links'
        /\ handlers[w].at = "link" => handlers'[w].at = "containers"
        /\ handlers[w].at = "containers" => a \in containers' /\ handlers'[w].at = "rules"
        /\ a \in hosts' => a \in hosts \/ handlers'[w].at = "link"
        /\ handlers'[w].at = "rules" => Known(a) \/ handlers[w].at = "containers"
        /\ handlers'[w].at \in {"insert", "link", "containers", "rules"}
  BY <1>1, FindDoes, InsertDoes, LinkDoes, ContainersDo DEF Bridge
<1>3. /\ \A v \in Workers : v # w => handlers'[v] = handlers[v]
      /\ handlers'[w].agent = {a} /\ jobs' = jobs
  BY <1>2 DEF JobsKept, Only
<1>4. NotedAreLinked'
  BY <1>2, <1>3, KnownStays DEF NotedAreLinked, BridgeHolds
<1>5. HostsAreAttached'
  <2>1. ASSUME NEW b \in hosts'
        PROVE  Attached(b)'
    <3>1. CASE b \notin hosts
      <4>1. b = a /\ handlers'[w].at = "link"
        BY <1>2, <2>1, <3>1
      <4> QED
        BY <1>3, <4>1 DEF Attached, Attaching
    <3>2. CASE b \in links \cap containers
      BY <3>2, KnownStays DEF Attached
    <3>3. CASE \E v \in Workers : Attaching(handlers[v]) /\ handlers[v].agent = {b}
      <4>1. PICK v \in Workers : Attaching(handlers[v]) /\ handlers[v].agent = {b}
        BY <3>3
      <4>2. CASE v # w
        BY <1>3, <4>1, <4>2 DEF Attached, Attaching
      <4>3. CASE v = w /\ handlers[w].at = "link"
        BY <1>2, <1>3, <4>1, <4>3 DEF Attached, Attaching
      <4>4. CASE v = w /\ handlers[w].at = "containers"
        <5>1. b = a /\ a \in links /\ a \in containers'
          BY <1>2, <4>1, <4>4 DEF BridgeHolds, NotedAreLinked
        <5> QED
          BY <5>1, KnownStays DEF Attached
      <4> QED
        BY <4>1, <4>2, <4>3, <4>4 DEF Attaching
    <3> QED
      BY <3>1, <3>2, <3>3 DEF BridgeHolds, HostsAreAttached, Attached
  <2> QED
    BY <2>1 DEF HostsAreAttached, Attached, Attaching
<1>6. ReadyAreKnown'
  <2>1. Known(a) \/ handlers'[w].at # "rules"
    BY <1>2 DEF WrittenInHosts, Attaching, Known
  <2>2. ASSUME NEW v \in Workers, Ready(handlers'[v]), NEW b \in handlers'[v].agent
        PROVE  Known(b)'
    <3>1. CASE v = w
      BY <1>2, <1>3, <2>1, <2>2, <3>1, KnownStays DEF Ready
    <3>2. CASE v # w
      BY <1>3, <2>2, <3>2, KnownStays DEF BridgeHolds, ReadyAreKnown
    <3> QED
      BY <3>1, <3>2
  <2> QED
    BY <2>2 DEF ReadyAreKnown, Ready
<1>7. DoneAreKnown'
  BY <1>3, KnownStays DEF BridgeHolds, DoneAreKnown
<1> QED
  BY <1>4, <1>5, <1>6, <1>7 DEF BridgeHolds

LEMMA LinksWhenMoved ==
    ASSUME TypeInv, BridgeHolds, NextIngest, ~ WorkerCrash, ~ \E w \in Workers : Bridge(w)
    PROVE  BridgeHolds'
<1>1. Moved
  BY StepFlows
<1>2. UNCHANGED <<hosts, links, containers>>
  BY OthersKeepLinks
<1>3. \A v \in Workers : Attaching(handlers'[v]) \/ Attaching(handlers[v]) =>
                            handlers'[v] = handlers[v]
  BY <1>1, OthersMove
<1>4. NotedAreLinked'
  BY <1>2, <1>3 DEF NotedAreLinked, BridgeHolds, Attaching
<1>5. HostsAreAttached'
  BY <1>2, <1>3 DEF HostsAreAttached, BridgeHolds, Attached, Attaching
<1>6. ReadyAreKnown'
  <2>1. ASSUME NEW v \in Workers, Ready(handlers'[v]), NEW b \in handlers'[v].agent
        PROVE  Known(b)'
    <3>1. Known(b)
      BY <1>1, <2>1, OthersMove DEF ReadyAreKnown, BridgeHolds
    <3> QED
      BY <3>1, KnownStays
  <2> QED
    BY <2>1 DEF ReadyAreKnown, Ready
<1>7. ASSUME NEW b \in Agents, NEW n \in DOMAIN jobs'[b], jobs'[b][n].at = "completed"
      PROVE  Known(b)'
  <2>1. Known(b)
    BY <1>1, <1>7, OthersMove DEF ReadyAreKnown, DoneAreKnown, BridgeHolds
  <2> QED
    BY <2>1, KnownStays
<1> QED
  BY <1>4, <1>5, <1>6, <1>7 DEF DoneAreKnown, BridgeHolds

LEMMA LinkStep ==
    ASSUME TypeInv, LinkInv, NextIngest
    PROVE  LinkInv'
<1>1. WrittenInHosts'
  BY WrittenStep DEF LinkInv
<1>2. ASSUME mishaps' = 0
      PROVE  BridgeHolds'
  <2>1. mishaps = 0 /\ ~ WorkerCrash /\ BridgeHolds
    BY <1>2, NothingWrong DEF LinkInv
  <2> QED
    BY <1>2, <2>1, LinksWhenBridged, LinksWhenMoved DEF LinkInv
<1> QED
  BY <1>1, <1>2 DEF LinkInv

-----------------------------------------------------------------------------
(* Evidence *)

\* A delivery whose handler stops is over: the handler has marked the job, or had lost
\* its lock to a later delivery or to the end of the job.
LEMMA EndedIsThrough ==
    ASSUME TypeInv, NEW w \in Workers, NEW x \in {"completed", "failed"}, Ends(w, x),
           NEW a \in Agents, NEW n \in DOMAIN jobs[a], NEW m \in 1..2, Handles(w, a, n, m),
           NEW r, NEW k
    PROVE  Through(a, n, m, r, k)'
<1>1. n = handlers[w].job /\ handlers[w].agent = {a}
  BY DEF Handles
<1>2. m = handlers[w].run
  BY DEF Handles
<1>3. /\ m \in 1..jobs[a][n].run /\ jobs[a][n].run \in 1..2
      /\ m = jobs[a][n].run => jobs[a][n].at \in {"active", "failed"}
  BY <1>1, <1>2, Busy, JobsTyped DEF Ends, TypeInv
<1>4. Over(a, n, m)'
  <2>1. PICK b \in Agents :
          /\ handlers[w].agent = {b}
          /\ IF HasLock(handlers[w], b) THEN Marks(b, handlers[w].job, x) ELSE UNCHANGED jobs
    BY DEF Ends
  <2>2. b = a
    BY <1>1, <2>1
  <2>3. CASE HasLock(handlers[w], a)
    <3>1. Marks(a, n, x)
      BY <1>1, <2>1, <2>2, <2>3
    <3>2. jobs'[a][n].at = x
      BY <3>1 DEF Marks
    <3> QED
      BY <3>2 DEF Over
  <2>4. CASE ~ HasLock(handlers[w], a)
    <3>1. jobs' = jobs
      BY <2>1, <2>2, <2>4
    <3>2. m < jobs[a][n].run \/ jobs[a][n].at = "failed"
      BY <1>1, <1>2, <1>3, <2>4 DEF HasLock
    <3> QED
      BY <3>1, <3>2 DEF Over
  <2> QED
    BY <2>3, <2>4
<1>5. ASSUME NEW v \in Workers, Handles(v, a, n, m)'
      PROVE  FALSE
  <2>1. v # w
    BY <1>5, IdleTyped DEF Ends, Handles
  <2>2. handlers'[v] = handlers[v]
    BY <2>1 DEF Ends, Only
  <2>3. handlers[w] # Idle
    BY IdleTyped DEF Ends
  <2> QED
    BY <1>1, <1>2, <1>5, <2>1, <2>2, <2>3 DEF Handles, TypeInv, OneEach
<1> QED
  BY <1>4, <1>5 DEF Through, Handled

\* What a delivery that is over and has no handler is about stays so; another one's
\* handler is the one it had.
LEMMA ThroughStays ==
    ASSUME TypeInv, Flow, NEW a \in Agents, NEW n \in DOMAIN jobs[a],
           NEW m \in 1..jobs[a][n].run, NEW r \in Indexes, NEW k \in Nat
    PROVE  /\ n \in DOMAIN jobs'[a] /\ jobs'[a][n].hi = jobs[a][n].hi
           /\ m \in 1..jobs'[a][n].run
           /\ Through(a, n, m, r, k) => Through(a, n, m, r, k)'
<1>1. IngestOK /\ n \in Nat /\ jobs[a][n].run \in 1..2 /\ m \in 1..2
  BY JobsTyped DEF TypeInv
<1>2. /\ n \in DOMAIN jobs'[a] /\ jobs'[a][n].hi = jobs[a][n].hi
      /\ \/ jobs'[a][n].run = jobs[a][n].run
         \/ jobs[a][n].run = 1 /\ jobs'[a][n].run = 2
      /\ Over(a, n, m) => Over(a, n, m)'
  <2>1. PICK row : row = jobs'[a][n]
    OBVIOUS
  <2> DEFINE KeptRow ==
               /\ n \in DOMAIN jobs'[a] /\ row.hi = jobs[a][n].hi
               /\ \/ row.run = jobs[a][n].run
                  \/ jobs[a][n].run = 1 /\ row.run = 2
               /\ Over(a, n, m) => m < row.run \/ row.at \in {"completed", "failed"}
  <2>2. row = jobs[a][n] /\ n \in DOMAIN jobs'[a] => KeptRow
    BY DEF Over
  <2>3. (\E b \in Agents, hi \in Nat : Sends(b, hi)) => KeptRow
    <3>1. (\E b \in Agents, hi \in Nat : Sends(b, hi)) => row = jobs[a][n] /\ n \in DOMAIN jobs'[a]
      BY <2>1 DEF Sends
    <3> HIDE DEF KeptRow
    <3> QED
      BY <2>2, <3>1
  <2>4. \A b \in Agents, j \in Nat, x \in {"completed", "failed"} : Marks(b, j, x) => KeptRow
    BY <2>1 DEF Marks, Over
  <2>5. (\E b \in Agents : \E j \in DOMAIN jobs[b] : \E v \in Workers : Takes(v, b, j)) => KeptRow
    BY <2>1 DEF Takes, Marks, Over
  <2>6. (\E b \in Agents : \E j \in DOMAIN jobs[b] : Requeues(b, j)) => KeptRow
    <3> SUFFICES ASSUME NEW b \in Agents, NEW j \in DOMAIN jobs[b], Requeues(b, j)
                 PROVE  KeptRow
      OBVIOUS
    <3>1. CASE b = a /\ j = n
      BY <1>1, <2>1, <3>1 DEF Requeues, Over
    <3>2. CASE b # a \/ j # n
      <4>1. row = jobs[a][n] /\ n \in DOMAIN jobs'[a]
        BY <2>1, <3>2 DEF Requeues
      <4> HIDE DEF KeptRow
      <4> QED
        BY <2>2, <4>1
    <3> QED
      BY <3>1, <3>2
  <2> HIDE DEF KeptRow
  <2>7. jobs' = jobs => KeptRow
    BY <2>1, <2>2
  <2>8. (\E w \in Workers : Readies(w) \/ Loads(w) \/ Fires(w) \/ Advances(w)) => KeptRow
    BY <2>7 DEF Readies, Loads, Fires, Advances, JobsKept
  <2>9. (\E w \in Workers, x \in {"completed", "failed"} : Ends(w, x)) => KeptRow
    <3>1. \A w \in Workers, x \in {"completed", "failed"} : Ends(w, x) =>
             jobs' = jobs \/ \E b \in Agents : Marks(b, handlers[w].job, x)
      BY DEF Ends
    <3>2. \A w \in Workers : handlers[w].job \in Nat
      BY <1>1, HandlersTyped
    <3> QED
      BY <2>4, <2>7, <3>1, <3>2
  <2>10. KeptRow
    BY <2>3, <2>5, <2>6, <2>7, <2>8, <2>9 DEF Flow, Moved
  <2> QED
    BY <2>1, <2>10 DEF KeptRow, Over
<1>3. m \in 1..jobs'[a][n].run
  BY <1>1, <1>2
<1> SUFFICES ASSUME Through(a, n, m, r, k) PROVE Through(a, n, m, r, k)'
  BY <1>2, <1>3
<1>4. CASE Over(a, n, m) /\ ~ Handled(a, n, m)
  <2>1. ASSUME NEW v \in Workers, Handles(v, a, n, m)'
        PROVE  FALSE
    <3>1. ~ Handles(v, a, n, m)
      BY <1>4 DEF Handled
    <3>2. \E b \in Agents : \E j \in DOMAIN jobs[b] : Takes(v, b, j)
      BY <2>1, <3>1, IdleTyped DEF Flow, Moved, Takes, Readies, Loads, Fires, Advances, JobsKept,
           Only, Ends, Handles
    <3>3. PICK b \in Agents : \E j \in DOMAIN jobs[b] : Takes(v, b, j)
      BY <3>2
    <3>4. PICK j \in DOMAIN jobs[b] : Takes(v, b, j)
      BY <3>3
    <3>5. b = a /\ j = n /\ m = jobs[a][n].run /\ jobs[a][n].at = "waiting"
      BY <2>1, <3>4 DEF Takes, Handles
    <3> QED
      BY <1>1, <1>4, <3>5 DEF Over
  <2> QED
    BY <1>2, <1>4, <2>1 DEF Through, Handled
<1>5. CASE \E v \in Workers : Handles(v, a, n, m) /\ Past(handlers[v], r, k)
  <2>1. PICK v \in Workers : Handles(v, a, n, m) /\ Past(handlers[v], r, k)
    BY <1>5
  <2>2. /\ Evaluating(handlers[v]) /\ handlers[v] # Idle /\ handlers[v].at # "idle"
        /\ handlers[v].agent = {a} /\ handlers[v].job = n /\ handlers[v].run = m
    BY <2>1 DEF Handles, Past, Evaluating, Idle
  <2>3. /\ handlers[v].rule \in handlers[v].rules /\ handlers[v].rule \in Nat
        /\ handlers[v].sample \in Nat /\ r \in Nat /\ handlers[v].rules \subseteq Nat
        /\ handlers[v].rules = {0} \/ 0 \notin handlers[v].rules
    BY <1>1, <2>2, Busy, HandlersTyped, RulesTyped
  <2>4. CASE handlers'[v] = handlers[v]
    BY <2>1, <2>4 DEF Through, Handles, Past, Evaluating
  <2>5. CASE handlers'[v] # handlers[v]
    <3>1. \/ Fires(v) \/ Advances(v) \/ Ends(v, "completed") \/ Ends(v, "failed")
      BY <2>2, <2>5 DEF Flow, Moved, Takes, Readies, Loads, Fires, Advances, JobsKept, Only,
         Ends, Evaluating
    <3>2. CASE Fires(v)
      <4>1. /\ Evaluating(handlers'[v]) /\ handlers'[v].at = "publish" /\ handlers[v].at = "track"
            /\ handlers'[v].agent = {a} /\ handlers'[v].job = n /\ handlers'[v].run = m
            /\ handlers'[v].sample = handlers[v].sample /\ handlers'[v].rule = handlers[v].rule
        BY <2>2, <3>2 DEF Fires, JobsKept, Evaluating
      <4> QED
        BY <2>1, <4>1 DEF Through, Handles, Past, Evaluating
    <3>3. CASE Advances(v)
      <4>1. Moves(handlers[v], handlers'[v], jobs[a][n].hi)
        BY <2>2, <3>3 DEF Advances
      <4>2. /\ Evaluating(handlers'[v]) /\ handlers'[v].agent = {a} /\ handlers'[v].job = n
            /\ handlers'[v].run = m /\ handlers'[v].rule \in handlers[v].rules
        BY <2>2, <4>1 DEF Moves, Evaluating
      <4>3. CASE handlers'[v].sample = handlers[v].sample + 1
        <5>1. k < handlers'[v].sample
          BY <2>1, <2>3, <4>3 DEF Past
        <5> QED
          BY <4>2, <5>1 DEF Through, Handles, Past, Evaluating
      <4>4. CASE handlers'[v].sample = handlers[v].sample /\ handlers[v].rule < handlers'[v].rule
        <5>1. handlers[v].rule # 0
          BY <2>3, <4>2, <4>4
        <5>2. \/ k < handlers'[v].sample
              \/ k = handlers'[v].sample /\ r < handlers'[v].rule
          BY <2>1, <2>3, <4>2, <4>4, <5>1 DEF Past
        <5> QED
          BY <4>2, <5>2 DEF Through, Handles, Past, Evaluating
      <4> QED
        BY <4>1, <4>3, <4>4 DEF Moves
    <3>4. ASSUME NEW x \in {"completed", "failed"}, Ends(v, x)
          PROVE  Through(a, n, m, r, k)'
      <4>1. Handles(v, a, n, m)
        BY <2>2 DEF Handles
      <4> QED
        BY <1>1, <3>4, <4>1, EndedIsThrough
    <3> QED
      BY <3>1, <3>2, <3>3, <3>4
  <2> QED
    BY <2>4, <2>5
<1> QED
  BY <1>4, <1>5 DEF Through

\* A sample that is tracked has not been through its rule, and now it has; so it is
\* with any rule in place of the default.
LEMMA TrackedNow ==
    ASSUME TypeInv, NEW w \in Workers, NEW a \in Agents, handlers[w].at = "track",
           handlers[w].agent = {a}, NEW c \in Indexes, handlers[w].rule \in {0, c},
           Fires(w) \/ Advances(w) \/ Ends(w, "completed")
    PROVE  /\ ~ Through(a, handlers[w].job, handlers[w].run, c, handlers[w].sample)
           /\ \E n \in {handlers[w].job}, m \in {handlers[w].run}, k \in {handlers[w].sample} :
                 /\ n \in DOMAIN jobs[a] /\ m \in 1..jobs[a][n].run
                 /\ k \in n..jobs[a][n].hi /\ k \in Nat
                 /\ Through(a, n, m, c, k)'
<1> DEFINE h == handlers[w]
<1>1. IngestOK
  BY DEF TypeInv
<1>2. /\ h.job \in DOMAIN jobs[a] /\ h.run \in 1..jobs[a][h.job].run
      /\ h.sample \in h.job..jobs[a][h.job].hi
      /\ h.rule \in h.rules
      /\ h.rules = {0} \/ h.rules \subseteq DOMAIN Rules
  BY Busy DEF Evaluating
<1>3. /\ h.job \in Nat /\ h.sample \in Nat /\ h.rule \in Nat /\ c \in Nat /\ h.rules \subseteq Nat
      /\ h.rules = {0} \/ 0 \notin h.rules
  BY <1>1, <1>2, HandlersTyped, RulesTyped
<1>4. ~ Through(a, h.job, h.run, c, h.sample)
  <2>1. \A v \in Workers : Handles(v, a, h.job, h.run) => v = w
    BY IdleTyped DEF TypeInv, OneEach, Handles
  <2>2. ~ Past(h, c, h.sample)
    BY <1>3 DEF Past
  <2>3. Handled(a, h.job, h.run)
    BY DEF Handled, Handles
  <2> QED
    BY <2>1, <2>2, <2>3 DEF Through
<1>5. PICK n \in {h.job}, m \in {h.run}, k \in {h.sample} : TRUE
  OBVIOUS
<1>6. n \in DOMAIN jobs[a] /\ m \in 1..jobs[a][n].run /\ k \in n..jobs[a][n].hi /\ k \in Nat
  BY <1>2, <1>3, <1>5
<1>7. CASE Fires(w)
  <2>1. /\ Evaluating(handlers'[w]) /\ handlers'[w].at = "publish" /\ handlers'[w].agent = {a}
        /\ handlers'[w].job = n /\ handlers'[w].run = m /\ handlers'[w].sample = k
        /\ handlers'[w].rule \in {0, c}
    BY <1>5, <1>7 DEF Fires, JobsKept, Evaluating
  <2> QED
    BY <1>4, <1>5, <1>6, <2>1 DEF Through, Handles, Past, Evaluating
<1>8. CASE Advances(w)
  <2>1. Moves(h, handlers'[w], jobs[a][n].hi)
    BY <1>5, <1>8 DEF Advances
  <2>2. /\ Evaluating(handlers'[w]) /\ handlers'[w].agent = {a} /\ handlers'[w].job = n
        /\ handlers'[w].run = m /\ handlers'[w].rule \in h.rules
    BY <1>5, <2>1 DEF Moves, Evaluating
  <2>3. \/ k < handlers'[w].sample
        \/ k = handlers'[w].sample /\ c < handlers'[w].rule
    <3>1. handlers'[w].sample = h.sample => c < handlers'[w].rule
      <4>1. handlers'[w].sample = h.sample => h.rule < handlers'[w].rule
        BY <1>3, <2>1 DEF Moves
      <4>2. h.rule = 0 => handlers'[w].rule = 0
        BY <1>2, <1>3, <2>2
      <4> QED
        BY <4>1, <4>2
    <3>2. handlers'[w].sample \in {h.sample, h.sample + 1}
      BY <2>1 DEF Moves
    <3> QED
      BY <1>3, <1>5, <3>1, <3>2
  <2> QED
    BY <1>4, <1>5, <1>6, <2>2, <2>3 DEF Through, Handles, Past, Evaluating
<1>9. CASE Ends(w, "completed")
  <2>1. Handles(w, a, n, m) /\ m \in 1..2
    <3>1. jobs[a][n].run \in 1..2
      BY <1>1, <1>6, JobsTyped
    <3> QED
      BY <1>5, <1>6, <3>1 DEF Handles
  <2>2. Through(a, n, m, c, k)'
    BY <1>6, <1>9, <2>1, EndedIsThrough
  <2> QED
    BY <1>4, <1>5, <1>6, <2>2
<1> QED
  BY <1>7, <1>8, <1>9

-----------------------------------------------------------------------------
(* Counts and events *)

LEMMA CountingIs ==
    ASSUME NEW rule
    PROVE  /\ Counting(rule) \subseteq Indexes /\ Counting(rule) # {}
           /\ IsFiniteSet(Counting(rule))
           /\ \A i \in Indexes : RuleAt(i).event = rule.event =>
                 \E c \in Counting(rule) : i \in {0, c}
<1>1. Counting(rule) \subseteq Indexes /\ Counting(rule) # {}
  BY RulesTyped DEF Counting, Sharing
<1>2. IsFiniteSet(Counting(rule))
  BY <1>1, RulesTyped, FS_Subset
<1>3. ASSUME NEW i \in Indexes, RuleAt(i).event = rule.event
      PROVE  \E c \in Counting(rule) : i \in {0, c}
  <2>1. CASE i = 0
    BY <1>1, <2>1
  <2>2. CASE i # 0
    <3>1. i \in DOMAIN Rules /\ Rules[i].event = rule.event
      BY <1>3, <2>2 DEF Indexes, RuleAt
    <3>2. i \in Counting(rule)
      BY <3>1 DEF Counting, Sharing
    <3> QED
      BY <3>2
  <2> QED
    BY <2>1, <2>2
<1> QED
  BY <1>1, <1>2, <1>3

\* Three finite sets have finitely many triples.
LEMMA TriplesFinite ==
    ASSUME NEW A, IsFiniteSet(A), NEW B, IsFiniteSet(B), NEW C, IsFiniteSet(C)
    PROVE  IsFiniteSet(A \X B \X C)
<1> DEFINE S == (A \X B) \X C
           T == A \X B \X C
           flat == [p \in S |-> <<p[1][1], p[1][2], p[2]>>]
<1>1. IsFiniteSet(S)
  BY FS_Product
<1>2. \A p \in S : flat[p] \in T
  OBVIOUS
<1>3. flat \in [S -> T]
  BY <1>2
<1>4. ASSUME NEW t \in T
      PROVE  \E p \in S : flat[p] = t
  <2>1. PICK x \in A, y \in B, z \in C : t = <<x, y, z>>
    OBVIOUS
  <2>2. <<<<x, y>>, z>> \in S /\ flat[<<<<x, y>>, z>>] = t
    BY <2>1
  <2> QED
    BY <2>2
<1> HIDE DEF S, T, flat
<1>5. flat \in Surjection(S, T)
  BY <1>3, <1>4 DEF Surjection
<1>6. IsFiniteSet(T)
  BY <1>1, <1>5, FS_Surjection
<1> QED
  BY <1>6 DEF T

EvidenceIn(J, rule, a, B) ==
    Counting(rule) \X {x \in (DOMAIN J[a]) \X (1..2) \X B :
                          x[2] <= J[a][x[1]].run /\ x[3] \in x[1]..J[a][x[1]].hi}

LEMMA EvidenceFinite ==
    ASSUME NEW J, J \in [Agents -> Seq(JobRec)], NEW rule, NEW a \in Agents,
           NEW B, IsFiniteSet(B)
    PROVE  IsFiniteSet(EvidenceIn(J, rule, a, B))
<1>1. DOMAIN J[a] = 1..Len(J[a]) /\ Len(J[a]) \in Nat
  OBVIOUS
<1>2. IsFiniteSet(DOMAIN J[a])
  BY <1>1, FS_Interval
<1>3. IsFiniteSet(1..2)
  <2>1. \A i \in Nat : IsFiniteSet(1..i)
    BY FS_Interval
  <2> QED
    BY <2>1
<1>4. IsFiniteSet((DOMAIN J[a]) \X (1..2) \X B)
  BY <1>2, <1>3, TriplesFinite
<1> DEFINE D == {x \in (DOMAIN J[a]) \X (1..2) \X B :
                    x[2] <= J[a][x[1]].run /\ x[3] \in x[1]..J[a][x[1]].hi}
<1>5. D \subseteq (DOMAIN J[a]) \X (1..2) \X B
  OBVIOUS
<1> HIDE DEF D
<1>6. IsFiniteSet(D)
  BY <1>4, <1>5, FS_Subset
<1>7. IsFiniteSet(Counting(rule) \X D)
  BY <1>6, CountingIs, FS_Product
<1> QED
  BY <1>7 DEF D, EvidenceIn

LEMMA EvidenceNow ==
    ASSUME IngestOK, NEW rule, NEW a \in Agents, NEW B, IsFiniteSet(B)
    PROVE  IsFiniteSet(Evidence(rule, a, B))
<1>1. PICK J : J = jobs
  OBVIOUS
<1>2. J \in [Agents -> Seq(JobRec)]
  BY <1>1, JobsTyped
<1>3. IsFiniteSet(EvidenceIn(J, rule, a, B))
  BY <1>2, EvidenceFinite
<1> QED
  BY <1>1, <1>3 DEF Evidence, Deliveries, EvidenceIn

LEMMA EvidenceNext ==
    ASSUME jobs' \in [Agents -> Seq(JobRec)], NEW rule, NEW a \in Agents, NEW B, IsFiniteSet(B)
    PROVE  IsFiniteSet(Evidence(rule, a, B)')
<1>1. PICK J : J = jobs'
  OBVIOUS
<1>2. J \in [Agents -> Seq(JobRec)]
  BY <1>1
<1>3. IsFiniteSet(EvidenceIn(J, rule, a, B))
  BY <1>2, EvidenceFinite
<1> QED
  BY <1>1, <1>3 DEF Evidence, Deliveries, EvidenceIn

\* What may count, and what has been through of it, is never taken back.
LEMMA EvidenceGrows ==
    ASSUME TypeInv, Flow, NEW rule, NEW a \in Agents, NEW B \in SUBSET Nat, NEW C, B \subseteq C
    PROVE  /\ Evidence(rule, a, B) \subseteq Evidence(rule, a, C)'
           /\ Seen(rule, a, B) \subseteq Seen(rule, a, C)'
<1>1. ASSUME NEW x \in Evidence(rule, a, B)
      PROVE  /\ x \in Evidence(rule, a, C)'
             /\ Through(a, x[2][1], x[2][2], x[1], x[2][3])
                   => Through(a, x[2][1], x[2][2], x[1], x[2][3])'
  <2>1. PICK c \in Counting(rule), n \in DOMAIN jobs[a], m \in 1..2, k \in B :
          m <= jobs[a][n].run /\ k \in n..jobs[a][n].hi /\ x = <<c, <<n, m, k>>>>
    <3>1. PICK c \in Counting(rule), d \in Deliveries(a, B) : x = <<c, d>>
      BY <1>1 DEF Evidence
    <3>2. PICK n \in DOMAIN jobs[a], m \in 1..2, k \in B :
            d = <<n, m, k>> /\ m <= jobs[a][n].run /\ k \in n..jobs[a][n].hi
      BY <3>1 DEF Deliveries
    <3> QED
      BY <3>1, <3>2
  <2>2. m \in 1..jobs[a][n].run /\ jobs[a][n].run \in 1..2
    BY <2>1, JobsTyped DEF TypeInv
  <2>3. /\ n \in DOMAIN jobs'[a] /\ jobs'[a][n].hi = jobs[a][n].hi
        /\ m \in 1..jobs'[a][n].run
        /\ Through(a, n, m, c, k) => Through(a, n, m, c, k)'
    BY <2>1, <2>2, CountingIs, ThroughStays
  <2>4. x[2][1] = n /\ x[2][2] = m /\ x[1] = c /\ x[2][3] = k
    BY <2>1
  <2>5. x \in Evidence(rule, a, C)'
    <3>1. <<n, m, k>> \in Deliveries(a, C)'
      <4>1. m <= jobs'[a][n].run
        BY <2>3
      <4> QED
        BY <2>1, <2>3, <4>1 DEF Deliveries
    <3> QED
      BY <2>1, <3>1 DEF Evidence
  <2>6. Through(a, x[2][1], x[2][2], x[1], x[2][3]) => Through(a, x[2][1], x[2][2], x[1], x[2][3])'
    BY <2>3, <2>4 DEF Through, Over, Handled
  <2> QED
    BY <2>5, <2>6
<1> QED
  BY <1>1 DEF Seen

LEMMA EvidenceCounts ==
    ASSUME TypeInv, IngestOK', Flow, NEW rule, NEW a \in Agents, NEW B \in SUBSET Nat, IsFiniteSet(B)
    PROVE  /\ Cardinality(Evidence(rule, a, B)) \in Nat /\ Cardinality(Evidence(rule, a, B)') \in Nat
           /\ Cardinality(Evidence(rule, a, B)) <= Cardinality(Evidence(rule, a, B)')
           /\ Cardinality(Seen(rule, a, B)) \in Nat /\ Cardinality(Seen(rule, a, B)') \in Nat
           /\ Cardinality(Seen(rule, a, B)) <= Cardinality(Seen(rule, a, B)')
           /\ Cardinality(Seen(rule, a, B)') <= Cardinality(Evidence(rule, a, B)')
<1>1. IngestOK /\ jobs' \in [Agents -> Seq(JobRec)]
  BY JobsStayTyped DEF TypeInv
<1>2. IsFiniteSet(Evidence(rule, a, B)) /\ IsFiniteSet(Evidence(rule, a, B)')
  BY <1>1, EvidenceNow, EvidenceNext
<1>3. /\ Seen(rule, a, B) \subseteq Evidence(rule, a, B)
      /\ Seen(rule, a, B)' \subseteq Evidence(rule, a, B)'
  BY DEF Seen
<1>4. IsFiniteSet(Seen(rule, a, B)) /\ IsFiniteSet(Seen(rule, a, B)')
  BY <1>2, <1>3, FS_Subset
<1>5. /\ Evidence(rule, a, B) \subseteq Evidence(rule, a, B)'
      /\ Seen(rule, a, B) \subseteq Seen(rule, a, B)'
  BY EvidenceGrows
<1> QED
  BY <1>2, <1>3, <1>4, <1>5, FS_Subset, FS_CardinalityType

LEMMA EvidenceAdds ==
    ASSUME TypeInv, IngestOK', Flow, NEW rule, NEW a \in Agents, NEW B \in SUBSET Nat, IsFiniteSet(B),
           NEW c \in Counting(rule), NEW n \in DOMAIN jobs[a], NEW m \in 1..jobs[a][n].run,
           NEW k \in Nat, k \in n..jobs[a][n].hi,
           ~ Through(a, n, m, c, k), Through(a, n, m, c, k)'
    PROVE  /\ IsFiniteSet(B \cup {k})
           /\ Cardinality(Seen(rule, a, B)) + 1 <= Cardinality(Seen(rule, a, B \cup {k})')
<1> DEFINE C == B \cup {k}
           x == <<c, <<n, m, k>>>>
<1>1. IngestOK /\ jobs' \in [Agents -> Seq(JobRec)]
  BY JobsStayTyped DEF TypeInv
<1>2. IsFiniteSet(C) /\ B \subseteq C /\ C \in SUBSET Nat
  BY FS_AddElement
<1>3. x[2][1] = n /\ x[2][2] = m /\ x[1] = c /\ x[2][3] = k
  OBVIOUS
<1>4. x \notin Seen(rule, a, B)
  <2>1. ~ Through(a, x[2][1], x[2][2], x[1], x[2][3])
    BY <1>3
  <2> QED
    BY <2>1 DEF Seen
<1>5. x \in Seen(rule, a, C)'
  <2>1. /\ n \in DOMAIN jobs'[a] /\ jobs'[a][n].hi = jobs[a][n].hi
        /\ m \in 1..jobs'[a][n].run /\ jobs'[a][n].run \in 1..2
    <3>1. n \in DOMAIN jobs'[a] /\ jobs'[a][n].hi = jobs[a][n].hi /\ m \in 1..jobs'[a][n].run
      BY CountingIs, ThroughStays
    <3>2. jobs'[a] \in Seq(JobRec)
      BY <1>1
    <3>3. jobs'[a][n] \in JobRec
      BY <3>1, <3>2
    <3>4. jobs'[a][n].run \in 1..2
      BY <3>3 DEF JobRec
    <3> QED
      BY <3>1, <3>4
  <2>2. x \in Evidence(rule, a, C)'
    <3>1. <<n, m, k>> \in Deliveries(a, C)'
      <4>1. m \in 1..2 /\ m <= jobs'[a][n].run
        BY <2>1
      <4> QED
        BY <2>1, <4>1 DEF Deliveries
    <3> QED
      BY <3>1 DEF Evidence
  <2>3. Through(a, x[2][1], x[2][2], x[1], x[2][3])'
    BY <1>3 DEF Through, Over, Handled
  <2> QED
    BY <2>2, <2>3 DEF Seen
<1> HIDE DEF C, x
<1>6. Seen(rule, a, B) \subseteq Seen(rule, a, C)'
  BY <1>2, EvidenceGrows
<1>7. IsFiniteSet(Seen(rule, a, B)) /\ IsFiniteSet(Seen(rule, a, C)')
  <2>1. IsFiniteSet(Evidence(rule, a, B)) /\ IsFiniteSet(Evidence(rule, a, C)')
    BY <1>1, <1>2, EvidenceNow, EvidenceNext
  <2>2. Seen(rule, a, B) \subseteq Evidence(rule, a, B) /\ Seen(rule, a, C)' \subseteq Evidence(rule, a, C)'
    BY DEF Seen
  <2> QED
    BY <2>1, <2>2, FS_Subset
<1>8. /\ Cardinality(Seen(rule, a, B) \cup {x}) = Cardinality(Seen(rule, a, B)) + 1
      /\ IsFiniteSet(Seen(rule, a, B) \cup {x})
  BY <1>4, <1>7, FS_AddElement
<1>9. Seen(rule, a, B) \cup {x} \subseteq Seen(rule, a, C)'
  BY <1>5, <1>6
<1>10. Cardinality(Seen(rule, a, B) \cup {x}) <= Cardinality(Seen(rule, a, C)')
  BY <1>7, <1>9, FS_Subset
<1> QED
  BY <1>2, <1>8, <1>10 DEF C

EarnedAt(i, a) ==
    /\ IsFiniteSet(counts[Key(i, a)].by)
    /\ counts[Key(i, a)].n <= Cardinality(Seen(RuleAt(i), a, counts[Key(i, a)].by))

LEMMA CountsKept ==
    ASSUME TypeInv, IngestOK', Flow, NEW i \in Indexes, NEW a \in Agents, EarnedAt(i, a),
           counts'[Key(i, a)] = counts[Key(i, a)]
    PROVE  EarnedAt(i, a)'
<1>1. counts[Key(i, a)] \in CountRec
  BY CountIs DEF TypeInv
<1>2. PICK B \in SUBSET Nat, m \in Nat : B = counts[Key(i, a)].by /\ m = counts[Key(i, a)].n
  BY <1>1 DEF CountRec
<1>3. counts'[Key(i, a)].by = B /\ counts'[Key(i, a)].n = m
  BY <1>2
<1>4. IsFiniteSet(B) /\ m <= Cardinality(Seen(RuleAt(i), a, B))
  BY <1>2 DEF EarnedAt
<1>5. /\ Cardinality(Seen(RuleAt(i), a, B)) \in Nat /\ Cardinality(Seen(RuleAt(i), a, B)') \in Nat
      /\ Cardinality(Seen(RuleAt(i), a, B)) <= Cardinality(Seen(RuleAt(i), a, B)')
  BY <1>4, EvidenceCounts
<1>6. m <= Cardinality(Seen(RuleAt(i), a, B)')
  BY <1>4, <1>5
<1>7. Seen(RuleAt(i), a, B)' = Seen(RuleAt(i), a, counts[Key(i, a)].by)'
  BY <1>3 DEF Seen, Evidence, Deliveries, Through, Over, Handled
<1> QED
  BY <1>3, <1>4, <1>6, <1>7 DEF EarnedAt, Key

\* A sample that counts has been through no rule that may have counted it before.
LEMMA CountsTracked ==
    ASSUME TypeInv, IngestOK', Flow, NEW w \in Workers, Track(w), NEW i \in Indexes, NEW a \in Agents,
           EarnedAt(i, a)
    PROVE  EarnedAt(i, a)'
<1>1. IngestOK
  BY DEF TypeInv
<1>2. PICK b \in Agents :
        /\ handlers[w].at = "track" /\ handlers[w].agent = {b}
        /\ counts' = [counts EXCEPT ![Key(handlers[w].rule, b)] =
                         NextCount(Key(handlers[w].rule, b), RuleAt(handlers[w].rule),
                                   handlers[w].sample, values[<<b, handlers[w].sample>>])]
        /\ Fires(w) \/ Advances(w) \/ Ends(w, "completed")
  BY TrackFlows
<1>3. counts \in [Keys -> CountRec] /\ Key(i, a) \in Keys
  BY <1>1, CountIs
<1>4. CASE Key(i, a) # Key(handlers[w].rule, b)
  <2>1. counts'[Key(i, a)] = counts[Key(i, a)]
    BY <1>2, <1>3, <1>4
  <2> QED
    BY <2>1, CountsKept
<1>5. CASE Key(i, a) = Key(handlers[w].rule, b)
  <2>1. b = a /\ RuleAt(handlers[w].rule).event = RuleAt(i).event
    BY <1>5 DEF Key
  <2>2. handlers[w].rule \in Indexes /\ handlers[w].sample \in Nat
    BY <1>1, HandlersTyped
  <2>3. PICK c \in Counting(RuleAt(i)) : handlers[w].rule \in {0, c}
    BY <2>1, <2>2, CountingIs
  <2>4. c \in Indexes
    BY <2>3, CountingIs
  <2>5. PICK n \in {handlers[w].job}, j \in {handlers[w].run}, k \in {handlers[w].sample} :
          /\ n \in DOMAIN jobs[a] /\ j \in 1..jobs[a][n].run
          /\ k \in n..jobs[a][n].hi /\ k \in Nat
          /\ Through(a, n, j, c, k)'
    BY <1>2, <2>1, <2>3, <2>4, TrackedNow
  <2>6. ~ Through(a, n, j, c, k)
    BY <1>2, <2>1, <2>3, <2>4, <2>5, TrackedNow
  <2>7. PICK B \in SUBSET Nat, m \in Nat : B = counts[Key(i, a)].by /\ m = counts[Key(i, a)].n
    BY <1>3 DEF CountRec
  <2>8. IsFiniteSet(B) /\ m <= Cardinality(Seen(RuleAt(i), a, B))
    BY <2>7 DEF EarnedAt
  <2>9. counts'[Key(i, a)] = NextCount(Key(i, a), RuleAt(handlers[w].rule), k, values[<<b, k>>])
    BY <1>2, <1>3, <1>5, <2>5
  <2>10. \/ counts'[Key(i, a)] = [n |-> m + 1, by |-> B \cup {k}]
         \/ counts'[Key(i, a)] = Unseen
    BY <2>7, <2>9 DEF NextCount
  <2>11. CASE counts'[Key(i, a)] = [n |-> m + 1, by |-> B \cup {k}]
    <3>1. /\ IsFiniteSet(B \cup {k})
          /\ Cardinality(Seen(RuleAt(i), a, B)) + 1 <= Cardinality(Seen(RuleAt(i), a, B \cup {k})')
      BY <2>5, <2>6, <2>8, EvidenceAdds
    <3>2. Cardinality(Seen(RuleAt(i), a, B)) \in Nat
      BY <2>8, EvidenceCounts
    <3>3. Cardinality(Seen(RuleAt(i), a, B \cup {k})') \in Nat
      BY <2>5, <3>1, EvidenceCounts
    <3>4. m + 1 <= Cardinality(Seen(RuleAt(i), a, B \cup {k})')
      BY <2>8, <3>1, <3>2, <3>3
    <3>5. counts'[Key(i, a)].by = B \cup {k} /\ counts'[Key(i, a)].n = m + 1
      BY <2>11
    <3>6. Seen(RuleAt(i), a, B \cup {k})' = Seen(RuleAt(i), a, counts[Key(i, a)].by)'
      BY <3>5 DEF Seen, Evidence, Deliveries, Through, Over, Handled
    <3> QED
      BY <3>1, <3>4, <3>5, <3>6 DEF EarnedAt, Key
  <2>12. CASE counts'[Key(i, a)] = Unseen
    <3>1. counts'[Key(i, a)].by = {} /\ counts'[Key(i, a)].n = 0
      BY <2>12 DEF Unseen
    <3>2. IsFiniteSet({}) /\ {} \in SUBSET Nat
      BY FS_EmptySet
    <3>3. Cardinality(Seen(RuleAt(i), a, {})') \in Nat
      BY <3>2, EvidenceCounts
    <3>4. Seen(RuleAt(i), a, {})' = Seen(RuleAt(i), a, counts[Key(i, a)].by)'
      BY <3>1 DEF Seen, Evidence, Deliveries, Through, Over, Handled
    <3> QED
      BY <3>1, <3>2, <3>3, <3>4 DEF EarnedAt, Key
  <2> QED
    BY <2>10, <2>11, <2>12
<1> QED
  BY <1>4, <1>5

LEMMA CountsStep ==
    ASSUME TypeInv, IngestOK', CountsEarned, NextIngest, ~ WorkerCrash
    PROVE  CountsEarned'
<1>1. Flow
  BY StepFlows
<1>2. ASSUME NEW i \in Indexes, NEW a \in Agents
      PROVE  EarnedAt(i, a)'
  <2>1. EarnedAt(i, a)
    BY DEF CountsEarned, EarnedAt
  <2>2. CASE \E w \in Workers : Track(w)
    BY <1>1, <2>1, <2>2, CountsTracked
  <2>3. CASE ~ \E w \in Workers : Track(w)
    <3>1. counts' = counts
      BY <2>3 DEF NextIngest, Send, TakeJob, Stall, Switch, CreateHost, CacheAges, Find, Insert,
         Link, BridgeContainers, LoadRules, Publish, JobFails
    <3> QED
      BY <1>1, <2>1, <3>1, CountsKept
  <2> QED
    BY <2>2, <2>3
<1> QED
  BY <1>2 DEF CountsEarned, EarnedAt

\* A handler that evaluates moves by its own steps only.
LEMMA EvaluatingMoves ==
    ASSUME TypeInv, NextIngest, ~ WorkerCrash, NEW w \in Workers, Evaluating(handlers[w]),
           handlers'[w] # handlers[w]
    PROVE  Track(w) \/ Publish(w) \/ JobFails(w)
<1>1. /\ handlers[w].at \in {"track", "publish"} /\ handlers[w] # Idle
  BY IdleTyped DEF Evaluating
<1>2. ASSUME NEW v \in Workers, NEW a \in Agents, NEW n \in DOMAIN jobs[a], TakeJob(v, a, n)
      PROVE  FALSE
  BY <1>1, <1>2, TakeFlows DEF Takes, Only
<1>3. ASSUME NEW v \in Workers, Bridge(v)
      PROVE  FALSE
  BY <1>1, <1>3, BridgeFlows DEF Readies, JobsKept, Only
<1>4. ASSUME NEW v \in Workers, LoadRules(v)
      PROVE  FALSE
  BY <1>1, <1>4, LoadFlows DEF Loads, JobsKept, Only
<1>5. ASSUME NEW v \in Workers, Track(v)
      PROVE  v = w
  BY <1>5, TrackFlows DEF Fires, Advances, Ends, JobsKept, Only
<1>6. ASSUME NEW v \in Workers, Publish(v)
      PROVE  v = w
  BY <1>6, PublishFlows DEF Advances, Ends, JobsKept, Only
<1>7. ASSUME NEW v \in Workers, JobFails(v)
      PROVE  v = w
  BY <1>7, FailFlows DEF Ends, Only
<1>8. ASSUME \/ \E a \in Agents : \E hi \in 1..MaxSamples[a] : Send(a, hi)
             \/ \E r \in DOMAIN Rules : Switch(r)
             \/ \E a \in Agents : CreateHost(NameOf[a])
             \/ CacheAges
             \/ \E a \in Agents : \E n \in DOMAIN jobs[a] : Stall(a, n)
      PROVE  FALSE
  BY <1>8 DEF Send, Switch, CreateHost, CacheAges, Stall
<1> QED
  BY <1>2, <1>3, <1>4, <1>5, <1>6, <1>7, <1>8 DEF NextIngest, Bridge

LEMMA FiringTracks ==
    ASSUME TypeInv, NextIngest, ~ WorkerCrash, NEW w \in Workers, Fires(w)
    PROVE  Track(w)
<1>1. Evaluating(handlers[w]) /\ handlers'[w] # handlers[w] /\ handlers[w].at = "track"
  BY DEF Fires, Evaluating
<1> QED
  BY <1>1, EvaluatingMoves DEF Publish, JobFails

\* Enough evidence for an event of the rule.
Enough(rule, a, B) == IsFiniteSet(B) /\ rule.need <= Cardinality(Evidence(rule, a, B))

LEMMA EnoughStays ==
    ASSUME TypeInv, IngestOK', Flow, NEW i \in Indexes, NEW a \in Agents, NEW B \in SUBSET Nat,
           Enough(RuleAt(i), a, B)
    PROVE  Enough(RuleAt(i), a, B)'
<1>1. RuleAt(i).need \in Int /\ IsFiniteSet(B)
  BY RulesTyped DEF Enough
<1>2. /\ Cardinality(Evidence(RuleAt(i), a, B)) \in Nat
      /\ Cardinality(Evidence(RuleAt(i), a, B)') \in Nat
      /\ Cardinality(Evidence(RuleAt(i), a, B)) <= Cardinality(Evidence(RuleAt(i), a, B)')
  BY <1>1, EvidenceCounts
<1>3. RuleAt(i).need <= Cardinality(Evidence(RuleAt(i), a, B)')
  BY <1>1, <1>2 DEF Enough
<1> QED
  BY <1>1, <1>3 DEF Enough

LEMMA PublishEarnedIs ==
    PublishEarned <=>
        \A w \in Workers, a \in Agents :
            handlers[w].at = "publish" /\ handlers[w].agent = {a} =>
                Enough(RuleAt(handlers[w].rule), a, handlers[w].by)
  BY DEF PublishEarned, Enough

\* A handler fires on a count that has just been shown to be earned.
LEMMA FiresOnEnough ==
    ASSUME TypeInv, IngestOK', Flow, CountsEarned', NEW w \in Workers, Track(w), Fires(w),
           NEW a \in Agents, handlers[w].agent = {a}
    PROVE  \E i \in Indexes, B \in SUBSET Nat :
              i = handlers'[w].rule /\ B = handlers'[w].by /\ Enough(RuleAt(i), a, B)'
<1>1. IngestOK /\ handlers[w].rule \in Indexes
  BY HandlersTyped DEF TypeInv
<1> DEFINE count == NextCount(Key(handlers[w].rule, a), RuleAt(handlers[w].rule),
                              handlers[w].sample, values[<<a, handlers[w].sample>>])
<1>2. /\ counts' = [counts EXCEPT ![Key(handlers[w].rule, a)] = count]
      /\ count.n >= RuleAt(handlers[w].rule).need /\ handlers'[w].by = count.by
  <2>1. PICK b \in Agents :
          LET h == handlers[w]
              count2 == NextCount(Key(h.rule, b), RuleAt(h.rule), h.sample, values[<<b, h.sample>>])
          IN  /\ h.at = "track" /\ h.agent = {b}
              /\ counts' = [counts EXCEPT ![Key(h.rule, b)] = count2]
              /\ IF count2.n >= RuleAt(h.rule).need
                 THEN Fires(w) /\ handlers'[w].by = count2.by
                 ELSE Advances(w) \/ Ends(w, "completed")
    BY TrackFlows
  <2>2. b = a
    BY <2>1
  <2>3. ~ Advances(w) /\ ~ Ends(w, "completed")
    BY DEF Fires, Advances, Ends, Moves, Idle
  <2> QED
    BY <2>1, <2>2, <2>3
<1>3. Key(handlers[w].rule, a) \in Keys /\ handlers[w].sample \in Nat
  BY <1>1, HandlersTyped DEF Keys, Key
<1>4. count \in CountRec
  BY <1>1, <1>3, CountTyped
<1> HIDE DEF count
<1>5. PICK i \in Indexes, B \in SUBSET Nat, m \in Nat :
        i = handlers[w].rule /\ B = count.by /\ m = count.n
  BY <1>1, <1>4 DEF CountRec
<1>6. counts'[Key(i, a)] = count
  <2>1. counts \in [Keys -> CountRec]
    BY <1>1 DEF IngestOK, CountRec
  <2> QED
    BY <1>2, <1>3, <1>5, <2>1
<1>7. /\ IsFiniteSet(B) /\ m <= Cardinality(Seen(RuleAt(i), a, counts[Key(i, a)].by)')
  BY <1>5, <1>6 DEF CountsEarned, Key
<1>8. Seen(RuleAt(i), a, B)' = Seen(RuleAt(i), a, counts[Key(i, a)].by)'
  BY <1>5, <1>6 DEF Seen, Evidence, Deliveries, Through, Over, Handled, Key
<1>9. /\ Cardinality(Seen(RuleAt(i), a, B)') \in Nat /\ Cardinality(Evidence(RuleAt(i), a, B)') \in Nat
      /\ Cardinality(Seen(RuleAt(i), a, B)') <= Cardinality(Evidence(RuleAt(i), a, B)')
  BY <1>7, EvidenceCounts
<1>10. RuleAt(i).need \in Int /\ m >= RuleAt(i).need
  BY <1>2, <1>5, RulesTyped
<1>11. RuleAt(i).need <= Cardinality(Evidence(RuleAt(i), a, B)')
  BY <1>7, <1>8, <1>9, <1>10
<1>12. handlers'[w].rule = i /\ handlers'[w].by = B
  BY <1>2, <1>5 DEF Fires
<1> QED
  BY <1>7, <1>11, <1>12 DEF Enough

LEMMA PublishStep ==
    ASSUME TypeInv, IngestOK', PublishEarned, CountsEarned', NextIngest, ~ WorkerCrash
    PROVE  PublishEarned'
<1>1. Flow /\ IngestOK
  BY StepFlows DEF TypeInv
<1>2. ASSUME NEW v \in Workers, NEW a \in Agents, handlers'[v].at = "publish", handlers'[v].agent = {a}
      PROVE  \E i \in Indexes, B \in SUBSET Nat :
                i = handlers'[v].rule /\ B = handlers'[v].by /\ Enough(RuleAt(i), a, B)'
  <2>1. CASE handlers'[v] = handlers[v]
    <3>1. PICK i \in Indexes, B \in SUBSET Nat : i = handlers[v].rule /\ B = handlers[v].by
      BY <1>1, HandlersTyped
    <3>2. Enough(RuleAt(i), a, B)
      BY <1>2, <2>1, <3>1, PublishEarnedIs
    <3>3. Enough(RuleAt(i), a, B)'
      BY <1>1, <3>2, EnoughStays
    <3> QED
      BY <2>1, <3>1, <3>3
  <2>2. CASE handlers'[v] # handlers[v]
    <3>1. Fires(v)
      <4>1. \A w \in Workers, b \in Agents : \A n \in DOMAIN jobs[b] : ~ Takes(w, b, n)
        BY <1>2, <2>2 DEF Takes, Only
      <4>2. \A w \in Workers : ~ Readies(w) /\ ~ Loads(w) /\ ~ Advances(w)
        BY <1>2, <2>2 DEF Readies, Loads, Advances, Moves, JobsKept, Only
      <4>3. \A w \in Workers, x \in {"completed", "failed"} : ~ Ends(w, x)
        BY <1>2, <2>2, IdleTyped DEF Ends, Only
      <4>4. \A w \in Workers : Fires(w) => w = v
        BY <2>2 DEF Fires, JobsKept, Only
      <4> QED
        BY <1>1, <2>2, <4>1, <4>2, <4>3, <4>4 DEF Flow, Moved
    <3>2. Track(v)
      BY <3>1, FiringTracks
    <3>3. handlers[v].agent = {a}
      BY <1>2, <3>1 DEF Fires, JobsKept
    <3> QED
      BY <1>1, <3>1, <3>2, <3>3, FiresOnEnough
  <2> QED
    BY <2>1, <2>2
<1>3. ASSUME NEW v \in Workers, NEW a \in Agents, handlers'[v].at = "publish", handlers'[v].agent = {a}
      PROVE  /\ IsFiniteSet(handlers'[v].by)
             /\ RuleAt(handlers'[v].rule).need
                  <= Cardinality(Evidence(RuleAt(handlers[v].rule), a, handlers[v].by)')
  <2>1. PICK i \in Indexes, B \in SUBSET Nat :
          i = handlers'[v].rule /\ B = handlers'[v].by /\ Enough(RuleAt(i), a, B)'
    BY <1>2, <1>3
  <2>2. Evidence(RuleAt(i), a, B)' = Evidence(RuleAt(handlers[v].rule), a, handlers[v].by)'
    BY <2>1 DEF Evidence, Deliveries, Counting, Sharing, RuleAt
  <2> QED
    BY <2>1, <2>2 DEF Enough
<1> QED
  BY <1>3 DEF PublishEarned, RuleAt

EventsAreEarned == \A e \in raised : Enough(e.rule, e.agent, e.by)

LEMMA EventsEarnedIs == EventsAreEarned <=> RaisedFinite /\ FiresEarned
  BY DEF EventsAreEarned, RaisedFinite, FiresEarned, Enough

LEMMA EventTyped ==
    ASSUME IngestOK, NEW e \in raised
    PROVE  \E i \in Indexes, a \in Agents, B \in SUBSET Nat :
              e.rule = RuleAt(i) /\ e.agent = a /\ e.by = B
<1>1. e \in [rule : {RuleAt(i) : i \in Indexes}, agent : Agents, by : SUBSET Nat]
  BY DEF IngestOK
<1>2. e.rule \in {RuleAt(i) : i \in Indexes} /\ e.agent \in Agents /\ e.by \in SUBSET Nat
  BY <1>1
<1> QED
  BY <1>2

LEMMA EventsStep ==
    ASSUME TypeInv, IngestOK', EarnedInv, NextIngest, ~ WorkerCrash
    PROVE  EventsAreEarned'
<1>1. Flow /\ IngestOK /\ EventsAreEarned
  BY StepFlows, EventsEarnedIs DEF TypeInv, EarnedInv
<1>2. ASSUME NEW e \in raised
      PROVE  Enough(e.rule, e.agent, e.by)'
  <2>1. PICK i \in Indexes, a \in Agents, B \in SUBSET Nat :
          e.rule = RuleAt(i) /\ e.agent = a /\ e.by = B
    BY <1>1, EventTyped
  <2>2. Enough(RuleAt(i), a, B)
    BY <1>1, <2>1 DEF EventsAreEarned
  <2>3. Enough(RuleAt(i), a, B)'
    BY <1>1, <2>2, EnoughStays
  <2> QED
    BY <2>1, <2>3 DEF Enough, Evidence, Deliveries
<1>3. ASSUME NEW w \in Workers, Publish(w), NEW e \in raised', e \notin raised
      PROVE  Enough(e.rule, e.agent, e.by)'
  <2>1. PICK a \in Agents :
          /\ handlers[w].at = "publish" /\ handlers[w].agent = {a}
          /\ raised' = raised \cup {[rule |-> RuleAt(handlers[w].rule), agent |-> a,
                                     by |-> handlers[w].by]}
    BY <1>3, PublishFlows
  <2>2. PICK i \in Indexes, B \in SUBSET Nat : i = handlers[w].rule /\ B = handlers[w].by
    BY <1>1, HandlersTyped
  <2>3. Enough(RuleAt(i), a, B)
    BY <2>1, <2>2, PublishEarnedIs DEF EarnedInv
  <2>4. Enough(RuleAt(i), a, B)'
    BY <1>1, <2>3, EnoughStays
  <2>5. e.rule = RuleAt(i) /\ e.agent = a /\ e.by = B
    BY <1>3, <2>1, <2>2
  <2> QED
    BY <2>4, <2>5 DEF Enough, Evidence, Deliveries
<1>4. (\E w \in Workers : Publish(w)) \/ raised' = raised
  BY DEF NextIngest, Send, TakeJob, Stall, Switch, CreateHost, CacheAges, Find, Insert, Link,
     BridgeContainers, LoadRules, Track, JobFails
<1>5. \A e \in raised' : Enough(e.rule, e.agent, e.by)'
  BY <1>2, <1>3, <1>4
<1> QED
  BY <1>5 DEF EventsAreEarned, Enough, Evidence, Deliveries

LEMMA EarnedAfterCrash ==
    ASSUME TypeInv, IngestOK', EarnedInv, WorkerCrash
    PROVE  CountsEarned' /\ PublishEarned' /\ EventsAreEarned'
<1>1. IngestOK /\ jobs' \in [Agents -> Seq(JobRec)]
  BY Crashed DEF TypeInv
<1>2. /\ \A a \in Agents : DOMAIN jobs'[a] = DOMAIN jobs[a]
      /\ \A a \in Agents : \A n \in DOMAIN jobs[a] :
            jobs'[a][n].hi = jobs[a][n].hi /\ jobs[a][n].run <= jobs'[a][n].run
      /\ handlers' = [w \in Workers |-> Idle] /\ counts' = [k \in Keys |-> Unseen]
  BY <1>1, Crashed
<1>3. CountsEarned'
  <2>1. ASSUME NEW i \in Indexes, NEW a \in Agents
        PROVE  /\ IsFiniteSet(counts'[Key(i, a)].by)
               /\ counts'[Key(i, a)].n <= Cardinality(Seen(RuleAt(i), a, counts[Key(i, a)].by)')
    <3>1. counts'[Key(i, a)] = Unseen
      BY <1>2 DEF Keys, Key
    <3>2. counts'[Key(i, a)].by = {} /\ counts'[Key(i, a)].n = 0
      BY <3>1 DEF Unseen
    <3>3. IsFiniteSet({}) /\ IsFiniteSet(Evidence(RuleAt(i), a, {})')
      BY <1>1, FS_EmptySet, EvidenceNext
    <3>4. Seen(RuleAt(i), a, {})' \subseteq Evidence(RuleAt(i), a, {})'
      BY DEF Seen
    <3>5. Cardinality(Seen(RuleAt(i), a, {})') \in Nat
      BY <3>3, <3>4, FS_Subset, FS_CardinalityType
    <3>6. Seen(RuleAt(i), a, {})' = Seen(RuleAt(i), a, counts[Key(i, a)].by)'
      BY <3>2 DEF Seen, Evidence, Deliveries, Through, Over, Handled, Key
    <3> QED
      BY <3>2, <3>3, <3>5, <3>6
  <2> QED
    BY <2>1 DEF CountsEarned, Key
<1>4. PublishEarned'
  BY <1>2, IdleTyped DEF PublishEarned
<1>5. EventsAreEarned'
  <2>1. raised' = raised /\ EventsAreEarned
    BY EventsEarnedIs DEF WorkerCrash, EarnedInv
  <2>2. ASSUME NEW e \in raised
        PROVE  Enough(e.rule, e.agent, e.by)'
    <3>1. PICK i \in Indexes, a \in Agents, B \in SUBSET Nat :
            e.rule = RuleAt(i) /\ e.agent = a /\ e.by = B
      BY <1>1, EventTyped
    <3>2. Enough(RuleAt(i), a, B)
      BY <2>1, <3>1 DEF EventsAreEarned
    <3>3. Deliveries(a, B) \subseteq Deliveries(a, B)'
      <4>1. ASSUME NEW n \in DOMAIN jobs[a], NEW m \in 1..2, NEW k \in B,
                   m <= jobs[a][n].run, k \in n..jobs[a][n].hi
            PROVE  <<n, m, k>> \in Deliveries(a, B)'
        <5>1. jobs[a][n].run \in 1..2 /\ jobs'[a][n].run \in 1..2
          <6>1. jobs'[a] \in Seq(JobRec) /\ n \in DOMAIN jobs'[a]
            BY <1>1, <1>2
          <6>2. jobs'[a][n] \in JobRec
            BY <6>1
          <6> QED
            BY <1>1, <6>2, JobsTyped DEF JobRec
        <5>2. m <= jobs'[a][n].run /\ k \in n..jobs'[a][n].hi /\ n \in DOMAIN jobs'[a]
          BY <1>2, <4>1, <5>1
        <5> QED
          BY <5>2 DEF Deliveries
      <4> QED
        BY <4>1 DEF Deliveries
    <3>4. Evidence(RuleAt(i), a, B) \subseteq Evidence(RuleAt(i), a, B)'
      BY <3>3 DEF Evidence
    <3>5. IsFiniteSet(B) /\ IsFiniteSet(Evidence(RuleAt(i), a, B)')
      BY <1>1, <3>2, EvidenceNext DEF Enough
    <3>6. /\ Cardinality(Evidence(RuleAt(i), a, B)) <= Cardinality(Evidence(RuleAt(i), a, B)')
          /\ Cardinality(Evidence(RuleAt(i), a, B)) \in Nat
          /\ Cardinality(Evidence(RuleAt(i), a, B)') \in Nat
      BY <3>4, <3>5, FS_Subset, FS_CardinalityType
    <3>7. RuleAt(i).need <= Cardinality(Evidence(RuleAt(i), a, B)')
      BY <3>2, <3>6, RulesTyped DEF Enough
    <3> QED
      BY <3>1, <3>5, <3>7 DEF Enough, Evidence, Deliveries
  <2> QED
    BY <2>1, <2>2 DEF EventsAreEarned, Enough, Evidence, Deliveries
<1> QED
  BY <1>3, <1>4, <1>5

LEMMA EarnedStep ==
    ASSUME TypeInv, IngestOK', EarnedInv, NextIngest
    PROVE  EarnedInv'
<1>1. CountsEarned' /\ PublishEarned' /\ EventsAreEarned'
  BY CountsStep, PublishStep, EventsStep, EarnedAfterCrash DEF EarnedInv
<1>2. EventsAreEarned' => RaisedFinite' /\ FiresEarned'
  BY DEF EventsAreEarned, RaisedFinite, FiresEarned, Enough
<1> QED
  BY <1>1, <1>2 DEF EarnedInv

-----------------------------------------------------------------------------
(* Alarms *)

LEMMA RulesStep ==
    ASSUME TypeInv, RulesKept, NextIngest
    PROVE  RulesKept' /\ Steady' \subseteq Steady
<1>1. IngestOK /\ Steady' \subseteq Steady
  <2>1. CASE \E r \in DOMAIN Rules : Switch(r)
    <3>1. PICK r \in DOMAIN Rules : Switch(r)
      BY <2>1
    <3>2. switched' = switched \cup {r} /\ enabled' \subseteq enabled \cup {r}
      BY <3>1 DEF Switch
    <3> QED
      BY <3>2 DEF Steady, TypeInv
  <2>2. CASE UNCHANGED <<enabled, switched>>
    BY <2>2 DEF Steady, TypeInv
  <2> QED
    BY <2>1, <2>2 DEF NextIngest, Send, TakeJob, Stall, CreateHost, CacheAges, Find, Insert, Link,
       BridgeContainers, LoadRules, Track, Publish, JobFails, WorkerCrash
<1>2. Steady \subseteq Loaded
  BY DEF RulesKept, Loaded, Steady
<1>3. rulesCache'.fresh => Steady' \subseteq rulesCache'.rules
  <2>1. CASE \E w \in Workers : LoadRules(w)
    <3>1. rulesCache' = [rules |-> Loaded, fresh |-> TRUE]
      BY <2>1 DEF LoadRules
    <3>2. rulesCache'.rules = Loaded
      BY <3>1
    <3> QED
      BY <1>1, <1>2, <3>2
  <2>2. CASE CacheAges \/ WorkerCrash
    <3>1. [rulesCache EXCEPT !.fresh = FALSE].fresh = FALSE
      BY <1>1 DEF IngestOK
    <3>2. \/ rulesCache' = [rulesCache EXCEPT !.fresh = FALSE]
          \/ rulesCache' = [rules |-> {}, fresh |-> FALSE]
      BY <2>2 DEF CacheAges, WorkerCrash
    <3>3. rulesCache'.fresh = FALSE
      <4>1. [rules |-> {}, fresh |-> FALSE].fresh = FALSE
        OBVIOUS
      <4> QED
        BY <3>1, <3>2, <4>1, Zenon
    <3> QED
      BY <3>3
  <2>3. CASE rulesCache' = rulesCache
    BY <1>1, <2>3 DEF RulesKept
  <2> QED
    BY <2>1, <2>2, <2>3 DEF NextIngest, Send, TakeJob, Stall, Switch, CreateHost, Find, Insert,
       Link, BridgeContainers, Track, Publish, JobFails
<1>4. ASSUME NEW v \in Workers, Evaluating(handlers'[v])
      PROVE  Steady' \subseteq handlers'[v].rules
  <2>1. CASE WorkerCrash
    BY <1>1, <1>4, <2>1, Crashed, IdleTyped
  <2>2. CASE ~ WorkerCrash /\ \E w \in Workers : LoadRules(w)
    <3>1. PICK w \in Workers : LoadRules(w)
      BY <2>2
    <3>2. Loads(w) /\ handlers'[w].rules = IF Loaded = {} THEN {0} ELSE Loaded
      BY <3>1, LoadFlows
    <3>3. Steady \subseteq handlers'[w].rules
      BY <1>2, <3>2
    <3>4. CASE v = w
      BY <1>1, <3>3, <3>4
    <3>5. CASE v # w
      <4>1. handlers'[v] = handlers[v]
        BY <3>2, <3>5 DEF Loads, JobsKept, Only
      <4> QED
        BY <1>1, <1>4, <4>1 DEF RulesKept
    <3> QED
      BY <3>4, <3>5
  <2>3. CASE ~ WorkerCrash /\ ~ \E w \in Workers : LoadRules(w)
    <3>1. Evaluating(handlers[v]) /\ handlers'[v].rules = handlers[v].rules
      <4>1. CASE handlers'[v] = handlers[v]
        BY <1>4, <4>1
      <4>2. CASE handlers'[v] # handlers[v]
        <5>1. ASSUME NEW w \in Workers, Readies(w)
              PROVE  ~ Evaluating(handlers'[w]) /\ \A u \in Workers : u # w => handlers'[u] = handlers[u]
          BY <5>1 DEF Readies, JobsKept, Only, Evaluating
        <5>2. ASSUME NEW w \in Workers, NEW a \in Agents, NEW n \in DOMAIN jobs[a], TakeJob(w, a, n)
              PROVE  ~ Evaluating(handlers'[w]) /\ \A u \in Workers : u # w => handlers'[u] = handlers[u]
          BY <5>2, TakeFlows DEF Takes, Only, Evaluating
        <5>3. ASSUME NEW w \in Workers, Ends(w, "completed") \/ Ends(w, "failed")
              PROVE  ~ Evaluating(handlers'[w]) /\ \A u \in Workers : u # w => handlers'[u] = handlers[u]
          BY <5>3, IdleTyped DEF Ends, Only
        <5>4. ASSUME NEW w \in Workers, Fires(w) \/ Advances(w)
              PROVE  /\ Evaluating(handlers[w]) /\ handlers'[w].rules = handlers[w].rules
                     /\ \A u \in Workers : u # w => handlers'[u] = handlers[u]
          BY <5>4 DEF Fires, Advances, Moves, JobsKept, Only, Evaluating
        <5>5. ASSUME NEW w \in Workers, Bridge(w)
              PROVE  Readies(w)
          BY <5>5, BridgeFlows
        <5>6. ASSUME NEW w \in Workers, Track(w) \/ Publish(w) \/ JobFails(w)
              PROVE  Fires(w) \/ Advances(w) \/ Ends(w, "completed") \/ Ends(w, "failed")
          BY <5>6, TrackFlows, PublishFlows, FailFlows
        <5>7. ~ \/ \E a \in Agents : \E hi \in 1..MaxSamples[a] : Send(a, hi)
                \/ \E r \in DOMAIN Rules : Switch(r)
                \/ \E a \in Agents : CreateHost(NameOf[a])
                \/ CacheAges
                \/ \E a \in Agents : \E n \in DOMAIN jobs[a] : Stall(a, n)
          BY <4>2 DEF Send, Switch, CreateHost, CacheAges, Stall
        <5> QED
          BY <1>4, <2>3, <4>2, <5>1, <5>2, <5>3, <5>4, <5>5, <5>6, <5>7 DEF NextIngest, Bridge
      <4> QED
        BY <4>1, <4>2
    <3> QED
      BY <1>1, <3>1 DEF RulesKept
  <2> QED
    BY <2>1, <2>2, <2>3
<1> QED
  BY <1>1, <1>3, <1>4 DEF RulesKept, Evaluating

\* A handler that comes to a rule of its list has been through no sample under it
\* that it had not been through before.
LEMMA PastBefore ==
    ASSUME TypeInv, NEW w \in Workers, Fires(w) \/ Advances(w), NEW r \in handlers[w].rules, r # 0,
           NEW k \in Nat, Past(handlers'[w], r, k)
    PROVE  \/ Past(handlers[w], r, k)
           \/ handlers[w].at = "track" /\ handlers[w].rule = r /\ k = handlers[w].sample
<1>1. IngestOK /\ Evaluating(handlers[w]) /\ handlers[w].at # "idle"
  BY DEF TypeInv, Fires, Advances, Evaluating
<1>2. /\ handlers[w].rule \in handlers[w].rules /\ handlers[w].rule \in Nat
      /\ handlers[w].sample \in Nat /\ r \in Nat /\ handlers[w].rules \subseteq Nat
      /\ 0 \notin handlers[w].rules
  BY <1>1, Busy, HandlersTyped, RulesTyped
<1>3. CASE Fires(w)
  <2>1. /\ handlers[w].at = "track" /\ handlers'[w].sample = handlers[w].sample
        /\ handlers'[w].rule = handlers[w].rule
    BY <1>3 DEF Fires
  <2> QED
    BY <1>1, <1>2, <2>1 DEF Past
<1>4. CASE Advances(w)
  <2>1. PICK hi : Moves(handlers[w], handlers'[w], hi)
    BY <1>4 DEF Advances
  <2>2. handlers'[w].at = "track" /\ handlers'[w].rule \in handlers[w].rules /\ handlers'[w].rule \in Nat
    BY <1>2, <2>1 DEF Moves
  <2>3. \/ k < handlers'[w].sample
        \/ k = handlers'[w].sample /\ r < handlers'[w].rule
    BY <2>2 DEF Past
  <2>4. CASE handlers'[w].sample = handlers[w].sample /\ \A s \in handlers[w].rules :
                handlers[w].rule < s => handlers'[w].rule <= s
    <3>1. r < handlers'[w].rule => r = handlers[w].rule \/ r < handlers[w].rule
      BY <1>2, <2>2, <2>4
    <3> QED
      BY <1>1, <1>2, <2>3, <2>4, <3>1 DEF Past, Evaluating
  <2>5. CASE handlers'[w].sample = handlers[w].sample + 1 /\ \A s \in handlers[w].rules :
                s <= handlers[w].rule /\ handlers'[w].rule <= s
    <3>1. ~ (r < handlers'[w].rule) /\ (r = handlers[w].rule \/ r < handlers[w].rule)
      BY <1>2, <2>2, <2>5
    <3>2. k < handlers[w].sample \/ k = handlers[w].sample
      BY <1>2, <2>3, <2>5, <3>1
    <3> QED
      BY <1>1, <1>2, <3>1, <3>2 DEF Past, Evaluating
  <2> QED
    BY <2>1, <2>4, <2>5 DEF Moves
<1> QED
  BY <1>3, <1>4

\* While nothing goes wrong, what has been through a rule that is enabled all the time
\* either was so or is tracked under it now.
LEMMA ThroughBefore ==
    ASSUME TypeInv, NothingStalled', RulesKept, RulesKept', NextIngest, mishaps' = 0,
           NEW a \in Agents, NEW r \in Steady, r \in Steady', NEW n \in DOMAIN jobs'[a],
           NEW k \in Nat, k \in n..jobs'[a][n].hi, Through(a, n, 1, r, k)'
    PROVE  /\ n \in DOMAIN jobs[a]
           /\ \/ Through(a, n, 1, r, k)
              \/ \E w \in Workers : /\ Track(w) /\ handlers[w].rule = r /\ handlers[w].agent = {a}
                                    /\ k = handlers[w].sample
<1>1. /\ IngestOK /\ ~ WorkerCrash /\ \A w \in Workers : ~ JobFails(w)
      /\ Flow /\ r \in DOMAIN Rules /\ r # 0 /\ r \in Nat
      /\ \A b \in Agents : \A m \in DOMAIN jobs[b] : jobs[b][m].run = 1 /\ jobs[b][m].at # "failed"
  <2>1. ~ WorkerCrash /\ \A w \in Workers : ~ JobFails(w)
    BY NothingWrong
  <2> QED
    BY <2>1, NothingWrong, StepFlows, RulesTyped DEF TypeInv, IngestOK, Steady, NothingStalled
<1>2. /\ \A v \in Workers : Evaluating(handlers[v]) => r \in handlers[v].rules
      /\ \A v \in Workers : Evaluating(handlers'[v]) => r \in handlers'[v].rules
  BY DEF RulesKept, Evaluating
<1>3. \/ jobs'[a][n].at = "completed" /\ ~ Handled(a, n, 1)'
      \/ \E v \in Workers : Handles(v, a, n, 1)' /\ Past(handlers'[v], r, k)
  <2>1. jobs'[a][n].run = 1 /\ jobs'[a][n].at # "failed"
    BY DEF NothingStalled
  <2> QED
    BY <2>1 DEF Through, Over, Past, Evaluating
<1>4. CASE \E b \in Agents, hi \in Nat : Sends(b, hi) /\ UNCHANGED handlers
  <2>1. PICK b \in Agents, hi \in Nat : Sends(b, hi) /\ UNCHANGED handlers
    BY <1>4
  <2>2. CASE n \in DOMAIN jobs[a]
    <3>1. jobs'[a][n] = jobs[a][n]
      BY <2>1, <2>2 DEF Sends
    <3> QED
      BY <1>3, <2>1, <2>2, <3>1 DEF Through, Over, Handled, Handles
  <2>3. CASE n \notin DOMAIN jobs[a]
    <3>1. jobs'[a][n].at = "waiting"
      BY <2>1, <2>3 DEF Sends
    <3>2. PICK v \in Workers : Handles(v, a, n, 1) /\ Evaluating(handlers[v])
      BY <1>3, <2>1, <3>1 DEF Past, Handles
    <3>3. n \in DOMAIN jobs[a]
      BY <3>2, Busy DEF Evaluating, Handles
    <3> QED
      BY <2>3, <3>3
  <2> QED
    BY <2>2, <2>3
<1>5. ASSUME NEW w \in Workers, NEW b \in Agents, NEW m \in DOMAIN jobs[b], Takes(w, b, m)
      PROVE  n \in DOMAIN jobs[a] /\ Through(a, n, 1, r, k)
  <2>1. n \in DOMAIN jobs[a]
    BY <1>5 DEF Takes, Marks
  <2>2. jobs'[a][n].at = "completed" => jobs[a][n].at = "completed"
    BY <1>5, <2>1 DEF Takes, Marks
  <2>3. /\ \A v \in Workers : Evaluating(handlers'[v]) => handlers'[v] = handlers[v]
        /\ \A v \in Workers : Handles(v, a, n, 1) => Handles(v, a, n, 1)'
    BY <1>5, IdleTyped DEF Takes, Only, Evaluating, Handles
  <2> QED
    BY <1>3, <2>1, <2>2, <2>3 DEF Through, Over, Handled, Handles, Past
<1>6. ASSUME NEW w \in Workers, JobsKept(w)
      PROVE  /\ jobs' = jobs /\ \A v \in Workers : v # w => handlers'[v] = handlers[v]
             /\ \A v \in Workers : Handles(v, a, n, 1) <=> Handles(v, a, n, 1)'
  BY <1>6 DEF JobsKept, Only, Handles
<1>7. ASSUME NEW w \in Workers, Readies(w)
      PROVE  n \in DOMAIN jobs[a] /\ Through(a, n, 1, r, k)
  <2>1. JobsKept(w)
    BY <1>7 DEF Readies
  <2>2. \A v \in Workers : Evaluating(handlers'[v]) => handlers'[v] = handlers[v]
    BY <1>7 DEF Readies, JobsKept, Only, Evaluating
  <2> QED
    BY <1>3, <1>6, <2>1, <2>2 DEF Through, Over, Handled, Handles, Past
<1>8. ASSUME NEW w \in Workers, Loads(w)
      PROVE  n \in DOMAIN jobs[a] /\ Through(a, n, 1, r, k)
  <2>1. JobsKept(w)
    BY <1>8 DEF Loads
  <2>2. /\ handlers[w].at = "rules" /\ handlers'[w].at = "track"
        /\ handlers'[w].sample = handlers[w].sample /\ handlers'[w].rule <= r
        /\ handlers'[w].rule \in handlers'[w].rules /\ handlers'[w].rules \subseteq Nat
    BY <1>2, <1>8, RulesTyped DEF Loads, JobsKept, Evaluating
  <2>3. Handles(w, a, n, 1) => ~ Past(handlers'[w], r, k)
    <3>1. SUFFICES ASSUME handlers[w].agent = {a}, handlers[w].job = n
                   PROVE  ~ Past(handlers'[w], r, k)
      BY DEF Handles
    <3>2. handlers[w].sample = n
      BY <2>2, <3>1, Busy DEF Evaluating
    <3>3. n \in Nat /\ n <= k /\ handlers'[w].rule \in Nat
      BY <1>1, <1>6, <2>1, <2>2, JobsTyped
    <3> QED
      BY <1>1, <2>2, <3>2, <3>3 DEF Past
  <2> QED
    BY <1>3, <1>6, <2>1, <2>3 DEF Through, Over, Handled, Handles
<1>9. ASSUME NEW w \in Workers, handlers[w].at = "track",
             Fires(w) \/ Advances(w) \/ Ends(w, "completed")
      PROVE  Track(w)
  <2>1. Evaluating(handlers[w]) /\ handlers'[w] # handlers[w]
    <3>1. CASE Fires(w)
      BY <1>9, <3>1 DEF Fires, Evaluating
    <3>2. CASE Ends(w, "completed")
      BY <1>9, <3>2, IdleTyped DEF Ends, Evaluating
    <3>3. CASE Advances(w)
      <4>1. PICK hi : Moves(handlers[w], handlers'[w], hi)
        BY <3>3 DEF Advances
      <4>2. handlers[w].sample \in Nat /\ handlers[w].rule \in Nat
        BY <1>1, HandlersTyped, RulesTyped
      <4> QED
        BY <1>9, <4>1, <4>2 DEF Moves, Evaluating
    <3> QED
      BY <1>9, <3>1, <3>2, <3>3
  <2> QED
    BY <1>1, <1>9, <2>1, EvaluatingMoves DEF Publish
<1>10. ASSUME NEW w \in Workers, Fires(w) \/ Advances(w)
       PROVE  /\ n \in DOMAIN jobs[a]
              /\ \/ Through(a, n, 1, r, k)
                 \/ /\ Track(w) /\ handlers[w].rule = r /\ handlers[w].agent = {a}
                    /\ k = handlers[w].sample
  <2>1. JobsKept(w) /\ Evaluating(handlers[w])
    BY <1>10 DEF Fires, Advances, Evaluating
  <2>2. ASSUME Handles(w, a, n, 1), Past(handlers'[w], r, k)
        PROVE  \/ Through(a, n, 1, r, k)
               \/ /\ Track(w) /\ handlers[w].rule = r /\ handlers[w].agent = {a}
                  /\ k = handlers[w].sample
    <3>1. \/ Past(handlers[w], r, k)
          \/ handlers[w].at = "track" /\ handlers[w].rule = r /\ k = handlers[w].sample
      BY <1>1, <1>2, <1>10, <2>1, <2>2, PastBefore
    <3> QED
      BY <1>9, <1>10, <2>2, <3>1 DEF Through, Handles
  <2> QED
    BY <1>3, <1>6, <2>1, <2>2 DEF Through, Over, Handled
<1>11. ASSUME NEW w \in Workers, Ends(w, "completed")
       PROVE  /\ n \in DOMAIN jobs[a]
              /\ \/ Through(a, n, 1, r, k)
                 \/ /\ Track(w) /\ handlers[w].rule = r /\ handlers[w].agent = {a}
                    /\ k = handlers[w].sample
  <2>1. PICK b \in Agents :
          /\ handlers[w].agent = {b}
          /\ IF HasLock(handlers[w], b) THEN Marks(b, handlers[w].job, "completed")
             ELSE UNCHANGED jobs
          /\ Evaluating(handlers[w]) /\ EndsJob(handlers[w], jobs[b][handlers[w].job].hi)
    BY <1>11 DEF Ends
  <2>2. n \in DOMAIN jobs[a] /\ jobs'[a][n].hi = jobs[a][n].hi
    BY <2>1 DEF Marks
  <2>3. \A v \in Workers : v # w => handlers'[v] = handlers[v]
    BY <1>11 DEF Ends, Only
  <2>4. CASE b = a /\ n = handlers[w].job
    <3>1. /\ k <= handlers[w].sample /\ r <= handlers[w].rule
          /\ handlers[w].sample \in Nat /\ handlers[w].rule \in Nat
      <4>1. /\ handlers[w].sample \in Nat /\ handlers[w].rule \in Nat
            /\ jobs[a][n].hi \in Nat /\ n \in Nat
        BY <1>1, <2>2, HandlersTyped, RulesTyped, JobsTyped
      <4> QED
        BY <1>2, <2>1, <2>2, <2>4, <4>1 DEF EndsJob
    <3>2. \/ Past(handlers[w], r, k)
          \/ handlers[w].at = "track" /\ handlers[w].rule = r /\ k = handlers[w].sample
      BY <1>1, <2>1, <3>1 DEF Past, Evaluating
    <3>3. Handles(w, a, n, 1)
      <4>1. handlers[w].run \in 1..jobs[a][n].run
        BY <2>1, <2>4, Busy DEF Evaluating
      <4> QED
        BY <1>1, <2>1, <2>2, <2>4, <4>1 DEF Handles
    <3> QED
      BY <1>9, <1>11, <2>1, <2>2, <2>4, <3>2, <3>3 DEF Through
  <2>5. CASE ~ (b = a /\ n = handlers[w].job)
    <3>1. jobs'[a][n].at = jobs[a][n].at
      BY <2>1, <2>2, <2>5 DEF Marks
    <3>2. \A v \in Workers : Evaluating(handlers'[v]) => handlers'[v] = handlers[v]
      BY <1>11, <2>3, IdleTyped DEF Ends
    <3>3. \A v \in Workers : Handles(v, a, n, 1) => Handles(v, a, n, 1)'
      BY <2>1, <2>3, <2>5 DEF Handles
    <3> QED
      BY <1>3, <2>2, <3>1, <3>2, <3>3 DEF Through, Over, Handled, Handles, Past
  <2> QED
    BY <2>4, <2>5
<1>12. CASE UNCHANGED <<jobs, handlers>>
  BY <1>3, <1>12 DEF Through, Over, Handled, Handles
<1>13. CASE \E w \in Workers, b \in Agents : \E m \in DOMAIN jobs[b] : Takes(w, b, m)
  BY <1>5, <1>13
<1>14. CASE \E w \in Workers : Readies(w) \/ Loads(w)
  BY <1>7, <1>8, <1>14
<1>15. CASE \E w \in Workers : Fires(w) \/ Advances(w)
  BY <1>10, <1>15
<1>16. CASE \E w \in Workers : Ends(w, "completed")
  BY <1>11, <1>16
<1> QED
  BY <1>1, <1>4, <1>12, <1>13, <1>14, <1>15, <1>16 DEF Flow, Moved

\* An event that is raised or about to be stays so, unless something goes wrong.
LEMMA AnnouncedStays ==
    ASSUME TypeInv, NextIngest, mishaps' = 0, NEW a \in Agents, NEW r \in DOMAIN Rules, Announced(a, r)
    PROVE  Announced(a, r)'
<1>1. ~ WorkerCrash /\ \A w \in Workers : ~ JobFails(w)
  BY NothingWrong
<1>2. raised \subseteq raised'
  BY DEF NextIngest, Send, TakeJob, Stall, Switch, CreateHost, CacheAges, Find, Insert, Link,
     BridgeContainers, LoadRules, Track, Publish, JobFails, WorkerCrash
<1>3. CASE \E e \in raised : e.rule = Rules[r] /\ e.agent = a
  BY <1>2, <1>3 DEF Announced
<1>4. CASE \E w \in Workers : /\ handlers[w].at = "publish" /\ handlers[w].rule = r
                              /\ handlers[w].agent = {a}
  <2>1. PICK w \in Workers : /\ handlers[w].at = "publish" /\ handlers[w].rule = r
                             /\ handlers[w].agent = {a}
    BY <1>4
  <2>2. CASE handlers'[w] = handlers[w]
    BY <2>1, <2>2 DEF Announced
  <2>3. CASE handlers'[w] # handlers[w]
    <3>1. Publish(w)
      BY <1>1, <2>1, <2>3, EvaluatingMoves DEF Evaluating, Track
    <3>2. PICK b \in Agents :
            /\ handlers[w].agent = {b}
            /\ raised' = raised \cup {[rule |-> RuleAt(handlers[w].rule), agent |-> b,
                                       by |-> handlers[w].by]}
      BY <3>1, PublishFlows
    <3>3. b = a /\ RuleAt(handlers[w].rule) = Rules[r]
      BY <2>1, <3>2, RulesTyped
    <3>4. [rule |-> Rules[r], agent |-> a, by |-> handlers[w].by] \in raised'
      BY <3>2, <3>3
    <3> QED
      BY <3>4 DEF Announced
  <2> QED
    BY <2>2, <2>3
<1> QED
  BY <1>3, <1>4 DEF Announced

\* The samples of an agent are never fewer than they were.
LEMMA AllBadBefore ==
    ASSUME TypeInv, NextIngest, ~ WorkerCrash, NEW a \in Agents, NEW r \in DOMAIN Rules, AllBad(a, r)'
    PROVE  AllBad(a, r)
<1>1. Flow
  BY StepFlows
<1>2. values' = values
  BY DEF NextIngest, Send, TakeJob, Stall, Switch, CreateHost, CacheAges, Find, Insert, Link,
     BridgeContainers, LoadRules, Track, Publish, JobFails, WorkerCrash
<1>3. \A n \in DOMAIN jobs[a] : n \in DOMAIN jobs'[a] /\ jobs'[a][n].hi = jobs[a][n].hi
  <2>1. \A n \in DOMAIN jobs[a] : 1 \in 1..jobs[a][n].run /\ 0 \in Indexes /\ 0 \in Nat
    BY JobsTyped, RulesTyped DEF TypeInv
  <2> QED
    BY <1>1, <2>1, ThroughStays
<1> QED
  BY <1>2, <1>3 DEF AllBad

\* Only the rule itself writes the count of a rule that is alone.
LEMMA AloneCounts ==
    ASSUME TypeInv, RulesKept, NEW w \in Workers, handlers[w].at = "track", NEW r \in Steady, Alone(r),
           NEW a \in Agents, NEW b \in Agents, handlers[w].agent = {b},
           Key(handlers[w].rule, b) = Key(r, a)
    PROVE  handlers[w].rule = r /\ a = b
<1>1. r \in DOMAIN Rules /\ r # 0
  BY RulesTyped DEF TypeInv, IngestOK, Steady
<1>2. /\ handlers[w].rule \in handlers[w].rules /\ r \in handlers[w].rules
      /\ handlers[w].rules = {0} \/ handlers[w].rules \subseteq DOMAIN Rules
  BY Busy DEF Evaluating, RulesKept
<1>3. handlers[w].rule \in DOMAIN Rules
  BY <1>1, <1>2
<1>4. Rules[handlers[w].rule].event = Rules[r].event /\ a = b
  BY <1>1, <1>3, RulesTyped DEF Key
<1> QED
  BY <1>3, <1>4 DEF Alone, Sharing

\* What the step does to the count of a rule that is alone and enabled all the time.
LEMMA AloneStep ==
    ASSUME TypeInv, RulesKept, NextIngest, mishaps' = 0, NEW a \in Agents, NEW r \in Steady, Alone(r),
           AllBad(a, r)
    PROVE  \/ /\ counts'[Key(r, a)] = counts[Key(r, a)]
              /\ ~ \E w \in Workers : /\ Track(w) /\ handlers[w].rule = r /\ handlers[w].agent = {a}
           \/ \E w \in Workers, k \in Nat :
                 /\ handlers[w].rule = r /\ handlers[w].agent = {a} /\ k = handlers[w].sample
                 /\ \A v \in Workers : Track(v) => v = w
                 /\ counts'[Key(r, a)] = [n |-> counts[Key(r, a)].n + 1,
                                          by |-> counts[Key(r, a)].by \cup {k}]
                 /\ counts'[Key(r, a)].n >= Rules[r].need => Announced(a, r)'
<1>1. /\ IngestOK /\ ~ WorkerCrash /\ r \in DOMAIN Rules /\ r \in Indexes /\ RuleAt(r) = Rules[r]
  BY NothingWrong, RulesTyped DEF TypeInv, IngestOK, Steady
<1>2. counts \in [Keys -> CountRec] /\ Key(r, a) \in Keys
  BY <1>1, CountIs
<1>3. CASE ~ \E w \in Workers : Track(w)
  <2>1. counts' = counts
    BY <1>1, <1>3 DEF NextIngest, Send, TakeJob, Stall, Switch, CreateHost, CacheAges, Find,
       Insert, Link, BridgeContainers, LoadRules, Publish, JobFails
  <2> QED
    BY <1>3, <2>1
<1>4. ASSUME NEW w \in Workers, Track(w)
      PROVE  \/ /\ counts'[Key(r, a)] = counts[Key(r, a)]
                /\ ~ \E v \in Workers : /\ Track(v) /\ handlers[v].rule = r /\ handlers[v].agent = {a}
             \/ \E k \in Nat :
                   /\ handlers[w].rule = r /\ handlers[w].agent = {a} /\ k = handlers[w].sample
                   /\ \A v \in Workers : Track(v) => v = w
                   /\ counts'[Key(r, a)] = [n |-> counts[Key(r, a)].n + 1,
                                            by |-> counts[Key(r, a)].by \cup {k}]
                   /\ counts'[Key(r, a)].n >= Rules[r].need => Announced(a, r)'
  <2> DEFINE i == handlers[w].rule
             k == handlers[w].sample
  <2>1. PICK b \in Agents :
          /\ handlers[w].at = "track" /\ handlers[w].agent = {b}
          /\ counts' = [counts EXCEPT ![Key(i, b)] = NextCount(Key(i, b), RuleAt(i), k, values[<<b, k>>])]
          /\ NextCount(Key(i, b), RuleAt(i), k, values[<<b, k>>]).n >= RuleAt(i).need => Fires(w)
    BY <1>4, TrackFlows
  <2>2. ASSUME NEW v \in Workers, Track(v)
        PROVE  v = w
    <3>1. /\ \A u \in Workers : u # w => handlers'[u] = handlers[u]
          /\ \A u \in Workers : u # v => handlers'[u] = handlers[u]
      BY <1>4, <2>2, TrackFlows DEF Fires, Advances, Ends, JobsKept, Only
    <3>2. handlers'[v] # handlers[v]
      <4>1. Evaluating(handlers[v]) /\ handlers[v].at = "track"
        BY <2>2 DEF Track, Evaluating
      <4>2. Fires(v) \/ Advances(v) \/ Ends(v, "completed")
        BY <2>2, TrackFlows
      <4>3. handlers[v].sample \in Nat /\ handlers[v].rule \in Nat
        BY <1>1, HandlersTyped, RulesTyped
      <4>4. Advances(v) => handlers'[v] # handlers[v]
        <5>1. SUFFICES ASSUME Advances(v) PROVE handlers'[v] # handlers[v]
          OBVIOUS
        <5>2. PICK hi : Moves(handlers[v], handlers'[v], hi)
          BY <5>1 DEF Advances
        <5> QED
          BY <4>3, <5>2 DEF Moves
      <4> QED
        BY <4>1, <4>2, <4>4, IdleTyped DEF Fires, Ends
    <3> QED
      BY <3>1, <3>2
  <2>3. CASE Key(i, b) # Key(r, a)
    <3>1. counts'[Key(r, a)] = counts[Key(r, a)]
      BY <1>2, <2>1, <2>3
    <3>2. ~ (i = r /\ handlers[w].agent = {a})
      BY <2>1, <2>3
    <3> QED
      BY <2>2, <3>1, <3>2
  <2>4. CASE Key(i, b) = Key(r, a)
    <3>1. i = r /\ a = b
      BY <2>1, <2>4, AloneCounts
    <3>2. k \in Nat /\ Violates(Rules[r], values[<<a, k>>])
      <4>1. /\ handlers[w].job \in DOMAIN jobs[a] /\ k \in handlers[w].job..jobs[a][handlers[w].job].hi
        BY <2>1, <3>1, Busy
      <4> QED
        BY <1>1, <4>1, HandlersTyped DEF AllBad
    <3>3. counts'[Key(r, a)] = NextCount(Key(r, a), Rules[r], k, values[<<a, k>>])
      BY <1>1, <1>2, <2>1, <3>1
    <3>4. counts'[Key(r, a)] = [n |-> counts[Key(r, a)].n + 1, by |-> counts[Key(r, a)].by \cup {k}]
      BY <3>2, <3>3 DEF NextCount
    <3>5. counts'[Key(r, a)].n >= Rules[r].need => Announced(a, r)'
      <4>1. SUFFICES ASSUME counts'[Key(r, a)].n >= Rules[r].need PROVE Announced(a, r)'
        OBVIOUS
      <4>2. Fires(w)
        BY <1>1, <2>1, <3>1, <3>3, <4>1
      <4>3. /\ handlers'[w].at = "publish" /\ handlers'[w].rule = r /\ handlers'[w].agent = {a}
        BY <2>1, <3>1, <4>2 DEF Fires, JobsKept
      <4> QED
        BY <4>3 DEF Announced
    <3> QED
      BY <2>1, <2>2, <3>1, <3>2, <3>4, <3>5
  <2> QED
    BY <2>3, <2>4
<1> QED
  BY <1>3, <1>4

LEMMA CountedStep ==
    ASSUME TypeInv, NothingStalled', RulesKept, RulesKept', NextIngest, mishaps' = 0,
           NEW a \in Agents, NEW r \in Steady, r \in Steady', Alone(r), AllBad(a, r), Counted(a, r)
    PROVE  Counted(a, r)'
<1>1. /\ IngestOK /\ r \in DOMAIN Rules /\ r \in Indexes /\ ~ WorkerCrash
      /\ \A n \in DOMAIN jobs[a] : 1 \in 1..jobs[a][n].run
  <2>1. IngestOK /\ r \in DOMAIN Rules /\ ~ WorkerCrash
    BY NothingWrong DEF TypeInv, IngestOK, Steady
  <2>2. \A n \in DOMAIN jobs[a] : 1 \in 1..jobs[a][n].run
    BY <2>1, JobsTyped
  <2> QED
    BY <2>1, <2>2, RulesTyped
<1>2. counts[Key(r, a)] \in CountRec
  BY <1>1, RulesTyped, CountIs
<1>3. PICK B \in SUBSET Nat, m \in Nat : B = counts[Key(r, a)].by /\ m = counts[Key(r, a)].n
  BY <1>2 DEF CountRec
<1>4. /\ IsFiniteSet(B) /\ Cardinality(B) <= m
      /\ \A n \in DOMAIN jobs[a] : \A k \in n..jobs[a][n].hi : Through(a, n, 1, r, k) => k \in B
      /\ B # {} /\ m >= Rules[r].need => Announced(a, r)
  BY <1>3 DEF Counted
<1>5. CASE /\ counts'[Key(r, a)] = counts[Key(r, a)]
           /\ ~ \E w \in Workers : /\ Track(w) /\ handlers[w].rule = r /\ handlers[w].agent = {a}
  <2>1. counts'[Key(r, a)].by = B /\ counts'[Key(r, a)].n = m
    BY <1>3, <1>5
  <2>2. ASSUME NEW n \in DOMAIN jobs'[a], NEW k \in n..jobs'[a][n].hi, Through(a, n, 1, r, k)'
        PROVE  k \in B
    <3>1. k \in Nat
      BY <1>1, <2>2, StepFlows, JobsStayTyped
    <3>2. n \in DOMAIN jobs[a] /\ Through(a, n, 1, r, k)
      BY <1>5, <2>2, <3>1, ThroughBefore
    <3>3. jobs'[a][n].hi = jobs[a][n].hi
      BY <1>1, <3>1, <3>2, StepFlows, ThroughStays
    <3> QED
      BY <1>4, <2>2, <3>2, <3>3
  <2>3. B # {} /\ m >= Rules[r].need => Announced(a, r)'
    BY <1>1, <1>4, AnnouncedStays
  <2> QED
    BY <1>4, <2>1, <2>2, <2>3 DEF Counted, Key
<1>6. ASSUME NEW w \in Workers, NEW k \in Nat,
             handlers[w].rule = r /\ handlers[w].agent = {a} /\ k = handlers[w].sample,
             \A v \in Workers : Track(v) => v = w,
             counts'[Key(r, a)] = [n |-> counts[Key(r, a)].n + 1,
                                   by |-> counts[Key(r, a)].by \cup {k}],
             counts'[Key(r, a)].n >= Rules[r].need => Announced(a, r)'
      PROVE  Counted(a, r)'
  <2>1. counts'[Key(r, a)].by = B \cup {k} /\ counts'[Key(r, a)].n = m + 1
    BY <1>3, <1>6
  <2>2. IsFiniteSet(B \cup {k}) /\ Cardinality(B \cup {k}) <= m + 1
    <3>1. /\ IsFiniteSet(B \cup {k})
          /\ Cardinality(B \cup {k}) = Cardinality(B) \/ Cardinality(B \cup {k}) = Cardinality(B) + 1
      BY <1>4, FS_AddElement
    <3>2. Cardinality(B) \in Nat
      BY <1>4, FS_CardinalityType
    <3> QED
      BY <1>4, <3>1, <3>2
  <2>3. ASSUME NEW n \in DOMAIN jobs'[a], NEW j \in n..jobs'[a][n].hi, Through(a, n, 1, r, j)'
        PROVE  j \in B \cup {k}
    <3>1. j \in Nat
      BY <1>1, <2>3, StepFlows, JobsStayTyped
    <3>2. n \in DOMAIN jobs[a] /\ (Through(a, n, 1, r, j) \/ j = k)
      BY <1>6, <2>3, <3>1, ThroughBefore
    <3>3. jobs'[a][n].hi = jobs[a][n].hi
      BY <1>1, <3>1, <3>2, StepFlows, ThroughStays
    <3> QED
      BY <1>4, <2>3, <3>2, <3>3
  <2> QED
    BY <1>6, <2>1, <2>2, <2>3 DEF Counted, Key
<1>7. CASE \E w \in Workers, k \in Nat :
              /\ handlers[w].rule = r /\ handlers[w].agent = {a} /\ k = handlers[w].sample
              /\ \A v \in Workers : Track(v) => v = w
              /\ counts'[Key(r, a)] = [n |-> counts[Key(r, a)].n + 1,
                                       by |-> counts[Key(r, a)].by \cup {k}]
              /\ counts'[Key(r, a)].n >= Rules[r].need => Announced(a, r)'
  BY <1>6, <1>7
<1> QED
  BY <1>5, <1>7, AloneStep

LEMMA AlarmStep ==
    ASSUME TypeInv, NothingStalled', AlarmInv, NextIngest
    PROVE  AlarmInv'
<1>1. RulesKept' /\ Steady' \subseteq Steady
  BY RulesStep DEF AlarmInv
<1>2. ASSUME mishaps' = 0, NEW a \in Agents, NEW r \in Steady', Alone(r), AllBad(a, r)'
      PROVE  Counted(a, r)'
  <2>1. mishaps = 0 /\ ~ WorkerCrash /\ r \in Steady /\ r \in DOMAIN Rules
    BY <1>1, <1>2, NothingWrong DEF TypeInv, IngestOK, Steady
  <2>2. AllBad(a, r)
    BY <1>2, <2>1, AllBadBefore
  <2>3. Counted(a, r)
    BY <1>2, <2>1, <2>2 DEF AlarmInv
  <2> QED
    BY <1>1, <1>2, <2>1, <2>2, <2>3, CountedStep DEF AlarmInv
<1> QED
  BY <1>1, <1>2 DEF AlarmInv, Alone, Sharing

-----------------------------------------------------------------------------
(* The inductive invariant *)

LEMMA IngestInit ==
    ASSUME InitIngest
    PROVE  IngestInv
<1>1. /\ jobs = [a \in Agents |-> <<>>] /\ handlers = [w \in Workers |-> Idle]
      /\ counts = [k \in Keys |-> Unseen] /\ enabled \in {{}, DOMAIN Rules} /\ switched = {}
      /\ rulesCache = [rules |-> {}, fresh |-> FALSE]
      /\ hosts = {} /\ named = {} /\ links = {} /\ containers = {} /\ raised = {} /\ mishaps = 0
  BY DEF InitIngest
<1>2. \A a \in Agents : jobs[a] = <<>> /\ DOMAIN jobs[a] = {}
  BY <1>1
<1>3. TypeInv
  <2>1. jobs \in [Agents -> Seq(JobRec)] /\ handlers \in [Workers -> HandlerRec]
    BY <1>1, IdleTyped
  <2>2. counts \in [Keys -> CountRec]
    BY <1>1 DEF Unseen, CountRec
  <2>3. IngestOK
    BY <1>1, <2>1, <2>2 DEF IngestOK, JobRec, JobAt, HandlerRec, HandlerAt, CountRec
  <2>4. JobsReach /\ HandlersPlaced /\ OneEach /\ NothingStalled
    BY <1>1, <1>2 DEF JobsReach, HandlersPlaced, OneEach, Placed, NothingStalled
  <2> QED
    BY <2>3, <2>4 DEF TypeInv
<1>4. LinkInv
  BY <1>1, <1>2, IdleTyped
     DEF LinkInv, WrittenInHosts, BridgeHolds, NotedAreLinked, HostsAreAttached, ReadyAreKnown,
         DoneAreKnown, Attaching, Ready
<1>5. EarnedInv
  <2>1. ASSUME NEW i \in Indexes, NEW a \in Agents
        PROVE  /\ IsFiniteSet(counts[Key(i, a)].by)
               /\ counts[Key(i, a)].n <= Cardinality(Seen(RuleAt(i), a, counts[Key(i, a)].by))
    <3>1. counts[Key(i, a)] = Unseen
      BY <1>1 DEF Keys, Key
    <3>2. counts[Key(i, a)].by = {} /\ counts[Key(i, a)].n = 0
      BY <3>1 DEF Unseen
    <3>3. Seen(RuleAt(i), a, {}) = {}
      BY DEF Seen, Evidence, Deliveries
    <3> QED
      BY <3>2, <3>3, FS_EmptySet
  <2> QED
    BY <1>1, <2>1, IdleTyped DEF EarnedInv, CountsEarned, PublishEarned, RaisedFinite, FiresEarned
<1>6. AlarmInv
  <2>1. RulesKept
    BY <1>1, IdleTyped DEF RulesKept
  <2>2. ASSUME NEW a \in Agents, NEW r \in Steady
        PROVE  Counted(a, r)
    <3>1. Key(r, a) \in Keys
      BY <1>1, RulesTyped DEF Keys, Key, Steady
    <3>2. counts[Key(r, a)].by = {} /\ counts[Key(r, a)].n = 0
      BY <1>1, <3>1 DEF Unseen
    <3> QED
      BY <1>2, <3>2, FS_EmptySet DEF Counted
  <2> QED
    BY <2>1, <2>2 DEF AlarmInv
<1> QED
  BY <1>3, <1>4, <1>5, <1>6 DEF IngestInv

LEMMA IngestStep ==
    ASSUME IngestInv, [NextIngest]_ingestVars
    PROVE  IngestInv'
<1>1. CASE NextIngest
  <2>1. IngestOK' /\ NothingStalled' /\ LinkInv'
    BY <1>1, IngestTypesStep, StalledStep, LinkStep DEF IngestInv
  <2>2. JobsReach' /\ HandlersPlaced' /\ OneEach'
    BY <1>1, StepFlows, PlacesStep, PlacesAfterCrash DEF IngestInv
  <2>3. EarnedInv'
    BY <1>1, <2>1, EarnedStep DEF IngestInv
  <2>4. AlarmInv'
    BY <1>1, <2>1, AlarmStep DEF IngestInv
  <2> QED
    BY <2>1, <2>2, <2>3, <2>4 DEF IngestInv, TypeInv
<1>2. CASE UNCHANGED ingestVars
  <2> USE <1>2 DEF ingestVars
  <2>1. TypeInv'
    <3>1. IngestOK'
      BY DEF IngestInv, TypeInv, IngestOK
    <3>2. JobsReach' /\ OneEach' /\ NothingStalled'
      BY DEF IngestInv, TypeInv, JobsReach, OneEach, NothingStalled
    <3>3. HandlersPlaced'
      BY DEF IngestInv, TypeInv, HandlersPlaced, Placed, Evaluating
    <3> QED
      BY <3>1, <3>2, <3>3 DEF TypeInv
  <2>2. LinkInv'
    BY DEF IngestInv, LinkInv, WrittenInHosts, BridgeHolds, NotedAreLinked, HostsAreAttached,
           ReadyAreKnown, DoneAreKnown, Attaching, Attached, Ready, Known, NameTaken
  <2>3. CountsEarned'
    <3>1. ASSUME NEW i \in Indexes, NEW a \in Agents
          PROVE  /\ counts'[Key(i, a)] = counts[Key(i, a)]
                 /\ Seen(RuleAt(i), a, counts[Key(i, a)].by)' = Seen(RuleAt(i), a, counts[Key(i, a)].by)
      <4>1. \A n, m, r, k : Through(a, n, m, r, k)' <=> Through(a, n, m, r, k)
        BY DEF Through, Over, Handled, Handles, Past, Evaluating
      <4>2. Evidence(RuleAt(i), a, counts[Key(i, a)].by)' = Evidence(RuleAt(i), a, counts[Key(i, a)].by)
        BY DEF Evidence, Deliveries, Key
      <4>3. ASSUME NEW x
            PROVE  x \in Seen(RuleAt(i), a, counts[Key(i, a)].by)'
                     <=> x \in Seen(RuleAt(i), a, counts[Key(i, a)].by)
        BY <4>1, <4>2 DEF Seen
      <4> QED
        BY <4>3 DEF Seen
    <3> QED
      BY <3>1 DEF IngestInv, EarnedInv, CountsEarned, Key
  <2>4. PublishEarned' /\ RaisedFinite' /\ FiresEarned'
    BY DEF IngestInv, EarnedInv, PublishEarned, RaisedFinite, FiresEarned, Evidence, Deliveries
  <2>5. RulesKept' /\ \A a \in Agents : \A r \in Steady : AllBad(a, r)' => AllBad(a, r)
    BY DEF IngestInv, AlarmInv, RulesKept, Steady, Evaluating, AllBad
  <2>6. \A a \in Agents : \A r \in Steady : Counted(a, r) => Counted(a, r)'
    BY DEF Counted, Announced, Through, Over, Handled, Handles, Past, Evaluating, Key
  <2>7. AlarmInv'
    BY <2>5, <2>6 DEF IngestInv, AlarmInv, Alone, Sharing, Steady
  <2> QED
    BY <2>1, <2>2, <2>3, <2>4, <2>7 DEF IngestInv, EarnedInv
<1> QED
  BY <1>1, <1>2

\* IngestInv holds in every state of the consumer.
THEOREM IngestInvariant == SpecIngest => []IngestInv
  BY IngestInit, IngestStep, PTL DEF SpecIngest

-----------------------------------------------------------------------------
(* The theorems *)

LEMMA AlarmsRaised ==
    ASSUME IngestInv
    PROVE  AlarmRaised
<1>1. IngestOK /\ TypeInv
  BY DEF IngestInv, TypeInv
<1>2. ASSUME NEW a \in Agents, NEW r \in Steady, mishaps = 0, Sharing(Rules[r]) = {r},
             jobs[a] # <<>>, \A n \in DOMAIN jobs[a] : jobs[a][n].at = "completed",
             NEW D, D = UNION {n..jobs[a][n].hi : n \in DOMAIN jobs[a]},
             \A k \in D : Violates(Rules[r], values[<<a, k>>]), Cardinality(D) >= Rules[r].need
      PROVE  \E e \in raised : e.rule = Rules[r] /\ e.agent = a
  <2>1. r \in DOMAIN Rules /\ Rules[r].need \in Int
    BY <1>1, <1>2, RulesTyped DEF IngestOK, Steady
  <2>2. \A n \in DOMAIN jobs[a] : n..jobs[a][n].hi \subseteq D
    BY <1>2
  <2>3. \A w \in Workers : handlers[w].agent # {a}
    <3>1. ASSUME NEW w \in Workers, handlers[w].agent = {a}
          PROVE  FALSE
      <4>1. handlers[w].at # "idle"
        BY <1>1, <3>1, IdleTyped DEF TypeInv, HandlersPlaced, Placed
      <4>2. /\ handlers[w].job \in DOMAIN jobs[a]
            /\ handlers[w].run \in 1..jobs[a][handlers[w].job].run
            /\ handlers[w].run = jobs[a][handlers[w].job].run
                  => jobs[a][handlers[w].job].at \in {"active", "failed"}
        BY <1>1, <3>1, <4>1, Busy
      <4>3. jobs[a][handlers[w].job].run = 1
        BY <1>1, <1>2, <4>2 DEF TypeInv, NothingStalled
      <4> QED
        BY <1>2, <4>2, <4>3
    <3> QED
      BY <3>1
  <2>4. AllBad(a, r)
    BY <1>2, <2>2 DEF AllBad
  <2>5. Counted(a, r)
    BY <1>2, <2>4 DEF IngestInv, AlarmInv, Alone
  <2>6. counts[Key(r, a)] \in CountRec
    BY <1>1, <2>1, RulesTyped, CountIs
  <2>7. PICK B \in SUBSET Nat, m \in Nat : B = counts[Key(r, a)].by /\ m = counts[Key(r, a)].n
    BY <2>6 DEF CountRec
  <2>8. IsFiniteSet(B) /\ Cardinality(B) <= m /\ (B # {} /\ m >= Rules[r].need => Announced(a, r))
    BY <2>5, <2>7 DEF Counted
  <2>9. D \subseteq B
    <3>1. \A n \in DOMAIN jobs[a] : Over(a, n, 1) /\ ~ Handled(a, n, 1)
      BY <1>2, <2>3 DEF Over, Handled, Handles
    <3>2. \A n \in DOMAIN jobs[a] : \A k \in n..jobs[a][n].hi : k \in B
      BY <2>5, <2>7, <3>1 DEF Counted, Through
    <3> QED
      BY <1>2, <3>2
  <2>10. IsFiniteSet(D) /\ Cardinality(D) <= Cardinality(B) /\ Cardinality(D) \in Nat /\ Cardinality(B) \in Nat
    BY <2>8, <2>9, FS_Subset, FS_CardinalityType
  <2>11. m >= Rules[r].need
    BY <1>2, <2>1, <2>8, <2>10
  <2>12. B # {}
    <3>1. 1 \in DOMAIN jobs[a]
      <4>1. jobs[a] \in Seq(JobRec) /\ Len(jobs[a]) \in Nat /\ DOMAIN jobs[a] = 1..Len(jobs[a])
        BY <1>1, JobsTyped
      <4>2. Len(jobs[a]) # 0
        BY <1>2, <4>1, EmptySeq
      <4> QED
        BY <4>1, <4>2
    <3>2. 1 <= jobs[a][1].hi /\ jobs[a][1].hi \in Nat
      BY <1>1, <3>1, JobsTyped DEF TypeInv, JobsReach
    <3>3. 1 \in 1..jobs[a][1].hi
      BY <3>2
    <3> QED
      BY <2>2, <2>9, <3>1, <3>3
  <2>13. Announced(a, r)
    BY <2>8, <2>11, <2>12
  <2> QED
    BY <2>13, <2>3 DEF Announced
<1> QED
  BY <1>2 DEF AlarmRaised, Steady

\* Jobs, handlers, counts, the rules that are cached, the links and the events have
\* their types, whatever the fleet, the rules and the number of workers, and
\* whatever fails.
THEOREM IngestTypeCorrect == SpecIngest => []IngestOK
<1>1. IngestInv => IngestOK
  BY DEF IngestInv, TypeInv
<1> QED
  BY <1>1, IngestInvariant, PTL

\* The bridge, whose statements interleave with those of other jobs and of operators:
\* what it has written is of a host that exists, and once a job is completed its agent
\* is linked and its container noted, unless another host has the name or the job that
\* made the row is still at it.
THEOREM AgentsGetLinked == SpecIngest => []LinkedOrNameTaken
<1>1. IngestInv => LinkedOrNameTaken
  <2> SUFFICES ASSUME IngestInv PROVE LinkedOrNameTaken
    OBVIOUS
  <2>1. links \cup containers \subseteq hosts
    BY DEF IngestInv, LinkInv, WrittenInHosts
  <2>2. ASSUME mishaps = 0, NEW a \in Agents, NEW n \in DOMAIN jobs[a],
               jobs[a][n].at = "completed"
        PROVE  Attached(a) \/ NameTaken(a)
    BY <2>2 DEF IngestInv, LinkInv, BridgeHolds, HostsAreAttached, DoneAreKnown, Known
  <2> QED
    BY <2>1, <2>2 DEF LinkedOrNameTaken, Attached, Attaching
<1> QED
  BY <1>1, IngestInvariant, PTL

\* The tracker: an event is published on as much evidence as its rule asks for,
\* whatever the rules are, whoever interleaves with whom, and although crashes and
\* lost locks have jobs evaluated again, by the same tracker and beside the handler
\* that lost its lock.
THEOREM EventsEarned == SpecIngest => []FiresEarned
<1>1. IngestInv => FiresEarned
  BY DEF IngestInv, EarnedInv
<1> QED
  BY <1>1, IngestInvariant, PTL

\* The tracker, the cache of the rules and the worker's concurrency: when every sample
\* of an agent was bad and has been handled, in any order and by any number of handlers,
\* a rule of its tenant that is alone with its event type has fired, however the other
\* rules were edited meanwhile.
THEOREM NoAlarmMissed == SpecIngest => []AlarmRaised
  BY AlarmsRaised, IngestInvariant, PTL

-----------------------------------------------------------------------------
(* The composition *)

\* What AgentIdentity, MetricsIngest and RealtimeStream do side by side is what each does
\* alone, so every variable keeps its type.
THEOREM PlatformTypeCorrect == Spec => []TypeOK
<1>1. Init => InitIdentity /\ InitIngest /\ InitStream
  BY DEF Init
<1>2. [Next]_platformVars =>
        [NextIdentity]_identityVars /\ [NextIngest]_ingestVars /\ [NextStream]_streamVars
  BY DEF Next, platformVars
<1>3. Spec => SpecIdentity /\ SpecIngest /\ SpecStream
  BY <1>1, <1>2, PTL DEF Spec, SpecIdentity, SpecIngest, SpecStream
<1> QED
  BY <1>3, TypeCorrect, IngestTypeCorrect, StreamTypeCorrect, PTL DEF TypeOK
=============================================================================
