---------------------------- MODULE RateLimiter ----------------------------
(***************************************************************************)
(* The token bucket of one principal and one route class                   *)
(* (middleware/rate-limit.middleware.ts).  Each API instance stamps a      *)
(* request with its own clock, and the script runs atomically in Redis     *)
(* some time later: stamps may arrive out of order.  A token is Window     *)
(* units, so that a tick of the clock refills Capacity of them.            *)
(***************************************************************************)
EXTENDS Integers, FiniteSets

CONSTANTS
    Instances,       \* API processes
    Capacity,        \* tokens of a full bucket: 10, 30 or 120
    Window,          \* ticks that refill an empty bucket: 60 s
    Slack,           \* ticks that a bucket outlives its refill: 60 s
    Skew,            \* how far a process's clock is ahead, at most
    Delay,           \* ticks between the stamp of a request and the script, at most
    MaxTime,         \* bound: ticks
    MaxRewind,       \* bound: how far stamps go back, in all
    MaxStoreFaults   \* bound: Redis refusals and restarts

ASSUME LimiterAssumption ==
    /\ {Capacity, Window} \subseteq Nat \ {0}
    /\ {Slack, Skew, Delay, MaxTime, MaxRewind, MaxStoreFaults} \subseteq Nat
    /\ Skew + Delay <= Slack

VARIABLES
    time,          \* the time, as the clocks that are right have it
    ahead,         \* how far the clock of each process is ahead
    stamped,       \* the request of each process: its stamp once it has one
    bucket,        \* the hash of Redis: units, ts, and when it was last written
    failureMode,   \* RATE_LIMIT_FAILURE_MODE
    promised,      \* history: when the first of those refused since a grant may come again
    passed,        \* history: requests that passed
    rewound,       \* history: how far ts went back, in all
    storeFaults    \* history: refusals and restarts of Redis

limiterVars == <<time, ahead, stamped, bucket, failureMode, promised, passed, rewound,
                 storeFaults>>

None == -1
NoBucket == [units |-> 0, ts |-> None, at |-> 0]
Full == Capacity * Window

InitLimiter ==
    /\ time = 0 /\ ahead \in [Instances -> 0..Skew] /\ stamped = [i \in Instances |-> None]
    /\ bucket = NoBucket /\ failureMode \in {"open", "closed"} /\ promised = None
    /\ passed = 0 /\ rewound = 0 /\ storeFaults = [refused |-> 0, restarted |-> 0]

StoreFault(kind) ==
    /\ storeFaults.refused + storeFaults.restarted < MaxStoreFaults
    /\ storeFaults' = [storeFaults EXCEPT ![kind] = @ + 1]
Least(a, b) == IF a < b THEN a ELSE b
\* Rounded up.
Ceil(a, b) == (a + b - 1) \div b

Tick ==
    /\ time < MaxTime /\ time' = time + 1
    /\ \A i \in Instances : stamped[i] = None \/ time + ahead[i] - stamped[i] < Delay
    /\ UNCHANGED <<ahead, stamped, bucket, failureMode, promised, passed, rewound, storeFaults>>

\* Date.now() is an argument of the script.
Stamp(i) ==
    /\ stamped[i] = None
    /\ stamped' = [stamped EXCEPT ![i] = time + ahead[i]]
    /\ UNCHANGED <<time, ahead, bucket, failureMode, promised, passed, rewound, storeFaults>>

\* Mutants of Refilled: no cap; time that runs back refills too.
RefilledUncapped(now) ==
    IF bucket.ts = None THEN Full
    ELSE bucket.units + Capacity * (IF now > bucket.ts THEN now - bucket.ts ELSE 0)
RefilledBothWays(now) ==
    IF bucket.ts = None THEN Full
    ELSE Least(Full, bucket.units
                       + Capacity * (IF now > bucket.ts THEN now - bucket.ts ELSE bucket.ts - now))
\* What the bucket holds before it is charged.
Refilled(now) ==
    IF bucket.ts = None THEN Full
    ELSE Least(Full, bucket.units + Capacity * (IF now > bucket.ts THEN now - bucket.ts ELSE 0))

\* Mutant of WaitFor: rounded down.
WaitDown(units) == (Window - units) \div Capacity
\* ttl_ms of a refused request.
WaitFor(units) == Ceil(Window - units, Capacity)

\* TOKEN_BUCKET_LUA: it writes the stamp even when that is older than ts.
Charge(i) ==
    LET now == stamped[i]  units == Refilled(now)  ok == units >= Window
    IN  /\ bucket' = [units |-> IF ok THEN units - Window ELSE units, ts |-> now, at |-> time]
        /\ promised' = IF ok THEN None
                       ELSE IF promised = None THEN time + WaitFor(units)
                       ELSE Least(promised, time + WaitFor(units))
        /\ rewound' = rewound + (IF now < bucket.ts THEN bucket.ts - now ELSE 0)
        /\ rewound' <= MaxRewind

\* next(), or 429 with the wait.
Limit(i) ==
    /\ stamped[i] # None /\ Charge(i)
    /\ passed' = passed + (IF Refilled(stamped[i]) >= Window THEN 1 ELSE 0)
    /\ stamped' = [stamped EXCEPT ![i] = None]
    /\ UNCHANGED <<time, ahead, failureMode, storeFaults>>

\* eval throws, though the script may have run: the request passes, or gets 503.
StoreFails(i) ==
    /\ stamped[i] # None /\ StoreFault("refused")
    /\ Charge(i) \/ UNCHANGED <<bucket, promised, rewound>>
    /\ passed' = passed + (IF failureMode = "open" THEN 1 ELSE 0)
    /\ stamped' = [stamped EXCEPT ![i] = None]
    /\ UNCHANGED <<time, ahead, failureMode>>

\* PEXPIRE: nothing has written the bucket for as long as it takes to refill, and
\* a minute more.
BucketExpires ==
    /\ bucket # NoBucket /\ time - bucket.at >= Window + Slack
    /\ bucket' = NoBucket
    /\ UNCHANGED <<time, ahead, stamped, failureMode, promised, passed, rewound, storeFaults>>

\* Redis comes back without the bucket.
StoreRestarts ==
    /\ bucket # NoBucket /\ StoreFault("restarted")
    /\ bucket' = NoBucket
    /\ UNCHANGED <<time, ahead, stamped, failureMode, promised, passed, rewound>>

NextLimiter ==
    \/ Tick \/ BucketExpires \/ StoreRestarts
    \/ \E i \in Instances : Stamp(i) \/ Limit(i) \/ StoreFails(i)

SpecLimiter == InitLimiter /\ [][NextLimiter]_limiterVars

-----------------------------------------------------------------------------
(* Properties *)

LimiterOK ==
    /\ time \in Nat /\ ahead \in [Instances -> 0..Skew] /\ passed \in Nat /\ rewound \in Nat
    /\ stamped \in [Instances -> Int] /\ promised \in Nat \cup {None}
    /\ bucket \in [units : 0..Full, ts : Int, at : Nat]
    /\ storeFaults \in [refused : Nat, restarted : Nat]

\* However many processes share the bucket, whatever their clocks say and in
\* whatever order their requests reach Redis, no more passes than a full bucket,
\* the refill of the time gone by (by the clock furthest ahead), that refill again
\* for the time stamps went back, a full bucket and what the lost stamp was ahead
\* for each restart of Redis and, when it fails open, a request for each refusal.
WithinBudget ==
    passed * Window
      <= Full + Capacity * (time + Skew + rewound)
         + (Full + Capacity * (Skew + Delay)) * storeFaults.restarted
         + (IF failureMode = "open" THEN Window * storeFaults.refused ELSE 0)

\* A client that was refused and comes again after as long as it was told, and Skew
\* more, finds a token: through whichever process, however long its stamp is under
\* way, whoever else was refused and whatever Redis lost meanwhile, as long as nobody
\* was granted one.  Without the Skew, a process whose clock is behind the one that
\* refused may refuse it again.
WaitIsEnough ==
    promised # None =>
        \A i \in Instances : \A stamp \in {time + ahead[i], stamped[i]} :
            stamp - ahead[i] >= promised + Skew => Refilled(stamp) >= Window
=============================================================================
