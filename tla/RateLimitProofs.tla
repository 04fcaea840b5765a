-------------------------- MODULE RateLimitProofs --------------------------
(***************************************************************************)
(* Theorems about RateLimiter and RefusalStats, for every number of API    *)
(* instances, every capacity, window and history, whatever the clocks say  *)
(* and however late a call reaches Redis.                                  *)
(***************************************************************************)
EXTENDS RateLimiter, RefusalStats, TLAPS

-----------------------------------------------------------------------------
(* Products *)

LEMMA Times ==
    ASSUME NEW c \in Nat
    PROVE  /\ \A a, b \in Int : c * (a + b) = c * a + c * b
           /\ \A a \in Int : c * a \in Int /\ (a + 1) * c = a * c + c /\ c * (a + 1) = c * a + c
           /\ \A a \in Nat : c * a \in Nat /\ a * c \in Nat
<1>1. \A a, b \in Int : c * (a + b) = c * a + c * b
  OBVIOUS
<1>2. \A a \in Int : c * a \in Int /\ (a + 1) * c = a * c + c /\ c * (a + 1) = c * a + c
  OBVIOUS
<1>3. \A a \in Nat : c * a \in Nat /\ a * c \in Nat
  OBVIOUS
<1> QED
  BY <1>1, <1>2, <1>3

LEMMA TimesGrow ==
    ASSUME NEW c \in Nat, NEW a \in Int, NEW b \in Int, a <= b
    PROVE  c * a <= c * b
<1>1. b - a \in Nat /\ c * (b - a) \in Nat /\ b = a + (b - a)
  BY Times
<1>2. c * b = c * a + c * (b - a)
  BY <1>1, Times
<1> QED
  BY <1>1, <1>2, Times

LEMMA FullBucket == Full \in Nat /\ Full >= Window /\ Capacity \in Nat \ {0} /\ Window \in Nat \ {0}
<1>1. Capacity \in Nat \ {0} /\ Window \in Nat \ {0}
  BY LimiterAssumption
<1>2. Window * 1 <= Window * Capacity
  BY <1>1, TimesGrow
<1>3. Full = Window * Capacity /\ Full \in Nat
  BY <1>1, Times DEF Full
<1> QED
  BY <1>1, <1>2, <1>3

LEMMA CeilReaches ==
    ASSUME NEW a \in Int, NEW b \in Nat \ {0}
    PROVE  Ceil(a, b) \in Int /\ b * Ceil(a, b) >= a
  BY DEF Ceil

-----------------------------------------------------------------------------
(* The token bucket: the invariant *)

\* A request was stamped by its instance's clock, at most Delay ago.
StampsRecent ==
    \A i \in Instances : stamped[i] # None =>
        /\ stamped[i] \in Nat /\ stamped[i] <= time + ahead[i]
        /\ time + ahead[i] - stamped[i] <= Delay

\* The stamp in the bucket was at most Skew ahead when it was written.
BucketWritten ==
    bucket = NoBucket \/ /\ bucket.ts \in Nat /\ bucket.at <= time
                         /\ bucket.ts <= bucket.at + Skew

\* What restarts and refusals of Redis may add to what passes.
Lost == (Full + Capacity * (Skew + Delay)) * storeFaults.restarted
Unmetered == IF failureMode = "open" THEN Window * storeFaults.refused ELSE 0

\* What passed and what the bucket still holds were refilled by its own stamp.  Once
\* the bucket is gone, what passed was refilled by any stamp still to come.
Metered ==
    /\ bucket.ts # None =>
          passed * Window + bucket.units
            <= Full + Capacity * (bucket.ts + rewound) + Lost + Unmetered
    /\ bucket.ts = None => \A x \in Nat : x >= time - Delay =>
          passed * Window <= Capacity * (x + rewound) + Lost + Unmetered

\* By any stamp that comes Skew after the promise the bucket holds a token.
PromiseHolds ==
    promised # None => \A s \in Nat : s >= promised + Skew => Refilled(s) >= Window

LimiterInv == LimiterOK /\ StampsRecent /\ BucketWritten /\ Metered /\ PromiseHolds

-----------------------------------------------------------------------------
(* The counts of refusals: the invariant *)

\* A call named its minute by its instance's clock, at most CallDelay ago.
CallsRecent ==
    \A i \in Counters :
        LET c == calls429[i]
        IN  c = NoCall429 \/ /\ c.for # "none" /\ c.since <= clock
                             /\ clock - c.since <= CallDelay
                             /\ c.minute * Minute <= c.since + lead[i]
                             /\ c.since + lead[i] < (c.minute + 1) * Minute

\* No key lost a count, and one that was ever written outlives every call that may
\* still name it.
KeysOutlive ==
    \A b \in Minutes :
        /\ keys[b].n = counted[b]
        /\ counted[b] # 0 => keys[b].dies >= (b + History) * Minute + CallDelay

StatsInv == StatsOK /\ clock <= MaxClock /\ CallsRecent /\ KeysOutlive

-----------------------------------------------------------------------------
(* The token bucket: its steps *)

LEMMA LimiterConstants ==
    /\ Capacity \in Nat \ {0} /\ Window \in Nat \ {0} /\ Full \in Nat /\ Full >= Window
    /\ {Slack, Skew, Delay, MaxTime, MaxRewind, MaxStoreFaults} \subseteq Nat
    /\ Skew + Delay <= Slack
    /\ Capacity * (Skew + Delay) \in Nat /\ None \in Int /\ None < 0
  BY FullBucket, Times, LimiterAssumption DEF None

LEMMA BudgetTyped ==
    ASSUME LimiterOK
    PROVE  /\ Lost \in Nat /\ Unmetered \in Nat /\ passed * Window \in Nat
           /\ Window * storeFaults.refused \in Nat
           /\ storeFaults.restarted \in Nat /\ storeFaults.refused \in Nat
<1>1. storeFaults.restarted \in Nat /\ storeFaults.refused \in Nat /\ passed \in Nat
  BY DEF LimiterOK
<1>2. Full + Capacity * (Skew + Delay) \in Nat
  BY LimiterConstants
<1> QED
  BY <1>1, <1>2, LimiterConstants, Times DEF Lost, Unmetered

\* The bucket holds no more than a full one, nor than its refill.
LEMMA RefilledBounds ==
    ASSUME LimiterOK, NEW now \in Nat
    PROVE  /\ Refilled(now) \in 0..Full
           /\ bucket.ts # None /\ now >= bucket.ts =>
                 Refilled(now) <= bucket.units + Capacity * (now - bucket.ts)
           /\ bucket.ts # None /\ now < bucket.ts => Refilled(now) <= bucket.units
<1>1. bucket.units \in 0..Full /\ bucket.ts \in Int
  BY DEF LimiterOK
<1> DEFINE more == Capacity * (IF now > bucket.ts THEN now - bucket.ts ELSE 0)
<1>2. /\ more \in Nat
      /\ now >= bucket.ts => more = Capacity * (now - bucket.ts)
      /\ now < bucket.ts => more = 0
  <2>1. CASE now > bucket.ts
    <3>1. now - bucket.ts \in Nat
      BY <1>1, <2>1
    <3> QED
      BY <1>1, <2>1, <3>1, LimiterConstants, Times
  <2>2. CASE ~(now > bucket.ts)
    <3>1. more = Capacity * 0 /\ Capacity * 0 = 0
      BY <2>2, LimiterConstants
    <3>2. now >= bucket.ts => now - bucket.ts = 0
      BY <1>1, <2>2
    <3> QED
      BY <3>1, <3>2
  <2> QED
    BY <2>1, <2>2
<1>3. Refilled(now) = IF bucket.ts = None THEN Full ELSE Least(Full, bucket.units + more)
  BY DEF Refilled
<1> HIDE DEF more
<1> QED
  BY <1>1, <1>2, <1>3, LimiterConstants DEF Least

\* A request that is refused leaves no later stamp with less, though it may set ts
\* back.
LEMMA RefusalKeeps ==
    ASSUME LimiterOK, NEW now \in Nat, NEW s \in Nat, Refilled(now) < Window,
           bucket'.units = Refilled(now), bucket'.ts = now, Refilled(s) >= Window
    PROVE  Refilled(s)' >= Window
<1> DEFINE gain == Capacity * (IF now > bucket.ts THEN now - bucket.ts ELSE 0)
           before == Capacity * (IF s > bucket.ts THEN s - bucket.ts ELSE 0)
           after == Capacity * (IF s > now THEN s - now ELSE 0)
<1>1. bucket.units \in Nat /\ bucket.ts \in Int /\ now # None
  BY LimiterConstants DEF LimiterOK
<1>2. bucket.ts # None
  BY LimiterConstants DEF Refilled
<1>3. gain \in Nat /\ before \in Nat /\ after \in Nat
  BY <1>1, LimiterConstants, Times
<1>4. before <= gain + after
  <2>1. CASE now > bucket.ts
    <3>1. /\ (IF s > bucket.ts THEN s - bucket.ts ELSE 0)
               <= (now - bucket.ts) + (IF s > now THEN s - now ELSE 0)
          /\ (IF s > bucket.ts THEN s - bucket.ts ELSE 0) \in Int
          /\ (IF s > now THEN s - now ELSE 0) \in Int /\ now - bucket.ts \in Int
      BY <1>1, <2>1
    <3>2. before <= Capacity * ((now - bucket.ts) + (IF s > now THEN s - now ELSE 0))
      BY <3>1, LimiterConstants, TimesGrow
    <3>3. Capacity * ((now - bucket.ts) + (IF s > now THEN s - now ELSE 0))
            = Capacity * (now - bucket.ts) + after
      BY <3>1, LimiterConstants, Times
    <3> QED
      BY <2>1, <3>2, <3>3
  <2>2. CASE ~(now > bucket.ts)
    <3>1. /\ (IF s > bucket.ts THEN s - bucket.ts ELSE 0) <= (IF s > now THEN s - now ELSE 0)
          /\ (IF s > bucket.ts THEN s - bucket.ts ELSE 0) \in Int
          /\ (IF s > now THEN s - now ELSE 0) \in Int
      BY <1>1, <2>2
    <3>2. before <= after
      BY <3>1, LimiterConstants, TimesGrow
    <3> QED
      BY <1>3, <3>2
  <2> QED
    BY <2>1, <2>2
<1>5. /\ Refilled(now) = Least(Full, bucket.units + gain)
      /\ Refilled(s) = Least(Full, bucket.units + before)
      /\ Refilled(s)' = Least(Full, bucket'.units + after)
  BY <1>1, <1>2 DEF Refilled
<1> HIDE DEF gain, before, after
<1> QED
  BY <1>1, <1>3, <1>4, <1>5, LimiterConstants DEF Least

\* The script keeps the bucket metered, whether the request passes (then there is a
\* token for it) or is refused (then it is told to wait long enough).
LEMMA ChargeMeters ==
    ASSUME LimiterInv, NEW i \in Instances, stamped[i] # None, Charge(i)
    PROVE  /\ bucket' \in [units : 0..Full, ts : Int, at : Nat]
           /\ bucket'.ts = stamped[i] /\ bucket'.ts \in Nat /\ bucket'.at = time
           /\ rewound' \in Nat /\ promised' \in Nat \cup {None}
           /\ passed * Window + bucket'.units
                + (IF Refilled(stamped[i]) >= Window THEN Window ELSE 0)
                <= Full + Capacity * (bucket'.ts + rewound') + Lost + Unmetered
           /\ PromiseHolds'
<1> DEFINE now == stamped[i]
           u == Refilled(now)
           left == IF u >= Window THEN u - Window ELSE u
<1>1. /\ LimiterOK /\ now \in Nat /\ now >= time - Delay /\ bucket.ts \in Int
      /\ rewound \in Nat /\ bucket.units \in Nat /\ time \in Nat /\ passed * Window \in Nat
      /\ Lost \in Nat /\ Unmetered \in Nat
  <2>1. LimiterOK /\ ahead[i] \in 0..Skew
    BY DEF LimiterInv, LimiterOK
  <2>2. now \in Nat /\ time + ahead[i] - now <= Delay /\ time \in Nat
    BY DEF LimiterInv, StampsRecent, LimiterOK
  <2>3. now >= time - Delay
    BY <2>1, <2>2, LimiterConstants
  <2>4. bucket.ts \in Int /\ bucket.units \in Nat /\ rewound \in Nat
    BY <2>1, LimiterConstants DEF LimiterOK
  <2> QED
    BY <2>1, <2>2, <2>3, <2>4, BudgetTyped
<1>2. u \in 0..Full /\ left \in 0..Full
  BY <1>1, RefilledBounds, LimiterConstants
<1>3. bucket' = [units |-> left, ts |-> now, at |-> time]
  BY DEF Charge
<1>4. promised' = IF u >= Window THEN None
                  ELSE IF promised = None THEN time + WaitFor(u)
                  ELSE Least(promised, time + WaitFor(u))
  BY DEF Charge
<1>5. rewound' = rewound + (IF now < bucket.ts THEN bucket.ts - now ELSE 0)
  BY DEF Charge
<1>6. passed * Window + u <= Full + Capacity * (now + rewound') + Lost + Unmetered
  <2>1. CASE bucket.ts = None
    <3>1. rewound' = rewound
      BY <1>1, <1>5, <2>1, LimiterConstants
    <3>2. passed * Window <= Capacity * (now + rewound) + Lost + Unmetered
      BY <1>1, <2>1 DEF LimiterInv, Metered
    <3>3. Capacity * (now + rewound) \in Nat
      BY <1>1, LimiterConstants, Times
    <3> QED
      BY <1>1, <1>2, <3>1, <3>2, <3>3, LimiterConstants
  <2>2. CASE bucket.ts # None
    <3>1. /\ passed * Window + bucket.units
               <= Full + Capacity * (bucket.ts + rewound) + Lost + Unmetered
          /\ Capacity * (bucket.ts + rewound) \in Int
      BY <1>1, <2>2, LimiterConstants, Times DEF LimiterInv, Metered
    <3>2. CASE now >= bucket.ts
      <4>1. rewound' = rewound /\ u <= bucket.units + Capacity * (now - bucket.ts)
        BY <1>1, <1>5, <2>2, <3>2, RefilledBounds
      <4>2. now + rewound = (bucket.ts + rewound) + (now - bucket.ts)
        BY <1>1
      <4>3. Capacity * (now + rewound)
              = Capacity * (bucket.ts + rewound) + Capacity * (now - bucket.ts)
        BY <1>1, <4>2, LimiterConstants, Times
      <4>4. Capacity * (now - bucket.ts) \in Int
        BY <1>1, LimiterConstants, Times
      <4> HIDE DEF u
      <4> QED
        BY <1>1, <1>2, <3>1, <4>1, <4>3, <4>4, LimiterConstants
    <3>3. CASE now < bucket.ts
      <4>1. u <= bucket.units /\ now + rewound' = bucket.ts + rewound
        BY <1>1, <1>5, <2>2, <3>3, RefilledBounds
      <4> QED
        BY <1>1, <1>2, <3>1, <4>1, LimiterConstants
    <3> QED
      BY <1>1, <3>2, <3>3
  <2> QED
    BY <2>1, <2>2
<1>7. rewound' \in Nat
  BY <1>1, <1>5
<1>8. ~(u >= Window) => /\ WaitFor(u) \in Nat /\ Capacity * WaitFor(u) >= Window - u
  <2>1. ASSUME ~(u >= Window)
        PROVE  WaitFor(u) \in Int /\ Capacity * WaitFor(u) >= Window - u
    BY <1>2, LimiterConstants, CeilReaches DEF WaitFor
  <2>2. ASSUME ~(u >= Window), WaitFor(u) < 0
        PROVE  FALSE
    <3>1. Capacity * WaitFor(u) <= Capacity * 0 /\ Capacity * 0 = 0 /\ Capacity * WaitFor(u) \in Int
      BY <2>1, <2>2, LimiterConstants, TimesGrow, Times
    <3> HIDE DEF u
    <3> QED
      BY <1>2, <2>1, <2>2, <3>1, LimiterConstants
  <2> QED
    BY <2>1, <2>2
<1>9. promised' \in Nat \cup {None}
  <2>1. promised \in Nat \cup {None}
    BY DEF LimiterInv, LimiterOK
  <2> HIDE DEF u
  <2> QED
    BY <1>1, <1>4, <1>8, <2>1 DEF Least
<1>10. PromiseHolds'
  <2> SUFFICES ASSUME promised' # None, NEW s \in Nat, s >= promised' + Skew
               PROVE  Refilled(s)' >= Window
    BY DEF PromiseHolds
  <2>1. /\ ~(u >= Window)
        /\ promised' = time + WaitFor(u) \/ (promised # None /\ promised' = promised)
    <3> HIDE DEF u
    <3> QED
      BY <1>4 DEF Least
  <2>2. left = u /\ u \in Nat /\ bucket'.units = u /\ bucket'.ts = now /\ now # None
    BY <1>1, <1>2, <1>3, <2>1, LimiterConstants
  <2>3. CASE promised # None /\ promised' = promised
    <3>1. Refilled(s) >= Window
      BY <2>3 DEF LimiterInv, PromiseHolds
    <3> QED
      BY <1>1, <2>1, <2>2, <3>1, RefusalKeeps, LimiterConstants
  \* The stamp of the refused request was at most Skew ahead of the time.
  <2>4. CASE promised' = time + WaitFor(u)
    <3>1. now <= time + Skew
      <4>1. now <= time + ahead[i] /\ ahead[i] \in 0..Skew
        BY DEF LimiterInv, StampsRecent, LimiterOK
      <4> QED
        BY <1>1, <4>1, LimiterConstants
    <3>2. WaitFor(u) # 0
      <4>1. Capacity * 0 = 0
        BY LimiterConstants
      <4> HIDE DEF u
      <4> QED
        BY <1>8, <2>1, <2>2, <4>1, LimiterConstants
    <3>3. WaitFor(u) \in Nat /\ Capacity * WaitFor(u) >= Window - u /\ Capacity * WaitFor(u) \in Int
      BY <1>8, <2>1, LimiterConstants, Times
    <3>4. s - now >= WaitFor(u) /\ s > now
      <4> DEFINE w == WaitFor(u)
      <4>1. w \in Nat /\ w # 0 /\ s >= (time + w) + Skew
        BY <2>4, <3>2, <3>3
      <4> HIDE DEF w
      <4>2. s - now >= w /\ s > now
        BY <1>1, <3>1, <4>1, LimiterConstants
      <4> QED
        BY <4>2 DEF w
    <3>5. Capacity * WaitFor(u) <= Capacity * (s - now) /\ Capacity * (s - now) \in Int
      <4>1. s - now \in Int /\ WaitFor(u) \in Int
        BY <1>1, <3>3
      <4> HIDE DEF now, u
      <4> QED
        BY <3>4, <4>1, LimiterConstants, Times, TimesGrow
    <3>6. Refilled(s)' = Least(Full, u + Capacity * (s - now))
      BY <2>2, <3>4 DEF Refilled
    <3> DEFINE w == Capacity * WaitFor(u)
               m == Capacity * (s - now)
    <3>7. w \in Int /\ m \in Int /\ w <= m /\ w >= Window - u /\ Refilled(s)' = Least(Full, u + m)
      BY <3>3, <3>5, <3>6
    <3> HIDE DEF w, m, u
    <3> QED
      BY <2>2, <3>7, LimiterConstants DEF Least
  <2> QED
    BY <2>1, <2>3, <2>4
<1> QED
  BY <1>1, <1>2, <1>3, <1>6, <1>7, <1>9, <1>10, LimiterConstants

\* The request of i is answered, and the time is what it was.
LEMMA AnsweredStamps ==
    ASSUME LimiterInv, NEW i \in Instances, stamped' = [stamped EXCEPT ![i] = None],
           UNCHANGED <<time, ahead>>
    PROVE  stamped' \in [Instances -> Int] /\ StampsRecent'
<1>1. stamped' \in [Instances -> Int] /\ stamped'[i] = None
      /\ \A j \in Instances \ {i} : stamped'[j] = stamped[j]
  BY LimiterConstants DEF LimiterInv, LimiterOK
<1> QED
  BY <1>1 DEF LimiterInv, StampsRecent

LEMMA FaultCounted ==
    ASSUME LimiterOK, NEW kind \in {"refused", "restarted"}, StoreFault(kind)
    PROVE  /\ storeFaults' \in [refused : Nat, restarted : Nat]
           /\ storeFaults'[kind] = storeFaults[kind] + 1
           /\ \A other \in {"refused", "restarted"} \ {kind} :
                 storeFaults'[other] = storeFaults[other]
  BY DEF LimiterOK, StoreFault

LEMMA TickStep ==
    ASSUME LimiterInv, Tick
    PROVE  LimiterInv'
<1> USE DEF LimiterInv
<1>1. time \in Nat /\ time' = time + 1
      /\ UNCHANGED <<ahead, stamped, bucket, failureMode, promised, passed, rewound, storeFaults>>
  BY DEF Tick, LimiterOK
<1>2. LimiterOK'
  BY <1>1 DEF LimiterOK
<1>3. StampsRecent'
  <2> SUFFICES ASSUME NEW i \in Instances, stamped[i] # None
               PROVE  /\ stamped[i] \in Nat /\ stamped[i] <= time + 1 + ahead[i]
                      /\ time + 1 + ahead[i] - stamped[i] <= Delay
    BY <1>1 DEF StampsRecent
  <2>1. stamped[i] \in Nat /\ stamped[i] <= time + ahead[i] /\ ahead[i] \in 0..Skew
    BY DEF StampsRecent, LimiterOK
  <2>2. time + ahead[i] - stamped[i] < Delay
    BY DEF Tick
  <2> QED
    BY <1>1, <2>1, <2>2, LimiterConstants
<1>4. BucketWritten'
  <2>1. bucket.at \in Nat
    BY DEF LimiterOK
  <2> QED
    BY <1>1, <2>1 DEF BucketWritten
<1>5. Metered'
  <2>1. Lost' = Lost /\ Unmetered' = Unmetered
    BY <1>1 DEF Lost, Unmetered
  <2>2. \A x \in Nat : x >= time' - Delay => x >= time - Delay
    BY <1>1, LimiterConstants
  <2>3. ASSUME bucket.ts = None, NEW x \in Nat, x >= time' - Delay
        PROVE  passed * Window <= Capacity * (x + rewound) + Lost + Unmetered
    <3>1. x >= time - Delay
      BY <2>2, <2>3
    <3> QED
      BY <2>3, <3>1 DEF Metered
  <2>4. UNCHANGED <<bucket, passed, rewound>>
    BY <1>1
  <2> QED
    BY <2>1, <2>3, <2>4 DEF Metered
<1>6. PromiseHolds'
  BY <1>1 DEF PromiseHolds, Refilled
<1> QED
  BY <1>2, <1>3, <1>4, <1>5, <1>6

LEMMA StampStep ==
    ASSUME LimiterInv, NEW i \in Instances, Stamp(i)
    PROVE  LimiterInv'
<1> USE DEF LimiterInv
<1>1. /\ stamped' = [stamped EXCEPT ![i] = time + ahead[i]]
      /\ UNCHANGED <<time, ahead, bucket, failureMode, promised, passed, rewound, storeFaults>>
  BY DEF Stamp
<1>2. time \in Nat /\ ahead[i] \in 0..Skew /\ time + ahead[i] \in Nat
  BY LimiterConstants DEF LimiterOK
<1>3. /\ stamped' \in [Instances -> Int] /\ stamped'[i] = time + ahead[i]
      /\ \A j \in Instances \ {i} : stamped'[j] = stamped[j]
  BY <1>1, <1>2 DEF LimiterOK
<1>4. LimiterOK'
  BY <1>1, <1>3 DEF LimiterOK
<1>5. StampsRecent'
  BY <1>1, <1>2, <1>3, LimiterConstants DEF StampsRecent
<1>6. BucketWritten' /\ PromiseHolds'
  BY <1>1 DEF BucketWritten, PromiseHolds, Refilled
<1>7. Metered'
  BY <1>1 DEF Metered, Lost, Unmetered
<1> QED
  BY <1>4, <1>5, <1>6, <1>7

LEMMA LimitStep ==
    ASSUME LimiterInv, NEW i \in Instances, Limit(i)
    PROVE  LimiterInv'
<1> DEFINE ok == Refilled(stamped[i]) >= Window
<1>1. /\ stamped[i] # None /\ Charge(i) /\ stamped' = [stamped EXCEPT ![i] = None]
      /\ passed' = passed + (IF ok THEN 1 ELSE 0)
      /\ UNCHANGED <<time, ahead, failureMode, storeFaults>>
  BY DEF Limit
<1>2. /\ bucket' \in [units : 0..Full, ts : Int, at : Nat]
      /\ bucket'.ts = stamped[i] /\ bucket'.ts \in Nat /\ bucket'.at = time
      /\ rewound' \in Nat /\ promised' \in Nat \cup {None}
      /\ passed * Window + bucket'.units + (IF ok THEN Window ELSE 0)
           <= Full + Capacity * (bucket'.ts + rewound') + Lost + Unmetered
      /\ PromiseHolds'
  BY <1>1, ChargeMeters
<1> HIDE DEF ok
<1>3. LimiterOK /\ passed \in Nat /\ time \in Nat /\ ahead[i] \in 0..Skew
  BY DEF LimiterInv, LimiterOK
<1>4. passed' \in Nat /\ passed' * Window = passed * Window + (IF ok THEN Window ELSE 0)
  <2>1. passed * Window \in Nat
    BY <1>3, BudgetTyped
  <2>2. (passed + 1) * Window = passed * Window + Window
    <3>1. Window \in Nat /\ passed \in Int
      BY <1>3, LimiterConstants
    <3> QED
      BY <3>1, Times
  <2> QED
    BY <1>1, <1>3, <2>1, <2>2, LimiterConstants
<1>5. stamped' \in [Instances -> Int] /\ StampsRecent'
  BY <1>1, AnsweredStamps
<1>6. LimiterOK'
  BY <1>1, <1>2, <1>3, <1>4, <1>5 DEF LimiterOK
<1>7. BucketWritten'
  <2>1. stamped[i] <= time + ahead[i]
    BY <1>1 DEF LimiterInv, StampsRecent
  <2> QED
    BY <1>1, <1>2, <1>3, <2>1, LimiterConstants DEF BucketWritten
<1>8. Metered'
  <2>1. Lost' = Lost /\ Unmetered' = Unmetered /\ Lost \in Nat /\ Unmetered \in Nat
        /\ passed * Window \in Nat
    BY <1>1, <1>3, BudgetTyped DEF Lost, Unmetered
  <2>2. Capacity * (bucket'.ts + rewound') \in Int /\ bucket'.units \in Nat
    BY <1>2, LimiterConstants, Times
  <2>3. passed' * Window + bucket'.units
          <= Full + Capacity * (bucket'.ts + rewound') + Lost' + Unmetered'
    BY <1>2, <1>4, <2>1, <2>2, LimiterConstants
  <2>4. bucket'.ts # None
    BY <1>2, LimiterConstants
  <2> QED
    BY <2>3, <2>4 DEF Metered
<1> QED
  BY <1>2, <1>5, <1>6, <1>7, <1>8 DEF LimiterInv

LEMMA StoreFailsStep ==
    ASSUME LimiterInv, NEW i \in Instances, StoreFails(i)
    PROVE  LimiterInv'
<1> DEFINE extra == IF failureMode = "open" THEN Window ELSE 0
<1>1. /\ stamped[i] # None /\ StoreFault("refused") /\ stamped' = [stamped EXCEPT ![i] = None]
      /\ passed' = passed + (IF failureMode = "open" THEN 1 ELSE 0)
      /\ UNCHANGED <<time, ahead, failureMode>>
  BY DEF StoreFails
<1>2. /\ LimiterOK /\ passed \in Nat /\ time \in Nat /\ ahead[i] \in 0..Skew
      /\ passed * Window \in Nat /\ Lost \in Nat /\ Unmetered \in Nat
      /\ storeFaults.refused \in Nat
  BY BudgetTyped DEF LimiterInv, LimiterOK
<1>3. /\ storeFaults' \in [refused : Nat, restarted : Nat]
      /\ storeFaults'.refused = storeFaults.refused + 1
      /\ storeFaults'.restarted = storeFaults.restarted
  BY <1>1, <1>2, FaultCounted
\* A request that passes unmetered is one more refusal of Redis.
<1>4. passed' \in Nat /\ passed' * Window = passed * Window + extra
  <2>1. (passed + 1) * Window = passed * Window + Window
    <3>1. Window \in Nat /\ passed \in Int
      BY <1>2, LimiterConstants
    <3> QED
      BY <3>1, Times
  <2> QED
    BY <1>1, <1>2, <2>1, LimiterConstants
<1>5. Lost' = Lost /\ Unmetered' = Unmetered + extra /\ extra \in Nat
  <2>1. Window * (storeFaults.refused + 1) = Window * storeFaults.refused + Window
    <3>1. Window \in Nat /\ storeFaults.refused \in Int
      BY <1>2, LimiterConstants
    <3> QED
      BY <3>1, Times
  <2>2. Window * storeFaults'.refused = Window * storeFaults.refused + Window
    BY <1>3, <2>1
  <2> QED
    BY <1>1, <1>3, <2>2, LimiterConstants DEF Lost, Unmetered
<1>6. stamped' \in [Instances -> Int] /\ StampsRecent'
  BY <1>1, AnsweredStamps
<1> HIDE DEF extra
<1>7. CASE UNCHANGED <<bucket, promised, rewound>>
  <2>1. LimiterOK'
    BY <1>1, <1>2, <1>3, <1>4, <1>6, <1>7 DEF LimiterOK
  <2>2. BucketWritten' /\ PromiseHolds'
    BY <1>1, <1>7 DEF LimiterInv, BucketWritten, PromiseHolds, Refilled
  <2>3. ASSUME bucket.ts # None
        PROVE  passed' * Window + bucket.units
                 <= Full + Capacity * (bucket.ts + rewound) + Lost' + Unmetered'
    <3>1. passed * Window + bucket.units
            <= Full + Capacity * (bucket.ts + rewound) + Lost + Unmetered
      BY <2>3 DEF LimiterInv, Metered
    <3>2. PICK c \in Int, u \in Int : c = Capacity * (bucket.ts + rewound) /\ u = bucket.units
      <4>1. bucket.ts + rewound \in Int /\ bucket.units \in Int
        BY <1>2 DEF LimiterOK
      <4> QED
        BY <4>1, LimiterConstants, Times
    <3>3. PICK p \in Int : p = passed * Window
      BY <1>2
    <3>4. p + u <= Full + c + Lost + Unmetered
      BY <3>1, <3>2, <3>3
    <3>5. (p + extra) + u <= Full + c + Lost + (Unmetered + extra)
      BY <1>2, <1>5, <3>2, <3>3, <3>4, LimiterConstants
    <3> QED
      BY <1>4, <1>5, <3>2, <3>3, <3>5
  <2>4. ASSUME bucket.ts = None, NEW x \in Nat, x >= time - Delay
        PROVE  passed' * Window <= Capacity * (x + rewound) + Lost' + Unmetered'
    <3>1. passed * Window <= Capacity * (x + rewound) + Lost + Unmetered
      BY <2>4 DEF LimiterInv, Metered
    <3>2. Capacity * (x + rewound) \in Int
      <4>1. x + rewound \in Int
        BY <1>2 DEF LimiterOK
      <4> QED
        BY <4>1, LimiterConstants, Times
    <3> QED
      BY <1>2, <1>4, <1>5, <3>1, <3>2
  <2>5. Metered'
    BY <1>1, <1>7, <2>3, <2>4 DEF Metered
  <2> QED
    BY <1>6, <2>1, <2>2, <2>5 DEF LimiterInv
<1>8. CASE Charge(i)
  <2>1. /\ bucket' \in [units : 0..Full, ts : Int, at : Nat]
        /\ bucket'.ts = stamped[i] /\ bucket'.ts \in Nat /\ bucket'.at = time
        /\ rewound' \in Nat /\ promised' \in Nat \cup {None} /\ PromiseHolds'
    BY <1>1, <1>8, ChargeMeters
  <2>2. passed * Window + bucket'.units
          <= Full + Capacity * (bucket'.ts + rewound') + Lost + Unmetered
    <3>1. passed * Window + bucket'.units + (IF Refilled(stamped[i]) >= Window THEN Window ELSE 0)
            <= Full + Capacity * (bucket'.ts + rewound') + Lost + Unmetered
      BY <1>1, <1>8, ChargeMeters
    <3>2. Capacity * (bucket'.ts + rewound') \in Int /\ bucket'.units \in Nat
      BY <2>1, LimiterConstants, Times
    <3> QED
      BY <1>2, <3>1, <3>2, LimiterConstants
  <2>3. LimiterOK'
    BY <1>1, <1>2, <1>3, <1>4, <1>6, <2>1 DEF LimiterOK
  <2>4. BucketWritten'
    <3>1. stamped[i] <= time + ahead[i]
      BY <1>1 DEF LimiterInv, StampsRecent
    <3> QED
      BY <1>1, <1>2, <2>1, <3>1, LimiterConstants DEF BucketWritten
  <2>5. Metered'
    <3>1. Capacity * (bucket'.ts + rewound') \in Int /\ bucket'.units \in Nat
      BY <2>1, LimiterConstants, Times
    <3>2. passed' * Window + bucket'.units
            <= Full + Capacity * (bucket'.ts + rewound') + Lost' + Unmetered'
      <4>1. PICK c \in Int, u \in Int :
              c = Capacity * (bucket'.ts + rewound') /\ u = bucket'.units
        BY <3>1
      <4>2. passed * Window + u <= Full + c + Lost + Unmetered
        BY <2>2, <4>1
      <4>3. (passed * Window + extra) + u <= Full + c + Lost + (Unmetered + extra)
        <5>1. PICK p \in Int : p = passed * Window
          BY <1>2
        <5>2. p + u <= Full + c + Lost + Unmetered
          BY <4>2, <5>1
        <5>3. (p + extra) + u <= Full + c + Lost + (Unmetered + extra)
          BY <1>2, <1>5, <4>1, <5>1, <5>2, LimiterConstants
        <5> QED
          BY <5>1, <5>3
      <4>4. passed' * Window + u <= Full + c + Lost' + Unmetered'
        BY <1>4, <1>5, <4>3
      <4> QED
        BY <4>1, <4>4
    <3>3. bucket'.ts # None
      BY <2>1, LimiterConstants
    <3> QED
      BY <3>2, <3>3 DEF Metered
  <2> QED
    BY <1>6, <2>1, <2>3, <2>4, <2>5 DEF LimiterInv
<1> QED
  BY <1>7, <1>8 DEF StoreFails

LEMMA NoBucketTyped ==
    /\ NoBucket \in [units : 0..Full, ts : Int, at : Nat] /\ NoBucket.ts = None
  BY LimiterConstants DEF NoBucket

\* The bucket is gone: what passed is within the refill by any stamp still to come.
LEMMA ExpiresStep ==
    ASSUME LimiterInv, BucketExpires
    PROVE  LimiterInv'
<1>1. /\ bucket # NoBucket /\ time - bucket.at >= Window + Slack
      /\ bucket' = NoBucket
      /\ UNCHANGED <<time, ahead, stamped, failureMode, promised, passed, rewound, storeFaults>>
  BY DEF BucketExpires
<1>2. /\ LimiterOK /\ time \in Nat /\ rewound \in Nat /\ bucket.at \in Nat /\ bucket.units \in Nat
      /\ passed * Window \in Nat /\ Lost \in Nat /\ Unmetered \in Nat
  BY BudgetTyped, LimiterConstants DEF LimiterInv, LimiterOK
<1>3. bucket.ts \in Nat /\ bucket.ts # None /\ bucket.ts <= bucket.at + Skew
  BY <1>1, LimiterConstants DEF LimiterInv, BucketWritten
<1>4. LimiterOK' /\ StampsRecent' /\ BucketWritten' /\ PromiseHolds'
  BY <1>1, <1>2, NoBucketTyped, LimiterConstants
     DEF LimiterInv, LimiterOK, StampsRecent, BucketWritten, PromiseHolds, Refilled
<1>5. ASSUME NEW x \in Nat, x >= time - Delay
      PROVE  passed * Window <= Capacity * (x + rewound) + Lost + Unmetered
  <2>1. Window + (bucket.ts + rewound) <= x + rewound
    BY <1>1, <1>2, <1>3, <1>5, LimiterConstants
  <2>2. Capacity * (Window + (bucket.ts + rewound)) <= Capacity * (x + rewound)
    BY <1>2, <1>3, <2>1, LimiterConstants, TimesGrow
  <2>3. Capacity * (Window + (bucket.ts + rewound)) = Full + Capacity * (bucket.ts + rewound)
    BY <1>2, <1>3, LimiterConstants, Times DEF Full
  <2>4. passed * Window + bucket.units
          <= Full + Capacity * (bucket.ts + rewound) + Lost + Unmetered
    BY <1>3 DEF LimiterInv, Metered
  <2>5. Capacity * (bucket.ts + rewound) \in Nat /\ Capacity * (x + rewound) \in Nat
    BY <1>2, <1>3, LimiterConstants, Times
  <2> QED
    BY <1>2, <2>2, <2>3, <2>4, <2>5, LimiterConstants
<1>6. Metered'
  BY <1>1, <1>5, NoBucketTyped DEF Metered, Lost, Unmetered
<1> QED
  BY <1>4, <1>6 DEF LimiterInv

LEMMA RestartsStep ==
    ASSUME LimiterInv, StoreRestarts
    PROVE  LimiterInv'
<1>1. /\ bucket # NoBucket /\ StoreFault("restarted")
      /\ bucket' = NoBucket
      /\ UNCHANGED <<time, ahead, stamped, failureMode, promised, passed, rewound>>
  BY DEF StoreRestarts
<1>2. /\ LimiterOK /\ time \in Nat /\ rewound \in Nat /\ bucket.at \in Nat /\ bucket.units \in Nat
      /\ passed * Window \in Nat /\ Lost \in Nat /\ Unmetered \in Nat
      /\ storeFaults.restarted \in Nat
  BY BudgetTyped, LimiterConstants DEF LimiterInv, LimiterOK
<1>3. /\ bucket.ts \in Nat /\ bucket.ts # None /\ bucket.ts <= bucket.at + Skew
      /\ bucket.at <= time
  BY <1>1, LimiterConstants DEF LimiterInv, BucketWritten
<1>4. /\ storeFaults' \in [refused : Nat, restarted : Nat]
      /\ storeFaults'.restarted = storeFaults.restarted + 1
      /\ storeFaults'.refused = storeFaults.refused
  BY <1>1, <1>2, FaultCounted
<1>5. LimiterOK' /\ StampsRecent' /\ BucketWritten' /\ PromiseHolds'
  BY <1>1, <1>2, <1>4, NoBucketTyped, LimiterConstants
     DEF LimiterInv, LimiterOK, StampsRecent, BucketWritten, PromiseHolds, Refilled
<1>6. Unmetered' = Unmetered /\ Lost' = Lost + (Full + Capacity * (Skew + Delay))
  <2> DEFINE r == Full + Capacity * (Skew + Delay)
  <2>1. r \in Nat
    BY LimiterConstants
  <2> HIDE DEF r
  <2>2. r * (storeFaults.restarted + 1) = r * storeFaults.restarted + r
    BY <1>2, <2>1, Times
  <2>3. r * storeFaults'.restarted = r * storeFaults.restarted + r
    BY <1>4, <2>2
  <2> USE DEF r
  <2> QED
    BY <1>1, <1>4, <2>3 DEF Lost, Unmetered
<1>7. ASSUME NEW x \in Nat, x >= time - Delay
      PROVE  passed * Window <= Capacity * (x + rewound) + Lost' + Unmetered'
  <2>1. bucket.ts + rewound <= (x + rewound) + (Skew + Delay)
    BY <1>2, <1>3, <1>7, LimiterConstants
  <2>2. Capacity * (bucket.ts + rewound) <= Capacity * ((x + rewound) + (Skew + Delay))
    BY <1>2, <1>3, <2>1, LimiterConstants, TimesGrow
  <2>3. Capacity * ((x + rewound) + (Skew + Delay))
          = Capacity * (x + rewound) + Capacity * (Skew + Delay)
    BY <1>2, LimiterConstants, Times
  <2>4. passed * Window + bucket.units
          <= Full + Capacity * (bucket.ts + rewound) + Lost + Unmetered
    BY <1>3 DEF LimiterInv, Metered
  <2>5. Capacity * (bucket.ts + rewound) \in Nat /\ Capacity * (x + rewound) \in Nat
    BY <1>2, <1>3, LimiterConstants, Times
  <2> QED
    BY <1>2, <1>6, <2>2, <2>3, <2>4, <2>5, LimiterConstants
<1>8. Metered'
  BY <1>1, <1>7, NoBucketTyped DEF Metered
<1> QED
  BY <1>5, <1>8 DEF LimiterInv

-----------------------------------------------------------------------------
(* The token bucket: theorems *)

LEMMA LimiterInitially == InitLimiter => LimiterInv
<1> SUFFICES ASSUME InitLimiter
             PROVE  LimiterInv
  OBVIOUS
<1>1. /\ time = 0 /\ ahead \in [Instances -> 0..Skew] /\ stamped = [j \in Instances |-> None]
      /\ bucket = NoBucket /\ promised = None /\ passed = 0 /\ rewound = 0
      /\ storeFaults = [refused |-> 0, restarted |-> 0]
  BY DEF InitLimiter
<1>2. LimiterOK /\ StampsRecent /\ BucketWritten /\ PromiseHolds
  BY <1>1, NoBucketTyped, LimiterConstants
     DEF LimiterOK, StampsRecent, BucketWritten, PromiseHolds
<1>3. ASSUME NEW x \in Nat
      PROVE  passed * Window <= Capacity * (x + rewound) + Lost + Unmetered
  <2>1. Capacity * (x + rewound) \in Nat /\ passed * Window = 0
    BY <1>1, LimiterConstants, Times
  <2> QED
    BY <1>2, <2>1, BudgetTyped
<1>4. Metered
  BY <1>1, <1>3, NoBucketTyped DEF Metered
<1> QED
  BY <1>2, <1>4 DEF LimiterInv

\* The invariant is inductive.
THEOREM LimiterInvariant == SpecLimiter => []LimiterInv
<1>1. LimiterInv /\ [NextLimiter]_limiterVars => LimiterInv'
  <2> SUFFICES ASSUME LimiterInv, [NextLimiter]_limiterVars
               PROVE  LimiterInv'
    OBVIOUS
  <2>1. CASE UNCHANGED limiterVars
    BY <2>1 DEF limiterVars, LimiterInv, LimiterOK, StampsRecent, BucketWritten, Metered, Lost,
                Unmetered, PromiseHolds, Refilled
  <2> QED
    BY <2>1, TickStep, StampStep, LimitStep, StoreFailsStep, ExpiresStep, RestartsStep
       DEF NextLimiter
<1> QED
  BY <1>1, LimiterInitially, PTL DEF SpecLimiter

\* Every variable of the limiter has a value of its type; the bucket never holds
\* more than a full one, nor less than nothing.
THEOREM LimiterTypeCorrect == SpecLimiter => []LimiterOK
<1>1. LimiterInv => LimiterOK
  BY DEF LimiterInv
<1> QED
  BY <1>1, LimiterInvariant, PTL

\* TOKEN_BUCKET_LUA, whoever calls it, in whatever order the stamps arrive, and
\* whatever Redis loses: no more passes than the budget.
THEOREM BudgetHolds == SpecLimiter => []WithinBudget
<1>1. LimiterInv => WithinBudget
  <2> SUFFICES ASSUME LimiterInv
               PROVE  WithinBudget
    OBVIOUS
  <2>1. /\ time \in Nat /\ rewound \in Nat /\ bucket.units \in Nat /\ bucket.ts \in Int
        /\ passed * Window \in Nat /\ Lost \in Nat /\ Unmetered \in Nat /\ bucket.at \in Nat
    BY BudgetTyped, LimiterConstants DEF LimiterInv, LimiterOK
  <2>2. passed * Window <= Full + Capacity * (time + Skew + rewound) + Lost + Unmetered
    <3>1. CASE bucket.ts = None
      <4>1. passed * Window <= Capacity * (time + rewound) + Lost + Unmetered
        BY <2>1, <3>1, LimiterConstants DEF LimiterInv, Metered
      <4>2. Capacity * (time + rewound) <= Capacity * (time + Skew + rewound)
        BY <2>1, LimiterConstants, TimesGrow
      <4>3. Capacity * (time + rewound) \in Nat /\ Capacity * (time + Skew + rewound) \in Nat
        BY <2>1, LimiterConstants, Times
      <4> QED
        BY <2>1, <4>1, <4>2, <4>3, LimiterConstants
    <3>2. CASE bucket.ts # None
      <4>1. passed * Window + bucket.units
              <= Full + Capacity * (bucket.ts + rewound) + Lost + Unmetered
        BY <3>2 DEF LimiterInv, Metered
      <4>2. bucket.ts \in Nat /\ bucket.ts <= time + Skew
        BY <2>1, <3>2, NoBucketTyped, LimiterConstants DEF LimiterInv, BucketWritten
      <4>3. Capacity * (bucket.ts + rewound) <= Capacity * (time + Skew + rewound)
        BY <2>1, <4>2, LimiterConstants, TimesGrow
      <4>4. Capacity * (bucket.ts + rewound) \in Nat /\ Capacity * (time + Skew + rewound) \in Nat
        BY <2>1, <4>2, LimiterConstants, Times
      <4> QED
        BY <2>1, <4>1, <4>3, <4>4, LimiterConstants
    <3> QED
      BY <3>1, <3>2
  <2> QED
    BY <2>2 DEF WithinBudget, Lost, Unmetered
<1> QED
  BY <1>1, LimiterInvariant, PTL

\* ttl_ms of a refused request, for every capacity, window and difference of clocks:
\* waiting that long, and as long as the clocks differ, is enough.
THEOREM WaitEnough == SpecLimiter => []WaitIsEnough
<1>1. ASSUME LimiterInv
      PROVE  WaitIsEnough
  <2> SUFFICES ASSUME promised # None, NEW i \in Instances, NEW stamp \in {time + ahead[i], stamped[i]},
                      stamp - ahead[i] >= promised + Skew
               PROVE  Refilled(stamp) >= Window
    BY DEF WaitIsEnough
  <2>1. /\ promised \in Nat /\ ahead[i] \in Nat /\ time \in Nat /\ stamped[i] \in Int
        /\ ahead[i] >= 0
    BY <1>1, LimiterConstants DEF LimiterInv, LimiterOK
  <2>2. stamp \in Nat /\ stamp >= promised + Skew
    BY <2>1, LimiterConstants
  <2> QED
    BY <1>1, <2>2 DEF LimiterInv, PromiseHolds
<1> QED
  BY <1>1, LimiterInvariant, PTL

-----------------------------------------------------------------------------
(* The counts of refusals: its steps *)

LEMMA Division ==
    ASSUME NEW a \in Nat, NEW b \in Nat \ {0}
    PROVE  a \div b \in Nat /\ b * (a \div b) <= a /\ a < b * ((a \div b) + 1)
  OBVIOUS

LEMMA DivisionGrows ==
    ASSUME NEW a \in Nat, NEW c \in Nat, NEW b \in Nat \ {0}, a <= c
    PROVE  a \div b <= c \div b
<1>1. PICK m \in Nat, n \in Nat : m = a \div b /\ n = c \div b
  BY Division
<1>2. b * m <= a /\ c < b * (n + 1)
  BY <1>1, Division
<1>3. ASSUME n + 1 <= m
      PROVE  FALSE
  <2>1. b * (n + 1) <= b * m
    BY <1>1, <1>3, TimesGrow
  <2>2. b * (n + 1) \in Nat /\ b * m \in Nat
    BY <1>1, Times
  <2> QED
    BY <1>2, <2>1, <2>2
<1>4. m <= n
  BY <1>1, <1>3
<1> QED
  BY <1>1, <1>4

LEMMA StatsConstants ==
    /\ Minute \in Nat \ {0} /\ History \in Nat \ {0} /\ KeyTTL \in Nat
    /\ ClockSkew \in Nat /\ CallDelay \in Nat /\ MaxClock \in Nat /\ MaxRefusals \in Nat
    /\ Minute * History \in Nat
    /\ KeyTTL >= Minute * History + ClockSkew + CallDelay
    /\ 0 \in Minutes /\ Minutes \subseteq Nat
<1>1. Minute \in Nat \ {0} /\ History \in Nat \ {0} /\ KeyTTL \in Nat
      /\ ClockSkew \in Nat /\ CallDelay \in Nat /\ MaxClock \in Nat /\ MaxRefusals \in Nat
  BY StatsAssumption
<1>2. Minute * History \in Nat /\ History * Minute = Minute * History
  BY <1>1, Times
<1>3. (MaxClock + ClockSkew) \div Minute \in Nat
  BY <1>1, Division
<1> QED
  BY <1>1, <1>2, <1>3, StatsAssumption DEF Minutes

\* The minute a call names is one of the model's, and its clock was within it.
LEMMA MinuteNamed ==
    ASSUME StatsInv, NEW i \in Counters
    PROVE  /\ MinuteOf(i) \in Minutes
           /\ MinuteOf(i) * Minute <= clock + lead[i]
           /\ clock + lead[i] < (MinuteOf(i) + 1) * Minute
<1>1. /\ clock \in Nat /\ clock <= MaxClock /\ lead[i] \in 0..ClockSkew
      /\ Minute \in Nat \ {0} /\ MaxClock \in Nat /\ ClockSkew \in Nat
  BY StatsConstants DEF StatsInv, StatsOK
<1>2. PICK m \in Nat : m = (clock + lead[i]) \div Minute
  BY <1>1, Division
<1>3. Minute * m <= clock + lead[i] /\ clock + lead[i] < Minute * (m + 1)
  <2>1. clock + lead[i] \in Nat
    BY <1>1
  <2> QED
    BY <1>1, <1>2, <2>1, Division
<1>4. m <= (MaxClock + ClockSkew) \div Minute
  <2>1. clock + lead[i] \in Nat /\ MaxClock + ClockSkew \in Nat
        /\ clock + lead[i] <= MaxClock + ClockSkew
    BY <1>1
  <2> QED
    BY <1>1, <1>2, <2>1, DivisionGrows
<1>5. (MaxClock + ClockSkew) \div Minute \in Nat
  BY <1>1, Division
<1>6. m * Minute = Minute * m /\ (m + 1) * Minute = Minute * (m + 1)
  BY <1>1
<1> QED
  BY <1>2, <1>3, <1>4, <1>5, <1>6 DEF MinuteOf, Minutes

LEMMA ClockTickStep ==
    ASSUME StatsInv, ClockTick
    PROVE  StatsInv'
<1>1. /\ clock < MaxClock /\ clock' = clock + 1 /\ clock \in Nat /\ MaxClock \in Nat
      /\ \A i \in Counters : calls429[i] = NoCall429 \/ clock - calls429[i].since < CallDelay
      /\ UNCHANGED <<lead, calls429, keys, counted>>
  BY StatsConstants DEF ClockTick, StatsInv, StatsOK
<1>2. StatsOK' /\ clock' <= MaxClock /\ KeysOutlive'
  BY <1>1 DEF StatsInv, StatsOK, KeysOutlive
<1>3. CallsRecent'
  <2> SUFFICES ASSUME NEW i \in Counters, calls429[i] # NoCall429
               PROVE  /\ calls429[i].for # "none" /\ calls429[i].since <= clock'
                      /\ clock' - calls429[i].since <= CallDelay
                      /\ calls429[i].minute * Minute <= calls429[i].since + lead[i]
                      /\ calls429[i].since + lead[i] < (calls429[i].minute + 1) * Minute
    BY <1>1 DEF CallsRecent
  <2>1. calls429[i].since \in Nat /\ CallDelay \in Nat
    BY StatsConstants DEF StatsInv, StatsOK
  <2> QED
    BY <1>1, <2>1 DEF StatsInv, CallsRecent
<1> QED
  BY <1>2, <1>3 DEF StatsInv

LEMMA BeginStep ==
    ASSUME StatsInv, NEW i \in Counters, NEW for \in {"count", "read"}, Begin(i, for)
    PROVE  StatsInv'
<1> DEFINE c == [for |-> for, minute |-> MinuteOf(i), since |-> clock]
<1>1. /\ calls429' = [calls429 EXCEPT ![i] = c]
      /\ UNCHANGED <<clock, lead, keys, counted>>
  BY DEF Begin
<1>2. StatsOK /\ clock \in Nat /\ CallDelay \in Nat /\ clock <= MaxClock
  BY StatsConstants DEF StatsInv, StatsOK
<1>3. c \in [for : {"none", "count", "read"}, minute : Minutes, since : Nat]
  BY <1>2, MinuteNamed
<1>4. StatsOK' /\ KeysOutlive'
  BY <1>1, <1>2, <1>3 DEF StatsInv, StatsOK, KeysOutlive
<1>5. ASSUME NEW j \in Counters
      PROVE  \/ calls429'[j] = NoCall429
             \/ /\ calls429'[j].for # "none" /\ calls429'[j].since <= clock
                /\ clock - calls429'[j].since <= CallDelay
                /\ calls429'[j].minute * Minute <= calls429'[j].since + lead[j]
                /\ calls429'[j].since + lead[j] < (calls429'[j].minute + 1) * Minute
  <2>1. CASE j = i
    <3>1. calls429'[j] = c
      BY <1>1, <1>2, <2>1 DEF StatsOK
    <3>2. c.for = for /\ c.minute = MinuteOf(i) /\ c.since = clock
      OBVIOUS
    <3> QED
      BY <1>2, <2>1, <3>1, <3>2, MinuteNamed
  <2>2. CASE j # i
    <3>1. calls429'[j] = calls429[j]
      BY <1>1, <1>2, <2>2 DEF StatsOK
    <3> QED
      BY <3>1 DEF StatsInv, CallsRecent
  <2> QED
    BY <2>1, <2>2
<1>6. CallsRecent'
  BY <1>1, <1>5 DEF CallsRecent
<1> QED
  BY <1>1, <1>2, <1>4, <1>6 DEF StatsInv

\* A call that ends leaves the others as they are.
LEMMA CallEnds ==
    ASSUME StatsInv, NEW i \in Counters, calls429' = [calls429 EXCEPT ![i] = NoCall429],
           UNCHANGED <<clock, lead>>
    PROVE  /\ CallsRecent'
           /\ calls429' \in [Counters -> [for : {"none", "count", "read"}, minute : Minutes,
                                            since : Nat]]
<1>1. calls429 \in [Counters -> [for : {"none", "count", "read"}, minute : Minutes,
                                  since : Nat]]
  BY DEF StatsInv, StatsOK
<1>2. NoCall429 \in [for : {"none", "count", "read"}, minute : Minutes, since : Nat]
  BY StatsConstants DEF NoCall429
<1>3. \A j \in Counters : calls429'[j] = NoCall429 \/ calls429'[j] = calls429[j]
  BY <1>1
<1>4. CallsRecent'
  BY <1>3 DEF StatsInv, CallsRecent
<1> QED
  BY <1>1, <1>2, <1>4

\* A key that was ever written still lives when a call reaches it.
LEMMA KeyStillLives ==
    ASSUME StatsInv, NEW i \in Counters, calls429[i] # NoCall429, NEW b \in Minutes,
           calls429[i].minute < b + History
    PROVE  Value(b) = counted[b]
<1>1. /\ clock \in Nat /\ calls429[i].since \in Nat /\ calls429[i].minute \in Nat /\ b \in Nat
      /\ lead[i] \in Nat /\ keys[b].n \in Nat /\ keys[b].dies \in Nat
      /\ Minute \in Nat /\ History \in Nat /\ CallDelay \in Nat
  <2>1. /\ clock \in Nat /\ lead[i] \in 0..ClockSkew
        /\ calls429[i] \in [for : {"none", "count", "read"}, minute : Minutes, since : Nat]
        /\ keys[b] \in [n : Nat, dies : Nat]
    BY DEF StatsInv, StatsOK
  <2>2. calls429[i].since \in Nat /\ calls429[i].minute \in Minutes
    BY <2>1
  <2>3. calls429[i].minute \in Nat /\ b \in Nat
    BY <2>2, StatsConstants
  <2>4. lead[i] \in Nat /\ keys[b].n \in Nat /\ keys[b].dies \in Nat
    BY <2>1, StatsConstants
  <2> QED
    BY <2>1, <2>2, <2>3, <2>4, StatsConstants
<1>2. /\ clock - calls429[i].since <= CallDelay
      /\ calls429[i].since + lead[i] < (calls429[i].minute + 1) * Minute
  BY DEF StatsInv, CallsRecent
<1>3. /\ keys[b].n = counted[b]
      /\ counted[b] # 0 => keys[b].dies >= (b + History) * Minute + CallDelay
  BY DEF StatsInv, KeysOutlive
<1>4. PICK x \in Nat, y \in Nat :
        x = (calls429[i].minute + 1) * Minute /\ y = (b + History) * Minute
  BY <1>1, Times
<1>5. x <= y
  <2>1. calls429[i].minute + 1 <= b + History
    BY <1>1
  <2>2. Minute * (calls429[i].minute + 1) <= Minute * (b + History)
    BY <1>1, <2>1, TimesGrow
  <2>3. /\ Minute * (calls429[i].minute + 1) = (calls429[i].minute + 1) * Minute
        /\ Minute * (b + History) = (b + History) * Minute
    BY <1>1
  <2> QED
    BY <1>4, <2>2, <2>3
<1>6. counted[b] # 0 => clock < keys[b].dies
  BY <1>1, <1>2, <1>3, <1>4, <1>5
<1> QED
  BY <1>3, <1>6 DEF Value

LEMMA IncrementStep ==
    ASSUME StatsInv, NEW i \in Counters, Increment(i)
    PROVE  StatsInv'
<1> DEFINE b == calls429[i].minute
<1>1. /\ calls429[i].for = "count"
      /\ keys' = [keys EXCEPT ![b] = [n |-> Value(b) + 1, dies |-> clock + KeyTTL]]
      /\ counted' = [counted EXCEPT ![b] = @ + 1]
      /\ calls429' = [calls429 EXCEPT ![i] = NoCall429]
      /\ UNCHANGED <<clock, lead>>
  BY DEF Increment, Lifetime
<1>2. /\ StatsOK /\ clock \in Nat /\ b \in Minutes /\ b \in Nat /\ counted[b] \in Nat
      /\ calls429[i].since \in Nat /\ lead[i] \in 0..ClockSkew
      /\ Minute \in Nat /\ History \in Nat \ {0} /\ KeyTTL \in Nat
      /\ CallDelay \in Nat /\ ClockSkew \in Nat
  BY StatsConstants DEF StatsInv, StatsOK
<1>3. calls429[i] # NoCall429
  BY <1>1 DEF NoCall429
<1>4. Value(b) = counted[b]
  BY <1>2, <1>3, KeyStillLives
<1>5. CallsRecent' /\ calls429' \in [Counters -> [for : {"none", "count", "read"},
                                                   minute : Minutes, since : Nat]]
  BY <1>1, CallEnds
<1>6. clock + KeyTTL >= (b + History) * Minute + CallDelay
  <2>1. b * Minute <= calls429[i].since + lead[i] /\ calls429[i].since <= clock
    BY <1>3 DEF StatsInv, CallsRecent
  <2>2. (b + History) * Minute = b * Minute + Minute * History /\ b * Minute \in Nat
    <3>1. Minute * (b + History) = Minute * b + Minute * History
      BY <1>2, Times
    <3>2. (b + History) * Minute = Minute * (b + History) /\ b * Minute = Minute * b
      BY <1>2
    <3>3. Minute * b \in Nat
      BY <1>2, Times
    <3> QED
      BY <3>1, <3>2, <3>3
  <2>3. PICK x \in Nat, y \in Nat : x = b * Minute /\ y = Minute * History
    BY <2>2, StatsConstants
  <2>4. x <= calls429[i].since + lead[i] /\ KeyTTL >= y + ClockSkew + CallDelay
    BY <2>1, <2>3, StatsConstants
  <2>5. clock + KeyTTL >= (x + y) + CallDelay
    BY <1>2, <2>1, <2>3, <2>4
  <2> QED
    BY <2>2, <2>3, <2>5
<1> HIDE DEF b
<1>7. keys' \in [Minutes -> [n : Nat, dies : Nat]] /\ counted' \in [Minutes -> Nat]
  <2>1. [n |-> Value(b) + 1, dies |-> clock + KeyTTL] \in [n : Nat, dies : Nat]
    BY <1>2, <1>4
  <2> QED
    BY <1>1, <1>2, <2>1 DEF StatsOK
<1>8. KeysOutlive'
  <2> SUFFICES ASSUME NEW m \in Minutes
               PROVE  /\ keys'[m].n = counted'[m]
                      /\ counted'[m] # 0 => keys'[m].dies >= (m + History) * Minute + CallDelay
    BY DEF KeysOutlive
  <2>1. CASE m = b
    <3>1. keys'[m] = [n |-> Value(b) + 1, dies |-> clock + KeyTTL] /\ counted'[m] = counted[b] + 1
      BY <1>1, <1>2, <2>1 DEF StatsOK
    <3>2. keys'[m].n = Value(b) + 1 /\ keys'[m].dies = clock + KeyTTL
      BY <3>1
    <3> QED
      BY <1>4, <1>6, <2>1, <3>1, <3>2
  <2>2. CASE m # b
    <3>1. keys'[m] = keys[m] /\ counted'[m] = counted[m]
      BY <1>1, <1>2, <2>2 DEF StatsOK
    <3> QED
      BY <3>1 DEF StatsInv, KeysOutlive
  <2> QED
    BY <2>1, <2>2
<1>9. StatsOK' /\ clock' <= MaxClock
  BY <1>1, <1>2, <1>5, <1>7 DEF StatsInv, StatsOK
<1> QED
  BY <1>5, <1>8, <1>9 DEF StatsInv

LEMMA EndCallStep ==
    ASSUME StatsInv, NEW i \in Counters, EndCall(i)
    PROVE  StatsInv'
<1>1. /\ calls429' = [calls429 EXCEPT ![i] = NoCall429]
      /\ UNCHANGED <<clock, lead, keys, counted>>
  BY DEF EndCall
<1>2. CallsRecent' /\ calls429' \in [Counters -> [for : {"none", "count", "read"},
                                                   minute : Minutes, since : Nat]]
  BY <1>1, CallEnds
<1> QED
  BY <1>1, <1>2 DEF StatsInv, StatsOK, KeysOutlive

-----------------------------------------------------------------------------
(* The counts of refusals: theorems *)

\* The invariant is inductive.
THEOREM StatsInvariant == SpecStats => []StatsInv
<1>1. InitStats => StatsInv
  <2> SUFFICES ASSUME InitStats
               PROVE  StatsInv
    OBVIOUS
  <2>1. NoCall429 \in [for : {"none", "count", "read"}, minute : Minutes, since : Nat]
    BY StatsConstants DEF NoCall429
  <2> QED
    BY <2>1, StatsConstants DEF InitStats, StatsInv, StatsOK, CallsRecent, KeysOutlive
<1>2. StatsInv /\ [NextStats]_statsVars => StatsInv'
  <2> SUFFICES ASSUME StatsInv, [NextStats]_statsVars
               PROVE  StatsInv'
    OBVIOUS
  <2>1. CASE UNCHANGED statsVars
    BY <2>1 DEF statsVars, StatsInv, StatsOK, CallsRecent, KeysOutlive
  <2>2. ASSUME NEW i \in Counters, Begin(i, "count") \/ Ask(i)
        PROVE  StatsInv'
    BY <2>2, BeginStep DEF Ask
  <2> QED
    BY <2>1, <2>2, ClockTickStep, IncrementStep, EndCallStep DEF NextStats
<1> QED
  BY <1>1, <1>2, PTL DEF SpecStats

\* Every variable of the counts has a value of its type; no call names a minute
\* outside the history.
THEOREM StatsTypeCorrect == SpecStats => []StatsOK
<1>1. StatsInv => StatsOK
  BY DEF StatsInv
<1> QED
  BY <1>1, StatsInvariant, PTL

\* The history() of the statistics, of the minutes countRateLimited wrote: for every TTL
\* that spans the history, the skew and the delay, no refusal is missing from it.
THEOREM HistoryWhole == SpecStats => []HistoryIsWhole
<1>1. StatsInv => HistoryIsWhole
  <2> SUFFICES ASSUME StatsInv, NEW i \in Counters, calls429[i].for = "read",
                      NEW b \in Asked(i)
               PROVE  Value(b) = counted[b]
    BY DEF HistoryIsWhole
  <2>1. calls429[i] # NoCall429
    BY DEF NoCall429
  <2>2. b \in Minutes /\ calls429[i].minute < b + History
    <3>1. calls429[i] \in [for : {"none", "count", "read"}, minute : Minutes, since : Nat]
      BY DEF StatsInv, StatsOK
    <3>2. calls429[i].minute \in Minutes
      BY <3>1
    <3>3. b \in Minutes /\ b > calls429[i].minute - History
      BY DEF Asked
    <3>4. b \in Nat /\ calls429[i].minute \in Nat /\ History \in Nat
      BY <3>2, <3>3, StatsConstants
    <3> QED
      BY <3>3, <3>4
  <2> QED
    BY <2>1, <2>2, KeyStillLives
<1> QED
  BY <1>1, StatsInvariant, PTL
=============================================================================
