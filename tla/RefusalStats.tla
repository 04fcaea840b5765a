---------------------------- MODULE RefusalStats ----------------------------
(***************************************************************************)
(* How the 429s of one route class are counted and read back               *)
(* (countRateLimited of middleware/rate-limit.middleware.ts,               *)
(* middleware/rate-limit.stats.ts): one key of Redis per minute, named by  *)
(* the clock of the instance that refused and living for a fixed time      *)
(* after its last increment; a reader names the minutes of the history by  *)
(* its own clock.                                                          *)
(***************************************************************************)
EXTENDS Integers

CONSTANTS
    Counters,        \* API instances
    Minute,          \* ticks of a minute
    History,         \* RATE_LIMIT_HISTORY_MINUTES: 15
    KeyTTL,          \* ticks a key lives after its last increment: 1000 s
    ClockSkew,       \* how far the clock of an instance is ahead, at most
    CallDelay,       \* ticks from a look at the clock to Redis, at most
    MaxClock,        \* bound: ticks
    MaxRefusals      \* bound: refusals

\* The TTL spans the history and what clocks and calls may add.
ASSUME StatsAssumption ==
    /\ {Minute, History} \subseteq Nat \ {0}
    /\ {ClockSkew, CallDelay, MaxClock, MaxRefusals} \subseteq Nat
    /\ KeyTTL \in Nat /\ KeyTTL >= History * Minute + ClockSkew + CallDelay

VARIABLES
    clock,
    lead,        \* how far the clock of each instance is ahead
    calls429,    \* the call of each instance: what for, and the minute and the time it began
    keys,        \* of each minute: its count, and when it dies
    counted      \* history: the refusals counted in each minute

statsVars == <<clock, lead, calls429, keys, counted>>

NoCall429 == [for |-> "none", minute |-> 0, since |-> 0]
Minutes == 0..((MaxClock + ClockSkew) \div Minute)

InitStats ==
    /\ clock = 0 /\ lead \in [Counters -> 0..ClockSkew]
    /\ calls429 = [i \in Counters |-> NoCall429]
    /\ keys = [b \in Minutes |-> [n |-> 0, dies |-> 0]]
    /\ counted = [b \in Minutes |-> 0]

\* The minute an instance takes it for.
MinuteOf(i) == (clock + lead[i]) \div Minute
\* What GET answers.
Value(b) == IF clock < keys[b].dies THEN keys[b].n ELSE 0

ClockTick ==
    /\ clock < MaxClock /\ clock' = clock + 1
    /\ \A i \in Counters : calls429[i] = NoCall429 \/ clock - calls429[i].since < CallDelay
    /\ UNCHANGED <<lead, calls429, keys, counted>>

\* A request was refused, or statistics are asked for: the keys are named.
Begin(i, for) ==
    /\ calls429[i] = NoCall429
    /\ calls429' = [calls429 EXCEPT ![i] = [for |-> for, minute |-> MinuteOf(i),
                                            since |-> clock]]
    /\ UNCHANGED <<clock, lead, keys, counted>>
\* GET /rate-limits and its history.
Ask(i) == Begin(i, "read")

\* Mutant of Lifetime: a key lives for 120 s.
TwoMinutes == 2 * Minute
Lifetime == KeyTTL

\* INCR and EXPIRE.
Increment(i) ==
    LET b == calls429[i].minute
    IN  /\ calls429[i].for = "count" /\ \A m \in Minutes : counted[m] < MaxRefusals
        /\ keys' = [keys EXCEPT ![b] = [n |-> Value(b) + 1, dies |-> clock + Lifetime]]
        /\ counted' = [counted EXCEPT ![b] = @ + 1]
        /\ calls429' = [calls429 EXCEPT ![i] = NoCall429]
        /\ UNCHANGED <<clock, lead>>

\* The history or the statistics are read, or what Redis throws is swallowed.
EndCall(i) ==
    /\ calls429[i] # NoCall429
    /\ calls429' = [calls429 EXCEPT ![i] = NoCall429]
    /\ UNCHANGED <<clock, lead, keys, counted>>

NextStats ==
    \/ ClockTick
    \/ \E i \in Counters : \/ Begin(i, "count") \/ Ask(i)
                           \/ Increment(i) \/ EndCall(i)

SpecStats == InitStats /\ [][NextStats]_statsVars

-----------------------------------------------------------------------------
(* Properties *)

StatsOK ==
    /\ clock \in Nat /\ lead \in [Counters -> 0..ClockSkew]
    /\ calls429 \in [Counters -> [for : {"none", "count", "read"}, minute : Minutes,
                                  since : Nat]]
    /\ keys \in [Minutes -> [n : Nat, dies : Nat]] /\ counted \in [Minutes -> Nat]

\* The minutes of the history a reader asks for.
Asked(i) == {b \in Minutes : b <= calls429[i].minute /\ b > calls429[i].minute - History}

\* Whoever reads the history finds every refusal that was counted in its minutes,
\* though instances disagree on the time and keys die.
HistoryIsWhole ==
    \A i \in Counters : calls429[i].for = "read" => \A b \in Asked(i) : Value(b) = counted[b]
=============================================================================
