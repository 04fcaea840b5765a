---------------------------- MODULE MetricSeries ----------------------------
(***************************************************************************)
(* The time series of a host's metric (metrics/metrics.controller.ts): the *)
(* samples of a window in bins of whole minutes, for short windows, and    *)
(* the rows of the 5-minute rollup, thinned out, for long ones.  Time is   *)
(* counted in units of which Unit make a minute.                           *)
(***************************************************************************)
EXTENDS Integers, FiniteSets

CONSTANTS
    Unit,             \* units of a minute
    DefaultBuckets,   \* DEFAULT_BUCKETS: 60
    FewestBuckets,    \* the least of them for a short window: 10
    LongBuckets,      \* points of a long window, unless told: 288
    BucketCounts,     \* values of the parameter buckets, NoCount if it is left out
    MaxSpan,          \* bound: units of a window
    MaxRows           \* bound: rows of the rollup

NoCount == 0

ASSUME SeriesAssumption ==
    /\ {Unit, DefaultBuckets, FewestBuckets, LongBuckets} \subseteq Nat \ {0}
    /\ BucketCounts \subseteq Nat /\ {MaxSpan, MaxRows} \subseteq Nat

VARIABLES
    samples,    \* when the samples of the metric were observed
    answer      \* how many points were asked for, of which series, and those that came

seriesVars == <<samples, answer>>

NoAnswer == [buckets |-> NoCount, long |-> FALSE, points |-> {}]

\* A sample every now and then.
InitSeries ==
    /\ samples \in {{t \in 0..MaxSpan : t % n = 0} : n \in 1..Unit}
    /\ answer = NoAnswer

Greater(a, b) == IF a > b THEN a ELSE b
Smaller(a, b) == IF a < b THEN a ELSE b
Rounded(a, b) == (2 * a + b) \div (2 * b)
RoundedUp(a, b) == (a + b - 1) \div b

-----------------------------------------------------------------------------
(* series *)

\* The buckets asked for, or a minute each within two bounds.
Buckets(asked, span) ==
    IF asked # NoCount THEN asked
    ELSE Smaller(DefaultBuckets, Greater(FewestBuckets, span \div Unit))

\* Mutant of Width: a minute each, whatever was asked for.
OneMinute(span, buckets) == Unit
\* make_interval(mins => ...): the width of a bin.
Width(span, buckets) == Unit * Greater(1, Rounded(RoundedUp(span, buckets), Unit))

\* date_bin from the start of the window, whose end is included: the bins that are
\* not empty.
Bins(from, to, width) ==
    {from + ((t - from) \div width) * width : t \in {u \in samples : from <= u /\ u <= to}}

Series(from, to, asked) ==
    LET buckets == Buckets(asked, to - from)
    IN  /\ answer = NoAnswer /\ from < to
        /\ answer' = [buckets |-> buckets, long |-> FALSE,
                      points |-> Bins(from, to, Width(to - from, buckets))]
        /\ UNCHANGED samples

-----------------------------------------------------------------------------
(* longSeries *)

\* Every step-th row of n, from the first, so that buckets of them suffice.
Thinned(n, buckets) ==
    {i \in 0..(n - 1) : i % Greater(1, RoundedUp(n, buckets)) = 0}

LongSeries(n, asked) ==
    LET buckets == IF asked # NoCount THEN asked ELSE LongBuckets
    IN  /\ answer = NoAnswer
        /\ answer' = [buckets |-> buckets, long |-> TRUE, points |-> Thinned(n, buckets)]
        /\ UNCHANGED samples

NextSeries ==
    \/ \E from, to \in 0..MaxSpan, b \in BucketCounts : Series(from, to, b)
    \/ \E n \in 0..MaxRows, b \in BucketCounts : LongSeries(n, b)

SpecSeries == InitSeries /\ [][NextSeries]_seriesVars

-----------------------------------------------------------------------------
(* Properties *)

SeriesOK ==
    /\ samples \subseteq Nat
    /\ answer.buckets \in Nat /\ answer.long \in BOOLEAN /\ answer.points \subseteq Nat

\* "bucket count bounded to keep responses small": the width of a bin is rounded to
\* minutes and the end of the window included, so more points may come than were
\* asked for, but no more than half as many again and one; a long series keeps to
\* what was asked for.
SeriesIsBounded ==
    Cardinality(answer.points)
      <= IF answer.long THEN answer.buckets ELSE (3 * answer.buckets) \div 2 + 1
=============================================================================
