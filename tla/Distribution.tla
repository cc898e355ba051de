---------------------------- MODULE Distribution ----------------------------
(***************************************************************************)
(* The latency distributions of GET /metrics: the nearest-rank percentile  *)
(* of src/src/metrics.ts and the interpolated one (percentile_cont) that   *)
(* src/src/db.ts has PostgreSQL compute instead.  A sample is an ascending *)
(* sequence of whole milliseconds;  every operator gives 0 for an empty    *)
(* sample, as `|| 0' and COALESCE do.                                      *)
(***************************************************************************)
EXTENDS Integers, Sequences

Ascending(v) == \A i, k \in DOMAIN v : i <= k => v[i] <= v[k]

Smallest(v) == IF v = <<>> THEN 0 ELSE v[1]
Largest(v)  == IF v = <<>> THEN 0 ELSE v[Len(v)]

\* ROUND of a numeric rounds halves up, ROUND of a double to the even number.
RoundUp(a, b) == (2 * a + b) \div (2 * b)

RoundEven(a, b) ==
    IF 2 * (a % b) = b /\ (a \div b) % 2 = 0 THEN a \div b ELSE RoundUp(a, b)

Total(v) ==
    LET sum[n \in 0..Len(v)] == IF n = 0 THEN 0 ELSE sum[n - 1] + v[n]
    IN  sum[Len(v)]

\* Mutant of Mean: a row that has no latency yet counts as 0.
MeanWithNull(v) == IF v = <<>> THEN 0 ELSE RoundUp(Total(v), Len(v) + 1)

\* AVG leaves out the rows that have no latency.
Mean(v) == IF v = <<>> THEN 0 ELSE RoundUp(Total(v), Len(v))

\* Mutant of NearestRank: Math.ceil((p / 100) * length) without the - 1.
RankPlusOne(n, p) == (p * n + 99) \div 100 + 1

\* The index (from 1) that calculatePercentile takes.
NearestRank(n, p) == (p * n + 99) \div 100

calculatePercentile(v, p) ==
    IF v = <<>> THEN 0 ELSE v[NearestRank(Len(v), p)]

\* percentile_cont: the fraction p of the way from the first to the last value,
\* in hundredths of an index.
Position(n, p) == 100 + p * (n - 1)

percentile_cont(v, p) ==
    IF v = <<>> THEN 0
    ELSE LET at  == Position(Len(v), p)
             low == v[at \div 100]
             upp == v[(at + 99) \div 100]
         IN  RoundEven(100 * low + (at % 100) * (upp - low), 100)

\* The percentiles asked for, by the field that reports them.  Mutant of it:
\* two of them are mixed up.
SwappedFractions == [p50 |-> 50, p95 |-> 99, p99 |-> 95]

Fractions == [p50 |-> 50, p95 |-> 95, p99 |-> 99]

=============================================================================
