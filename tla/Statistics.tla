------------------------------ MODULE Statistics ------------------------------
(***************************************************************************)
(* computeStats of the aggregator: what a summary says of the values one   *)
(* metric took in the trials of a scenario and model. The values are       *)
(* natural numbers over a unit (1 for milliseconds and tokens, more for    *)
(* costs and ratios), and a number of the summary is a fraction <<n, d>>:  *)
(* the floating point error of the code is left out. So is the standard    *)
(* deviation.                                                              *)
(***************************************************************************)
EXTENDS Integers, Sequences

\* sort.Float64s.
Sorted(samples) == \A i, j \in DOMAIN samples : i < j => samples[i] <= samples[j]

\* math.Pow(10, n).
PowerOf10[n \in Nat] == IF n = 0 THEN 1 ELSE 10 * PowerOf10[n - 1]

Leq(a, b) == a[1] * b[2] <= b[1] * a[2]

Sum(samples) ==
    LET upTo[i \in 0..Len(samples)] == IF i = 0 THEN 0 ELSE samples[i] + upTo[i - 1]
    IN  upTo[Len(samples)]

\* percentile of sorted samples: the rank is p/100 of the way to the last one,
\* and between two samples the value is on the line that joins them.
PercentileBelow(sorted, p) ==
    <<100 * sorted[((p * (Len(sorted) - 1)) \div 100) + 1], 100>>

Percentile(sorted, p) ==
    LET rank == p * (Len(sorted) - 1)
        lower == (rank \div 100) + 1
        frac == rank % 100
    IN  IF frac = 0
        THEN <<100 * sorted[lower], 100>>
        ELSE <<sorted[lower] * (100 - frac) + sorted[lower + 1] * frac, 100>>

\* Two digits for every value.
RoundTwo(num, den) == <<(200 * num + den) \div (2 * den), 100>>

\* roundSig of num/den: 2 digits behind the point, and more for a value below
\* 1, so that three digits are significant; halves are rounded up. A value is
\* at least 1/den, for which den digits more than 2 are plenty.
RoundSig(num, den) ==
    LET digits == CHOOSE d \in 2..den + 2 :
                      /\ num * PowerOf10[d - 2] >= den
                      /\ d > 2 => num * PowerOf10[d - 3] < den
        shift == PowerOf10[digits]
    IN  IF num = 0 THEN <<0, 1>> ELSE <<(2 * num * shift + den) \div (2 * den), shift>>

\* The mean a summary shows, for samples counted in 1/unit.
Mean(samples, unit) == RoundSig(Sum(samples), Len(samples) * unit)

\* What Mean rounds.
ExactMean(samples, unit) == <<Sum(samples), Len(samples) * unit>>

\* AbsDiff and ChangePercent of compareMetrics. Both means have a power of ten
\* below the line, so the larger one serves both.
DiffOfBaseline(base, cand) ==
    LET scale == IF base[2] > cand[2] THEN base[2] ELSE cand[2]
        b == base[1] * (scale \div base[2])
        c == cand[1] * (scale \div cand[2])
    IN  [abs |-> <<b - c, scale>>, percent |-> IF b = 0 THEN <<0, 1>> ELSE <<100 * (b - c), b>>]

Diff(base, cand) ==
    LET scale == IF base[2] > cand[2] THEN base[2] ELSE cand[2]
        b == base[1] * (scale \div base[2])
        c == cand[1] * (scale \div cand[2])
    IN  [abs |-> <<c - b, scale>>, percent |-> IF b = 0 THEN <<0, 1>> ELSE <<100 * (c - b), b>>]
=============================================================================
