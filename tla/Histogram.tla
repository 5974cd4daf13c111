------------------------------ MODULE Histogram -----------------------------
(***************************************************************************)
(* toolbox/hdr: the histogram of Histogram.cpp, whose buckets grow with    *)
(* the values so that the relative error is bounded, the percentiles of    *)
(* Utility.cpp and the iterators of Iterator.cpp that add up counts.       *)
(*                                                                         *)
(* `recorded' holds the values themselves, from which the results follow   *)
(* by definition.                                                          *)
(***************************************************************************)
EXTENDS Integers, FiniteSetsExt, Functions

CONSTANTS Configs,      \* records of the constructor's arguments: lowest, highest, figures
          Values,       \* values that are recorded
          MaxTotal,     \* bound on the number of values recorded
          Units,        \* first reporting levels of the linear and logarithmic iterators
          LogBase,      \* log_base of the logarithmic iterator
          Percents      \* percentiles that are asked for

VARIABLES config,       \* the histogram's configuration
          counts, total, min_value, max_value,
          recorded,     \* how often record_values() accepted each value
          iter          \* the iterator, if one is in use

vars == <<config, counts, total, min_value, max_value, recorded, iter>>

-----------------------------------------------------------------------------
(* HdrBucketConfig *)

\* 1 << k
pow2[k \in Nat] == IF k = 0 THEN 1 ELSE 2 * pow2[k - 1]

\* The number of bits of n, that is, those of a word without the leading zeros.
BitLength(n) == CHOOSE k \in 0 .. n : n < pow2[k] /\ (k = 0 \/ n >= pow2[k - 1])

\* floor(log(lowest) / log(2))
unit_magnitude == BitLength(config.lowest) - 1

\* ceil(log2(2 * 10^figures)) - 1
sub_bucket_half_count_magnitude == BitLength(2 * 10 ^ config.figures - 1) - 1

sub_bucket_half_count == pow2[sub_bucket_half_count_magnitude]
sub_bucket_count == 2 * sub_bucket_half_count

\* The smallest number of doublings of sub_bucket_count that exceeds the highest value, plus one.
bucket_count ==
    Min({n \in 1 .. BitLength(config.highest) + 1 :
            sub_bucket_count * pow2[unit_magnitude + n - 1] > config.highest})

counts_len == (bucket_count + 1) * sub_bucket_half_count

-----------------------------------------------------------------------------
(* Values and their buckets *)

\* Mutant: a value stays in a bucket that is too fine for it.
get_bucket_index_fine(v) ==
    Max({BitLength(v), unit_magnitude + sub_bucket_half_count_magnitude + 2})
        - unit_magnitude - (sub_bucket_half_count_magnitude + 2)

\* value | sub_bucket_mask_ has at least the bits of the mask.
get_bucket_index(v) ==
    Max({BitLength(v), unit_magnitude + sub_bucket_half_count_magnitude + 1})
        - unit_magnitude - (sub_bucket_half_count_magnitude + 1)

get_sub_bucket_index(v) == v \div pow2[get_bucket_index(v) + unit_magnitude]

counts_index_for(v) ==
    (get_bucket_index(v) + 1) * sub_bucket_half_count
        + get_sub_bucket_index(v) - sub_bucket_half_count

value_from_index(bucket, sub) == sub * pow2[bucket + unit_magnitude]

value_at_index(i) ==
    LET bucket == i \div sub_bucket_half_count - 1
        sub == i % sub_bucket_half_count
    IN IF bucket < 0 THEN value_from_index(0, sub)
                     ELSE value_from_index(bucket, sub + sub_bucket_half_count)

lowest_equivalent_value(v) == value_from_index(get_bucket_index(v), get_sub_bucket_index(v))

size_of_equivalent_value_range(v) ==
    pow2[unit_magnitude + get_bucket_index(v)
            + IF get_sub_bucket_index(v) >= sub_bucket_count THEN 1 ELSE 0]

highest_equivalent_value(v) ==
    lowest_equivalent_value(v) + size_of_equivalent_value_range(v) - 1

-----------------------------------------------------------------------------
(* Recording *)

NoMin == -1             \* numeric_limits<int64_t>::max()
NoIterator == [active |-> FALSE]

Init ==
    /\ config \in Configs
    /\ counts = [i \in 0 .. counts_len - 1 |-> 0]
    /\ total = 0 /\ min_value = NoMin /\ max_value = 0
    /\ recorded = [v \in Values |-> 0]
    /\ iter = NoIterator

counts_inc(i, n) == counts' = [counts EXCEPT ![i] = @ + n] /\ total' = total + n

update_min_max(v) ==
    /\ min_value' = IF v = 0 \/ min_value \in 1 .. v THEN min_value ELSE v
    /\ max_value' = Max({max_value, v})

\* A value beyond the last bucket is refused, and nothing changes.
record_values(v, n) ==
    /\ counts_index_for(v) < counts_len
    /\ counts_inc(counts_index_for(v), n)
    /\ update_min_max(v)
    /\ recorded' = [recorded EXCEPT ![v] = @ + n]
    /\ UNCHANGED <<config, iter>>

reset ==
    /\ counts' = [i \in DOMAIN counts |-> 0]
    /\ total' = 0 /\ min_value' = NoMin /\ max_value' = 0
    /\ recorded' = [v \in Values |-> 0]
    /\ UNCHANGED <<config, iter>>

-----------------------------------------------------------------------------
(* Results *)

non_zero_min == IF min_value = NoMin THEN NoMin ELSE lowest_equivalent_value(min_value)

min == IF counts[0] > 0 THEN 0 ELSE non_zero_min

max == IF max_value = 0 THEN 0 ELSE highest_equivalent_value(max_value)

CountsIn(S) == SumFunctionOnSet(counts, S)

\* (percentile * total_count / 100) + 0.5 as an integer, at least 1
get_count_at_percentile(p) == Max({(p * total + 50) \div 100, 1})

\* The bucket in which the sum of the counts reaches that count.
value_at_percentile(p) ==
    LET used == {i \in DOMAIN counts : counts[i] > 0}
        reached == {i \in used : CountsIn({j \in used : j <= i}) >= get_count_at_percentile(p)}
    IN IF reached = {} THEN 0 ELSE highest_equivalent_value(value_at_index(Min(reached)))

-----------------------------------------------------------------------------
(* HdrRecordedIterator, HdrLinearIterator and HdrLogIterator *)

Begin(kind, level) ==
    iter' = [active |-> TRUE, kind |-> kind, first |-> level, level |-> level,
             index |-> -1, value |-> 0, cumulative |-> 0, to |-> 0]

has_next == iter.cumulative < total

\* move_next() up to bucket i, or past the last one.
MoveTo(i) ==
    [iter EXCEPT !.index = i,
                 !.cumulative = @ + CountsIn(iter.index + 1 .. Min({i, counts_len - 1})),
                 !.value = IF i = iter.index THEN @ ELSE value_at_index(Min({i, counts_len - 1}))]

\* The linear and the logarithmic iterator go on until the next bucket is past their level.
Continues ==
    \/ has_next
    \/ /\ iter.kind # "recorded"
       /\ iter.index < counts_len
       /\ value_at_index(iter.index + 1) > lowest_equivalent_value(iter.level)

\* Mutant: the bucket at the reporting level is not counted below it.
ReachesBefore(i) == value_at_index(i + 1) >= lowest_equivalent_value(iter.level)

\* Bucket i ends the step.
Reaches(i) == MoveTo(i).value >= lowest_equivalent_value(iter.level)

NextLevel == IF iter.kind = "linear" THEN iter.level + iter.first ELSE iter.level * LogBase

\* do_next(): on to the first bucket that reaches the reporting level, or past the last; on
\* to the next bucket with a count.
do_next ==
    LET reached == {i \in iter.index .. counts_len - 1 : Reaches(i)}
        used == {i \in iter.index + 1 .. counts_len - 1 : counts[i] # 0}
    IN IF iter.kind = "recorded"
       THEN iter' = [MoveTo(Min(used)) EXCEPT !.to = value_at_index(Min(used))]
       ELSE IF reached = {}
       THEN iter' = MoveTo(counts_len)
       ELSE iter' = [MoveTo(Min(reached)) EXCEPT !.to = iter.level, !.level = NextLevel]

Iterate ==
    /\ \/ ~iter.active /\ Begin("recorded", 0)
       \/ ~iter.active /\ \E kind \in {"linear", "log"}, level \in Units : Begin(kind, level)
       \/ iter.active /\ Continues /\ do_next
       \/ iter.active /\ ~Continues /\ iter' = NoIterator
    /\ UNCHANGED <<config, counts, total, min_value, max_value, recorded>>

Next ==
    \/ ~iter.active /\ \E v \in Values, n \in 1 .. MaxTotal - total : record_values(v, n)
    \/ ~iter.active /\ reset
    \/ Iterate

Spec == Init /\ [][Next]_vars

-----------------------------------------------------------------------------
(* Properties *)

RecordedIn(S) == SumFunctionOnSet(recorded, S)

Equivalent(v, w) == counts_index_for(v) = counts_index_for(w)

\* Every value up to the highest has a bucket of its own size: it lies between the bucket's
\* lowest and highest value, the next bucket begins right after it, and the bucket is no
\* wider than the unit or one part in 10^figures of the value.
PrecisionKept ==
    total = 0 /\ ~iter.active => \A v \in 0 .. config.highest :
        /\ counts_index_for(v) \in DOMAIN counts
        /\ value_at_index(counts_index_for(v)) = lowest_equivalent_value(v)
        /\ v \in lowest_equivalent_value(v) .. highest_equivalent_value(v)
        /\ Equivalent(v, v + 1) <=> v < highest_equivalent_value(v)
        /\ \/ size_of_equivalent_value_range(v) <= config.lowest
           \/ size_of_equivalent_value_range(v) * 10 ^ config.figures <= v

\* Of total values, the percentile is the bucket of the value that has p percent of them,
\* to the nearest, up to it; the minimum and the maximum are those of the values, to the
\* precision of their buckets.
PercentilesRight ==
    LET values == {v \in Values : recorded[v] > 0}
        smallest(k) == Min({v \in values : RecordedIn({w \in values : w <= v}) >= k})
        nearest(p) == CHOOSE k \in 0 .. total : 100 * k - 50 <= p * total /\ p * total < 100 * k + 50
    IN values # {} =>
          /\ \A p \in Percents :
                value_at_percentile(p) = highest_equivalent_value(smallest(Max({nearest(p), 1})))
          /\ Equivalent(min, Min(values)) /\ min <= Min(values)
          /\ Equivalent(max, Max(values)) /\ max >= Max(values)

\* The iterators count every value once, in the step that covers it: up to level L they have
\* counted the values that are not above the bucket of L, and at their end all of them.
CountsAddUp ==
    iter.active =>
        /\ ~Continues => iter.cumulative = total
        /\ iter.index \in 0 .. counts_len - 1 =>
              iter.cumulative = RecordedIn({v \in Values : v <= highest_equivalent_value(iter.to)})

\* What the histogram reports agrees with the values that were recorded.
ResultsRight == IF iter.active THEN CountsAddUp ELSE PercentilesRight
=============================================================================
