----------------------------- MODULE RateWindow -----------------------------
(***************************************************************************)
(* toolbox/net/RateLimit.cpp: the number of events in a sliding window of  *)
(* seconds, from a ring of one bucket per second.  The clock is monotonic  *)
(* but may skip any number of seconds between two calls of add().          *)
(***************************************************************************)
EXTENDS Integers, Functions

CONSTANTS Interval,     \* number of seconds, and of buckets
          Counts,       \* the counts that are added
          MaxPerSecond, \* a second that has as many gets no more
          MaxTime       \* bound on the time

VARIABLES buckets, count, last,   \* buckets_, count_, last_time_
          added                   \* the counts that were added in each second

vars == <<buckets, count, last, added>>

at(t) == t % Interval

Init ==
    /\ buckets = [i \in 0 .. Interval - 1 |-> 0]
    /\ count = 0
    /\ last = 0
    /\ added = [t \in 0 .. MaxTime |-> 0]

\* Mutant: the bucket that is used again keeps its old count in the total.
AdvanceKeepsOld(t, n) ==
    LET skipped == {at(s) : s \in last + 1 .. t - 1} IN
    /\ count' = count + n - SumFunctionOnSet(buckets, skipped)
    /\ buckets' = [i \in DOMAIN buckets |->
                      IF i = at(t) THEN n ELSE IF i \in skipped THEN 0 ELSE buckets[i]]

\* Less than a whole window later: the buckets that were skipped are emptied, and the one
\* of t is used again.
Advance(t, n) ==
    LET skipped == {at(s) : s \in last + 1 .. t - 1} IN
    /\ count' = count + n - buckets[at(t)] - SumFunctionOnSet(buckets, skipped)
    /\ buckets' = [i \in DOMAIN buckets |->
                      IF i = at(t) THEN n ELSE IF i \in skipped THEN 0 ELSE buckets[i]]

add(t, n) ==
    /\ added' = [added EXCEPT ![t] = @ + n]
    /\ last' = t
    /\ \/ /\ t = last
          /\ count' = count + n
          /\ buckets' = [buckets EXCEPT ![at(t)] = @ + n]
       \/ /\ t > last /\ t - last < Interval
          /\ Advance(t, n)
       \/ /\ t > last /\ t - last >= Interval
          /\ count' = n
          /\ buckets' = [i \in DOMAIN buckets |-> IF i = at(t) THEN n ELSE 0]

Next == \E t \in last .. MaxTime, n \in Counts : added[t] < MaxPerSecond /\ add(t, n)

Spec == Init /\ [][Next]_vars

\* count() is the number of events of the last Interval seconds up to the last add(), however
\* the times of the calls are spread over the buckets.
RateIsWindowSum ==
    count = SumFunctionOnSet(added, {t \in 0 .. MaxTime : t > last - Interval /\ t <= last})
=============================================================================
