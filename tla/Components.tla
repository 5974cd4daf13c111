------------------------------ MODULE Components ----------------------------
(***************************************************************************)
(* The components of the toolbox that share no state with the others, in   *)
(* one specification: in each behaviour one of them, `which', is in use.   *)
(***************************************************************************)
EXTENDS Integers, Sequences, FiniteSets

CONSTANTS RingBytes, PageSize, Sizes, MaxBytes,                     \* MagicRingBuffer
          Clnt, Runners, Addrs, Failed, BatchSize, Clears, Unreachable,
          Pollers, MaxFaults,                                       \* HttpClnt
          Hooks, End, Nowhere, MaxChanges,                          \* HookList
          Interval, Counts, MaxPerSecond, MaxTime,                  \* RateWindow
          Lengths, Base, ShrinkThreshold, Portions, MaxClears,      \* FrameBuffer
          Size, MaxValue,                                           \* RingBuffer
          Configs, Values, MaxTotal, Units, LogBase, Percents,      \* Histogram
          Starts, MaxDays                                           \* Date

VARIABLES which,
          rpos, wpos, mem, wpc, wlen, rpc, ready, consumed, got,        \* MagicRingBuffer
          queue, stop, pc, tasks, future, opc, clears,                  \* HttpClnt: Resolver
          conns, attempt, inprogress, ep, valid, cpc, home, answer, faults,
          list, it, prev, hookpc, calls, stayed, changes,               \* HookList
          buckets, count, last, added,                                  \* RateWindow
          bytes, rbyte, wbyte, received, delivered, parsed, cleared,    \* FrameBuffer
          overwrite, head, tail, slots, writing, reading, wreg, rreg, popped, value,
          content, shared,                                              \* RingBuffer
          config, counts, total, min_value, max_value, recorded, iter,  \* Histogram
          day, days                                                     \* Date

Magic == INSTANCE MagicRingBuffer WITH Capacity <- RingBytes
Client == INSTANCE HttpClnt WITH Callers <- {Clnt}
Hook == INSTANCE HookList WITH pc <- hookpc
Rate == INSTANCE RateWindow
Frame == INSTANCE FrameBuffer WITH
    Sizes <- Portions, buf <- bytes, rpos <- rbyte, wpos <- wbyte, clears <- cleared
Ring == INSTANCE RingBuffer WITH
    rpos <- head, wpos <- tail, buf <- slots, wpc <- writing, rpc <- reading, got <- popped
Dates == INSTANCE Date
Histo == INSTANCE Histogram

-----------------------------------------------------------------------------
(* What the code's own values of the constants satisfy *)

\* The allocator maps whole pages.
ASSUME MagicAssumption ==
    /\ PageSize \in Nat \ {0} /\ Sizes \subseteq Nat
    /\ \E k \in 1 .. RingBytes : RingBytes = PageSize * k

\* The client is no thread of the resolver.
ASSUME ClientAssumption ==
    /\ Clnt \notin Runners /\ BatchSize \in Nat \ {0} /\ Clears \in Nat
    /\ Pollers \subseteq {"null", "found"}

\* The end of the list is no hook.
ASSUME HookAssumption == End \notin Hooks

ASSUME RateAssumption == Interval \in Nat \ {0} /\ Counts \subseteq Nat /\ MaxTime \in Nat

\* The length of a message fits the header.
ASSUME FrameAssumption ==
    /\ Base \in Nat \ {0} /\ ShrinkThreshold \in Nat /\ Portions \subseteq Nat
    /\ Lengths \in Seq(Nat)
    /\ \A m \in DOMAIN Lengths : Lengths[m] < Base * Base * Base * Base

\* The capacity is a power of two, never zero.
ASSUME RingAssumption == Ring!Capacity \in Nat \ {0}

\* What the constructor requires of the unit and the precision; values are not negative, and
\* the levels of an iterator do not decrease.
ASSUME HistogramAssumption ==
    /\ \A c \in Configs : c.lowest \in Nat \ {0} /\ c.figures \in 1 .. 5 /\ c.highest \in Nat
    /\ Values \subseteq Nat /\ IsFiniteSet(Values) /\ MaxTotal \in Nat
    /\ Units \subseteq Nat /\ LogBase \in Nat \ {0} /\ Percents \subseteq 0 .. 100

\* The calendar begins with days whose number and weekday are known, none before the year 0.
ASSUME DateAssumption ==
    \A d \in Starts :
        /\ d.year \in Nat /\ d.mon \in 1 .. 12 /\ d.mday \in 1 .. Dates!MonthLength(d.year, d.mon)
        /\ d.jd = Dates!ymd_to_jd(d.year, d.mon, d.mday)
        /\ d.wday = d.jd % 7

-----------------------------------------------------------------------------
magic == <<rpos, wpos, mem, wpc, wlen, rpc, ready, consumed, got>>
client == <<queue, stop, pc, tasks, future, opc, clears,
            conns, attempt, inprogress, ep, valid, cpc, home, answer, faults>>
hook == <<list, it, prev, hookpc, calls, stayed, changes>>
rate == <<buckets, count, last, added>>
frame == <<bytes, rbyte, wbyte, received, delivered, parsed, cleared>>
ring == <<overwrite, head, tail, slots, writing, reading, wreg, rreg, popped, value, content, shared>>
histogram == <<config, counts, total, min_value, max_value, recorded, iter>>
date == <<day, days>>
vars == <<which, magic, client, hook, rate, frame, ring, histogram, date>>

-----------------------------------------------------------------------------
\* What is not in use has one initial state.
Init ==
    /\ which \in {"magic", "client", "hook", "rate", "frame", "ring", "histogram", "date"}
    /\ Magic!Init /\ Client!InitClnt /\ Hook!Init /\ Rate!Init /\ Frame!Init /\ Ring!Init
    /\ Histo!Init /\ Dates!Init
    /\ which # "client" => home = CHOOSE a \in Addrs : TRUE
    /\ which # "ring" => overwrite
    /\ which # "histogram" => config = CHOOSE c \in Configs : TRUE
    /\ which # "date" => day = CHOOSE d \in Starts : TRUE

MagicStep ==
    /\ which = "magic" /\ Magic!Next
    /\ UNCHANGED <<which, client, hook, rate, frame, ring, histogram, date>>

ClientStep ==
    /\ which = "client" /\ Client!NextClnt
    /\ UNCHANGED <<which, magic, hook, rate, frame, ring, histogram, date>>

HookStep ==
    /\ which = "hook" /\ Hook!Next
    /\ UNCHANGED <<which, magic, client, rate, frame, ring, histogram, date>>

RateStep ==
    /\ which = "rate" /\ Rate!Next
    /\ UNCHANGED <<which, magic, client, hook, frame, ring, histogram, date>>

FrameStep ==
    /\ which = "frame" /\ Frame!Next
    /\ UNCHANGED <<which, magic, client, hook, rate, ring, histogram, date>>

RingStep ==
    /\ which = "ring" /\ Ring!Next
    /\ UNCHANGED <<which, magic, client, hook, rate, frame, histogram, date>>

HistogramStep ==
    /\ which = "histogram" /\ Histo!Next
    /\ UNCHANGED <<which, magic, client, hook, rate, frame, ring, date>>

DateStep ==
    /\ which = "date" /\ Dates!NextDay
    /\ UNCHANGED <<which, magic, client, hook, rate, frame, ring, histogram>>

Next ==
    \/ MagicStep \/ ClientStep \/ HookStep \/ RateStep
    \/ FrameStep \/ RingStep \/ HistogramStep \/ DateStep

Spec == Init /\ [][Next]_vars /\ (which = "client" => Client!FairClnt)

-----------------------------------------------------------------------------
(* Properties: see the modules of the components *)

\* Magic ring: the callbacks of producer and consumer never touch the same byte, and the
\* consumer's sees the bytes that were written, in order, across the end of the ring.
BytesIntact == which = "magic" => Magic!NoDataRace /\ Magic!BytesIntact

\* HTTP client: never two connections, or an attempt beside a connection.
OneAtATime == which = "client" => Client!OneAtATime


\* Hooks: those that stay in the list are called once by each dispatch().
HooksServedOnce == which = "hook" => Hook!HooksServedOnce

\* Rate limiter: count() is the number of events in the window.
RateIsWindowSum == which = "rate" => Rate!RateIsWindowSum

\* Frames: the complete messages are passed on, intact, in order, each once.
MessagesDelivered == which = "frame" => Frame!MessagesDelivered

\* Ring buffer: the content of a bounded queue, unless both ends are in a call at once while
\* both of them write the reader's position.
RingIntact == which = "ring" => Ring!RingIntact

\* Histogram: buckets fit together and keep the precision.
PrecisionKept == which = "histogram" => Histo!PrecisionKept

\* Histogram: percentiles, minimum, maximum and the iterators agree with the values.
ResultsRight == which = "histogram" => Histo!ResultsRight

\* Dates: both conversions agree with the calendar.
DatesAgree == which = "date" => Dates!DatesAgree
=============================================================================
