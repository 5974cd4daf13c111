----------------------------- MODULE RingBuffer -----------------------------
(***************************************************************************)
(* toolbox/util/RingBuffer.hpp: a ring between one producer and one        *)
(* consumer, two threads whose steps interleave.  With Overwrite the       *)
(* producer drops the oldest element of a full ring: it increments the     *)
(* position of the consumer, which the consumer increments too.  Positions *)
(* are plain integers, so that an increment is a load and a store; the     *)
(* model has the order of x86.                                             *)
(* pop(val) is left out: it ends without a return statement.               *)
(***************************************************************************)
EXTENDS Naturals, Sequences

CONSTANTS Size,           \* the capacity that the constructor is given
          MaxValue        \* bound on the number of elements written, and on the elements
                          \* read by a consumer that has overtaken the producer

VARIABLES overwrite,      \* the template's parameter Overwrite
          rpos, wpos, buf,
          wpc, rpc,       \* next step of the write() and the read() in progress
          wreg, rreg,     \* what the two have loaded of rpos_ to increment it
          got,            \* what the last callback of read() saw
          value,          \* the last element written: they are 1, 2, ...
          content,        \* history: the elements that a bounded queue would hold
          shared          \* history: since the last clear(), calls of both ends have
                          \* overlapped while both of them write rpos_

vars == <<overwrite, rpos, wpos, buf, wpc, rpc, wreg, rreg, got, value, content, shared>>

next_pow2(n) == CHOOSE p \in {2 ^ k : k \in 0 .. n} : p >= n /\ p < 2 * n
Capacity == next_pow2(Size)

empty == rpos = wpos

\* Mutant: one element too many.
fullPlusOne == wpos - rpos = Capacity + 1

full == wpos - rpos = Capacity

Init ==
    /\ overwrite \in BOOLEAN
    /\ rpos = 0 /\ wpos = 0
    /\ buf = [i \in 0 .. Capacity - 1 |-> 0]
    /\ wpc = "idle" /\ rpc = "idle"
    /\ wreg = 0 /\ rreg = 0
    /\ got = 0 /\ value = 0 /\ content = <<>> /\ shared = FALSE

\* A call begins while pc is the step of the other end.
Overlaps(pc) == shared' = (shared \/ (overwrite /\ pc # "idle"))

\* The queue without its oldest element.
Rest == IF content = <<>> THEN <<>> ELSE Tail(content)

-----------------------------------------------------------------------------
(* push() and write() *)

WriteBegin ==
    /\ wpc = "idle"
    /\ overwrite \/ ~full
    /\ value < MaxValue
    /\ wpc' = "fn"
    /\ Overlaps(rpc)
    /\ UNCHANGED <<overwrite, rpos, wpos, buf, rpc, wreg, rreg, got, value, content>>

WriteFn ==
    /\ wpc = "fn"
    /\ value' = value + 1
    /\ buf' = [buf EXCEPT ![wpos % Capacity] = value + 1]
    /\ wpc' = IF overwrite THEN "drop" ELSE "commit"
    /\ UNCHANGED <<overwrite, rpos, wpos, rpc, wreg, rreg, got, content, shared>>

\* With Overwrite: if (full()) ++rpos_.
WriteDrop ==
    /\ wpc = "drop"
    /\ wpc' = IF full THEN "load" ELSE "commit"
    /\ UNCHANGED <<overwrite, rpos, wpos, buf, rpc, wreg, rreg, got, value, content, shared>>

WriteLoad ==
    /\ wpc = "load"
    /\ wreg' = rpos
    /\ wpc' = "store"
    /\ UNCHANGED <<overwrite, rpos, wpos, buf, rpc, rreg, got, value, content, shared>>

WriteStore ==
    /\ wpc = "store"
    /\ rpos' = wreg + 1
    /\ wreg' = 0
    /\ wpc' = "commit"
    /\ content' = Rest
    /\ UNCHANGED <<overwrite, wpos, buf, rpc, rreg, got, value, shared>>

WriteCommit ==
    /\ wpc = "commit"
    /\ wpos' = wpos + 1
    /\ wpc' = "idle"
    /\ content' = Append(content, value)
    /\ UNCHANGED <<overwrite, rpos, buf, rpc, wreg, rreg, got, value, shared>>

-----------------------------------------------------------------------------
(* read(), pop(), and clear() when no other call is in progress *)

ReadBegin ==
    /\ rpc = "idle"
    /\ ~empty /\ rpos < MaxValue
    /\ rpc' = "fn"
    /\ Overlaps(wpc)
    /\ UNCHANGED <<overwrite, rpos, wpos, buf, wpc, wreg, rreg, got, value, content>>

ReadFn ==
    /\ rpc = "fn"
    /\ got' = buf[rpos % Capacity]
    /\ rpc' = "load"
    /\ UNCHANGED <<overwrite, rpos, wpos, buf, wpc, wreg, rreg, value, content, shared>>

ReadLoad ==
    /\ rpc = "load"
    /\ rreg' = rpos
    /\ rpc' = "store"
    /\ UNCHANGED <<overwrite, rpos, wpos, buf, wpc, wreg, got, value, content, shared>>

\* pop(): the caller has seen that the ring is not empty.
pop ==
    /\ rpc = "idle"
    /\ ~empty /\ rpos < MaxValue
    /\ rreg' = rpos
    /\ rpc' = "store"
    /\ Overlaps(wpc)
    /\ UNCHANGED <<overwrite, rpos, wpos, buf, wpc, wreg, got, value, content>>

ReadStore ==
    /\ rpc = "store"
    /\ rpos' = rreg + 1
    /\ rreg' = 0
    /\ rpc' = "idle"
    /\ content' = Rest
    /\ UNCHANGED <<overwrite, wpos, buf, wpc, wreg, got, value, shared>>

clear ==
    /\ wpc = "idle" /\ rpc = "idle"
    /\ rpos' = 0 /\ wpos' = 0
    /\ content' = <<>> /\ shared' = FALSE
    /\ UNCHANGED <<overwrite, buf, wpc, rpc, wreg, rreg, got, value>>

Write == WriteBegin \/ WriteFn \/ WriteDrop \/ WriteLoad \/ WriteStore \/ WriteCommit
Read == ReadBegin \/ ReadFn \/ ReadLoad \/ ReadStore \/ pop

Next == Write \/ Read \/ clear

Spec == Init /\ [][Next]_vars

-----------------------------------------------------------------------------
(* Properties *)

\* The producer has filled the slot of the oldest element and not yet dropped it.
Overwriting == wpc \in {"drop", "load", "store"} /\ full

\* The ring holds what a bounded queue would: the elements in order, the oldest dropped when
\* a full one is overwritten, none lost or torn otherwise; the reader sees the oldest.  Without
\* Overwrite this is so however producer and consumer interleave; with it, as long as their
\* calls do not overlap.
RingIntact ==
    ~shared =>
        /\ Overwriting \/ content = [i \in 1 .. wpos - rpos |-> buf[(rpos + i - 1) % Capacity]]
        /\ rpc = "load" => got = Head(content)

\* "SPSC ring buffer with optional silent overwrite": whatever is overwritten, the consumer
\* sees the elements in the order in which they were written, and none twice.
ReadsInOrder == [][ReadFn => got' > got]_vars
=============================================================================
