----------------------------- MODULE MpmcQueue ------------------------------
(***************************************************************************)
(* toolbox/ipc/MpmcQueue.hpp: the bounded lock-free multi-producer,        *)
(* multi-consumer queue.  Every step of a thread is one access to shared   *)
(* memory: a load of a position, a load of a cell's sequence number, a     *)
(* compare-and-exchange of a position, the callback's access to a cell's   *)
(* value, the store of a cell's sequence number.                           *)
(*                                                                         *)
(* Shared memory is sequentially consistent: the two positions are only    *)
(* changed by atomic read-modify-writes, and a cell's value is ordered by  *)
(* the acquire load and release store of its sequence number.  Positions   *)
(* are 64-bit in the code and do not wrap in the lifetime of a queue.      *)
(***************************************************************************)
EXTENDS Integers, Sequences, FiniteSets

CONSTANTS Producers,    \* threads that call write()
          Consumers,    \* threads that call read()
          Observers,    \* threads that call size(), available(), empty()
          Values,       \* the values that are pushed
          Capacity,     \* the capacity that the constructor is asked for
          FileBacked,   \* the queue is initialised by new_mpmc_queue()
          MaxWrites,    \* bound: number of positions that writers may claim
          Nothing       \* not a value: nothing received yet

Threads == Producers \cup Consumers \cup Observers

Pow2 == {2^k : k \in 0..30}

\* The least power of two that is not less than n.
next_pow2(n) == CHOOSE p \in Pow2 : p >= n /\ \A q \in Pow2 : q >= n => p <= q

capacity_ == next_pow2(Capacity)

\* assert(capacity >= 2), and what next_pow2() returns for such an argument.
ASSUME CapacityAssumption ==
    /\ Capacity \in Nat /\ Capacity >= 2
    /\ capacity_ \in Nat /\ capacity_ >= Capacity

ASSUME ConstantsAssumption ==
    /\ MaxWrites \in Nat
    /\ FileBacked \in BOOLEAN
    /\ Nothing \notin Values
    /\ Nothing \notin Threads

VARIABLES rpos, wpos,   \* next position to read, next position to write
          seq, val,     \* the cells: sequence number and value
          pc,           \* the next step of each thread's current operation
          pos,          \* local rpos or wpos of the operation
          arg,          \* the value that the current write() pushes
          out,          \* the value that the last read() received
          len           \* the last result of size()

cells == <<seq, val>>
vars == <<rpos, wpos, seq, val, pc, pos, arg, out, len>>

Cells == 0 .. capacity_ - 1

\* rpos & mask_, wpos & mask_
Cell(p) == p % capacity_

\* Mutant: every queue initialises only the cells that were asked for.
InitialisedAsRequested == Capacity

\* Cells whose sequence number is initialised; the others stay zero.
Initialised == IF FileBacked THEN capacity_ ELSE Capacity

Init ==
    /\ rpos = 0
    /\ wpos = 0
    /\ seq = [i \in Cells |-> IF i < Initialised THEN i ELSE 0]
    /\ val = [i \in Cells |-> Nothing]
    /\ pc = [t \in Threads |-> "idle"]
    /\ pos = [t \in Threads |-> 0]
    /\ arg = [t \in Threads |-> Nothing]
    /\ out = [t \in Threads |-> Nothing]
    /\ len = [t \in Threads |-> 0]

Goto(t, from, to) ==
    /\ pc[t] = from
    /\ pc' = [pc EXCEPT ![t] = to]

\* The operation ends and its local variables with it.
Return(t, from) ==
    /\ Goto(t, from, "idle")
    /\ pos' = [pos EXCEPT ![t] = 0]
    /\ arg' = [arg EXCEPT ![t] = Nothing]

-----------------------------------------------------------------------------
(* read() *)

\* Load rpos.
ReadBegin(t) ==
    /\ Goto(t, "idle", "r_seq")
    /\ pos' = [pos EXCEPT ![t] = rpos]
    /\ UNCHANGED <<rpos, wpos, cells, arg, out, len>>

\* The sequence number says that position pos[t] can be read.
ReadReady(t) ==
    /\ seq[Cell(pos[t])] - (pos[t] + 1) = 0
    /\ Goto(t, "r_seq", "r_cas")
    /\ UNCHANGED <<rpos, wpos, cells, pos, arg, out, len>>

\* Mutant: a position taken by another reader counts as an empty queue.
ReadFalseIfStale(t) ==
    /\ seq[Cell(pos[t])] - (pos[t] + 1) # 0
    /\ Return(t, "r_seq")
    /\ UNCHANGED <<rpos, wpos, cells, out, len>>

\* read() returns false.
ReadFalse(t) ==
    /\ seq[Cell(pos[t])] - (pos[t] + 1) < 0
    /\ Return(t, "r_seq")
    /\ UNCHANGED <<rpos, wpos, cells, out, len>>

\* Another reader has already taken the position.
ReadStale(t) ==
    /\ seq[Cell(pos[t])] - (pos[t] + 1) > 0
    /\ Goto(t, "r_seq", "r_reload")
    /\ UNCHANGED <<rpos, wpos, cells, pos, arg, out, len>>

ReadReload(t) ==
    /\ Goto(t, "r_reload", "r_seq")
    /\ pos' = [pos EXCEPT ![t] = rpos]
    /\ UNCHANGED <<rpos, wpos, cells, arg, out, len>>

\* Mutant: rpos is stored without a compare.
ReadClaimByStore(t) ==
    /\ Goto(t, "r_cas", "r_fn")
    /\ rpos' = pos[t] + 1
    /\ UNCHANGED <<wpos, cells, pos, arg, out, len>>

ReadClaim(t) ==
    /\ Goto(t, "r_cas", "r_fn")
    /\ rpos = pos[t]
    /\ rpos' = rpos + 1
    /\ UNCHANGED <<wpos, cells, pos, arg, out, len>>

\* The weak compare-and-exchange may fail although the values are equal; it
\* re-reads the position.
ReadClaimFails(t) ==
    /\ Goto(t, "r_cas", "r_seq")
    /\ pos' = [pos EXCEPT ![t] = rpos]
    /\ UNCHANGED <<rpos, wpos, cells, arg, out, len>>

\* fn(std::move(elem.val))
ReadFn(t) ==
    /\ Goto(t, "r_fn", "r_commit")
    /\ out' = [out EXCEPT ![t] = val[Cell(pos[t])]]
    /\ UNCHANGED <<rpos, wpos, cells, pos, arg, len>>

\* Mutant: the mask is added instead of the capacity.
ReadCommitMask(t) ==
    /\ Return(t, "r_commit")
    /\ seq' = [seq EXCEPT ![Cell(pos[t])] = pos[t] + capacity_ - 1]
    /\ UNCHANGED <<rpos, wpos, val, out, len>>

ReadCommit(t) ==
    /\ Return(t, "r_commit")
    /\ seq' = [seq EXCEPT ![Cell(pos[t])] = pos[t] + capacity_]
    /\ UNCHANGED <<rpos, wpos, val, out, len>>

-----------------------------------------------------------------------------
(* write() *)

\* Writers that have not yet claimed a position or given up.
Claiming == {t \in Threads : pc[t] \in {"w_seq", "w_reload", "w_cas"}}

\* Load wpos.
WriteBegin(t, v) ==
    /\ wpos + Cardinality(Claiming) < MaxWrites
    /\ Goto(t, "idle", "w_seq")
    /\ pos' = [pos EXCEPT ![t] = wpos]
    /\ arg' = [arg EXCEPT ![t] = v]
    /\ UNCHANGED <<rpos, wpos, cells, out, len>>

\* The sequence number says that position pos[t] can be written.
WriteReady(t) ==
    /\ seq[Cell(pos[t])] - pos[t] = 0
    /\ Goto(t, "w_seq", "w_cas")
    /\ UNCHANGED <<rpos, wpos, cells, pos, arg, out, len>>

\* write() returns false.
WriteFalse(t) ==
    /\ seq[Cell(pos[t])] - pos[t] < 0
    /\ Return(t, "w_seq")
    /\ UNCHANGED <<rpos, wpos, cells, out, len>>

\* Another writer has already taken the position.
WriteStale(t) ==
    /\ seq[Cell(pos[t])] - pos[t] > 0
    /\ Goto(t, "w_seq", "w_reload")
    /\ UNCHANGED <<rpos, wpos, cells, pos, arg, out, len>>

WriteReload(t) ==
    /\ Goto(t, "w_reload", "w_seq")
    /\ pos' = [pos EXCEPT ![t] = wpos]
    /\ UNCHANGED <<rpos, wpos, cells, arg, out, len>>

\* Mutant: wpos is stored without a compare.
WriteClaimByStore(t) ==
    /\ Goto(t, "w_cas", "w_fn")
    /\ wpos' = pos[t] + 1
    /\ UNCHANGED <<rpos, cells, pos, arg, out, len>>

WriteClaim(t) ==
    /\ Goto(t, "w_cas", "w_fn")
    /\ wpos = pos[t]
    /\ wpos' = wpos + 1
    /\ UNCHANGED <<rpos, cells, pos, arg, out, len>>

WriteClaimFails(t) ==
    /\ Goto(t, "w_cas", "w_seq")
    /\ pos' = [pos EXCEPT ![t] = wpos]
    /\ UNCHANGED <<rpos, wpos, cells, arg, out, len>>

\* fn(elem.val)
WriteFn(t) ==
    /\ Goto(t, "w_fn", "w_commit")
    /\ val' = [val EXCEPT ![Cell(pos[t])] = arg[t]]
    /\ UNCHANGED <<rpos, wpos, seq, pos, arg, out, len>>

\* Mutant: the sequence number is stored without the increment.
WriteCommitSame(t) ==
    /\ Return(t, "w_commit")
    /\ seq' = [seq EXCEPT ![Cell(pos[t])] = pos[t]]
    /\ UNCHANGED <<rpos, wpos, val, out, len>>

WriteCommit(t) ==
    /\ Return(t, "w_commit")
    /\ seq' = [seq EXCEPT ![Cell(pos[t])] = pos[t] + 1]
    /\ UNCHANGED <<rpos, wpos, val, out, len>>

-----------------------------------------------------------------------------
(* size(): two loads, rpos before wpos *)

SizeBegin(t) ==
    /\ Goto(t, "idle", "s_wpos")
    /\ pos' = [pos EXCEPT ![t] = rpos]
    /\ UNCHANGED <<rpos, wpos, cells, arg, out, len>>

SizeEnd(t) ==
    /\ Return(t, "s_wpos")
    /\ len' = [len EXCEPT ![t] = wpos - pos[t]]
    /\ UNCHANGED <<rpos, wpos, cells, out>>

-----------------------------------------------------------------------------
Read(t) ==
    \/ ReadBegin(t) \/ ReadReady(t) \/ ReadFalse(t) \/ ReadStale(t) \/ ReadReload(t)
    \/ ReadClaim(t) \/ ReadClaimFails(t) \/ ReadFn(t) \/ ReadCommit(t)

Write(t) ==
    \/ \E v \in Values : WriteBegin(t, v)
    \/ WriteReady(t) \/ WriteFalse(t) \/ WriteStale(t) \/ WriteReload(t)
    \/ WriteClaim(t) \/ WriteClaimFails(t) \/ WriteFn(t) \/ WriteCommit(t)

\* Mutant: wpos is loaded before rpos.
SizeSwapped(t) ==
    \/ /\ Goto(t, "idle", "s_wpos")
       /\ pos' = [pos EXCEPT ![t] = wpos]
       /\ UNCHANGED <<rpos, wpos, cells, arg, out, len>>
    \/ /\ Return(t, "s_wpos")
       /\ len' = [len EXCEPT ![t] = pos[t] - rpos]
       /\ UNCHANGED <<rpos, wpos, cells, out>>

Size(t) == SizeBegin(t) \/ SizeEnd(t)

Next ==
    \/ \E t \in Consumers : Read(t)
    \/ \E t \in Producers : Write(t)
    \/ \E t \in Observers : Size(t)

Spec == Init /\ [][Next]_vars

\* A thread inside an operation keeps running, consumers keep calling read(), and
\* the weak compare-and-exchange does not fail spuriously for ever.
Fairness ==
    /\ \A t \in Consumers : WF_vars(Read(t)) /\ SF_vars(ReadClaim(t))
    /\ \A t \in Producers : WF_vars(pc[t] # "idle" /\ Write(t)) /\ SF_vars(WriteClaim(t))

FairSpec == Spec /\ Fairness

-----------------------------------------------------------------------------
(* Properties *)

\* Writer or reader t has claimed position pos[t] and has not committed it.
Writing(t) == pc[t] \in {"w_fn", "w_commit"}
Reading(t) == pc[t] \in {"r_fn", "r_commit"}

PCs == {"idle", "r_seq", "r_reload", "r_cas", "r_fn", "r_commit",
        "w_seq", "w_reload", "w_cas", "w_fn", "w_commit", "s_wpos"}

\* The values of the shared and local variables.
TypeOK ==
    /\ rpos \in Nat
    /\ wpos \in Nat
    /\ seq \in [Cells -> Nat]
    /\ val \in [Cells -> Values \cup {Nothing}]
    /\ pc \in [Threads -> PCs]
    /\ pos \in [Threads -> Nat]
    /\ arg \in [Threads -> Values \cup {Nothing}]
    /\ out \in [Threads -> Values \cup {Nothing}]
    /\ len \in [Threads -> Int]

\* The cell that a writer fills or a reader empties is used by no other thread until
\* the commit: the callbacks of read() and write() never race on elem.val.
NoDataRace ==
    \A t, u \in Threads :
        /\ t # u
        /\ Writing(t) \/ Reading(t)
        /\ Writing(u) \/ Reading(u)
        => Cell(pos[t]) # Cell(pos[u])

\* Writers never run more than one lap ahead of the readers, and readers never
\* overtake the writers: the positions claimed and not yet read fit the cells.
Bounded == rpos <= wpos /\ wpos <= rpos + capacity_

\* Position p has been read and its cell given back.
Released(p) == p < rpos /\ \A t \in Threads : ~(Reading(t) /\ pos[t] = p)

\* Position p has been written and its value made available.
Published(p) == p < wpos /\ \A t \in Threads : ~(Writing(t) /\ pos[t] = p)

\* write() returns false only if capacity is exceeded: the position one lap before
\* the one it would have taken is still unread or being read at that moment.
FalseMeansFull ==
    [][\A t \in Producers :
          WriteFalse(t) => pos[t] >= capacity_ /\ ~Released(pos[t] - capacity_)]_vars

\* read() returns false only if the position it would have taken has no value yet.
FalseMeansUnpublished ==
    [][\A t \in Consumers : ReadFalse(t) => ~Published(pos[t])]_vars

\* Every position that a writer claims is eventually claimed by a reader: no value
\* is stranded by a missed sequence number.
EveryWriteIsRead == \A n \in 1..MaxWrites : (wpos >= n) ~> (rpos >= n)

\* size() is never negative: rpos is loaded before wpos, and the acquire order keeps
\* it so, hence the wpos it is subtracted from is at least as recent.
SizeNotNegative == \A t \in Observers : len[t] >= 0

-----------------------------------------------------------------------------
(* The inductive invariant.  The positions rpos .. rpos + capacity_ - 1 use     *)
(* every cell exactly once; what the cell's sequence number can be follows from *)
(* whether the position has been claimed by a writer.                           *)

\* A position claimed by a writer and by no reader is published, or its writer has
\* yet to commit.
ClaimedCells ==
    \A p \in rpos .. wpos - 1 :
        \/ seq[Cell(p)] = p + 1
        \/ seq[Cell(p)] = p /\ \E t \in Threads : Writing(t) /\ pos[t] = p

\* A position not yet claimed by a writer is free, or the reader of the position one
\* lap before has yet to commit.
FreeCells ==
    \A p \in wpos .. rpos + capacity_ - 1 :
        \/ seq[Cell(p)] = p
        \/ /\ seq[Cell(p)] = p - capacity_ + 1
           /\ \E t \in Threads : Reading(t) /\ pos[t] = p - capacity_

WriterHolds(t) ==
    Writing(t) => /\ rpos <= pos[t] /\ pos[t] < wpos
                  /\ seq[Cell(pos[t])] = pos[t]
                  /\ \A u \in Threads : Writing(u) /\ pos[u] = pos[t] => u = t

ReaderHolds(t) ==
    Reading(t) => /\ pos[t] < rpos /\ wpos <= pos[t] + capacity_
                  /\ seq[Cell(pos[t])] = pos[t] + 1
                  /\ \A u \in Threads : Reading(u) /\ pos[u] = pos[t] => u = t

\* What a thread knows of a position it is about to claim, if nobody else claims it.
WriterSaw(t) ==
    /\ pc[t] \in {"w_seq", "w_cas"} => pos[t] <= wpos
    /\ pc[t] = "w_cas" /\ pos[t] = wpos =>
           wpos < rpos + capacity_ /\ seq[Cell(wpos)] = wpos

ReaderSaw(t) ==
    /\ pc[t] \in {"r_seq", "r_cas", "s_wpos"} => pos[t] <= rpos
    /\ pc[t] = "r_cas" /\ pos[t] = rpos =>
           rpos < wpos /\ seq[Cell(rpos)] = rpos + 1

\* Every cell is free, being written, published or being read, by exactly the thread
\* that claimed its position.
Inv ==
    /\ Bounded
    /\ ClaimedCells
    /\ FreeCells
    /\ \A t \in Threads : WriterHolds(t) /\ ReaderHolds(t) /\ WriterSaw(t) /\ ReaderSaw(t)

\* The value of a published position, or of one being read, is the one that its writer
\* was given.
ValuesHeld ==
    /\ \A t \in Threads :
          /\ pc[t] \in {"w_seq", "w_reload", "w_cas", "w_fn", "w_commit"} => arg[t] \in Values
          /\ pc[t] = "w_commit" => val[Cell(pos[t])] = arg[t]
          /\ pc[t] = "r_fn" => val[Cell(pos[t])] \in Values
    /\ \A p \in rpos .. wpos - 1 : seq[Cell(p)] = p + 1 => val[Cell(p)] \in Values

-----------------------------------------------------------------------------
(* Refinement: MpmcQueue implements TicketFifo *)

Owner(p) == CHOOSE t \in Threads : Writing(t) /\ pos[t] = p

\* The place of position p as the abstract queue sees it.
Place(p) ==
    IF seq[Cell(p)] = p + 1
    THEN [val |-> val[Cell(p)], by |-> Nothing]
    ELSE [val |-> arg[Owner(p)], by |-> Owner(p)]

absItems == [i \in 1 .. wpos - rpos |-> Place(rpos + i - 1)]
absHeld == [t \in Threads |-> IF pc[t] = "r_fn" THEN val[Cell(pos[t])] ELSE Nothing]

Fifo == INSTANCE TicketFifo
            WITH Places <- capacity_, Nobody <- Nothing,
                 items <- absItems, held <- absHeld

\* Values are received in the order in which positions were claimed, each once and
\* unchanged: every step of the code is a step of the abstract queue or changes
\* nothing that the abstract queue shows.
ImplementsFifo == Fifo!Spec
=============================================================================
