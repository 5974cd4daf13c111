-------------------------- MODULE MpmcQueueProofs ---------------------------
(***************************************************************************)
(* Proofs about MpmcQueue for every number of threads, every capacity and  *)
(* every bound on the number of writes.                                    *)
(***************************************************************************)
EXTENDS MpmcQueue, SequenceTheorems, TLAPS

-----------------------------------------------------------------------------
(* Positions and cells *)

\* The capacity of a queue is at least two.
LEMMA CapacityFact == capacity_ \in Nat /\ capacity_ >= 2
BY CapacityAssumption

\* Euclidean division of a position by the capacity.
LEMMA DivMod ==
    ASSUME NEW n \in Nat, n >= 2, NEW p \in Int
    PROVE  /\ p \div n \in Int /\ p % n \in 0 .. n - 1
           /\ p = n * (p \div n) + (p % n)
BY SMT

\* Division is unique.
LEMMA DivUnique ==
    ASSUME NEW n \in Nat, n >= 2, NEW a \in Int, NEW b \in Int,
           NEW c \in 0 .. n - 1, NEW d \in 0 .. n - 1, n * a + c = n * b + d
    PROVE  a = b /\ c = d
<1>1. CASE a = b BY <1>1
<1>2. CASE a < b
  <2>1. n * b >= n * a + n BY <1>2, SMT
  <2> QED BY <2>1
<1>3. CASE a > b
  <2>1. n * a >= n * b + n BY <1>3, SMT
  <2> QED BY <2>1
<1> QED BY <1>1, <1>2, <1>3

\* The cell of a position is one of the cells.
LEMMA CellType ==
    ASSUME NEW p \in Nat
    PROVE  Cell(p) \in Cells
BY CapacityFact, DivMod DEF Cell, Cells

\* A position and the one a lap later use the same cell.
LEMMA CellLap ==
    ASSUME NEW p \in Nat
    PROVE  Cell(p + capacity_) = Cell(p)
<1> DEFINE n == capacity_
           q == p + capacity_
<1> HIDE DEF n
<1>1. n \in Nat /\ n >= 2 BY CapacityFact DEF n
<1>2. q \in Int BY <1>1 DEF n
<1>3. p = n * (p \div n) + (p % n) /\ p \div n \in Int /\ p % n \in 0 .. n - 1
  BY <1>1, DivMod
<1>4. q = n * (q \div n) + (q % n) /\ q \div n \in Int /\ q % n \in 0 .. n - 1
  <2> HIDE DEF q
  <2> QED BY <1>1, <1>2, DivMod
<1> DEFINE a == (p \div n) + 1
           b == q \div n
           c == p % n
           d == q % n
<1>5. n * a = n * (p \div n) + n BY <1>1, <1>3
<1>6. n * a + c = n * b + d
  BY <1>1, <1>3, <1>4, <1>5 DEF n
<1>7. a \in Int /\ b \in Int /\ c \in 0 .. n - 1 /\ d \in 0 .. n - 1
  BY <1>3, <1>4
<1>8. c = d
  <2> HIDE DEF a, b, c, d, q
  <2> QED BY <1>1, <1>6, <1>7, DivUnique
<1> QED BY <1>8 DEF Cell, n

\* Two positions less than a lap apart use different cells.
LEMMA CellDistinct ==
    ASSUME NEW p \in Nat, NEW q \in Nat, p < q, q < p + capacity_
    PROVE  Cell(p) # Cell(q)
<1> DEFINE n == capacity_
<1> HIDE DEF n
<1>1. n \in Nat /\ n >= 2 BY CapacityFact DEF n
<1>2. q < p + n BY DEF n
<1>3. p = n * (p \div n) + (p % n) /\ p \div n \in Int /\ p % n \in 0 .. n - 1
  BY <1>1, DivMod
<1>4. q = n * (q \div n) + (q % n) /\ q \div n \in Int /\ q % n \in 0 .. n - 1
  BY <1>1, DivMod
<1>5. SUFFICES ASSUME p % n = q % n PROVE FALSE BY DEF Cell, n
<1> DEFINE a == p \div n
           b == q \div n
<1>6. n * b - n * a > 0 /\ n * b - n * a < n /\ a \in Int /\ b \in Int
  BY <1>1, <1>2, <1>3, <1>4, <1>5
<1> HIDE DEF a, b
<1>7. CASE a >= b
  <2>1. n * a >= n * b BY <1>1, <1>6, <1>7
  <2> QED BY <2>1, <1>6, <1>1
<1>8. CASE a < b
  <2>1. n * b >= n * a + n BY <1>1, <1>6, <1>8
  <2> QED BY <2>1, <1>6, <1>1
<1> QED BY <1>6, <1>7, <1>8

\* The first lap uses the cells in order.
LEMMA CellFirstLap ==
    ASSUME NEW p \in Cells
    PROVE  Cell(p) = p
<1> DEFINE n == capacity_
           a == p \div n
           c == p % n
<1>1. n \in Nat /\ n >= 2 /\ p \in 0 .. n - 1 /\ p \in Int BY CapacityFact DEF Cells
<1> HIDE DEF n
<1>2. p = n * a + c /\ a \in Int /\ c \in 0 .. n - 1 BY <1>1, DivMod
<1>3. n * a + c = n * 0 + p BY <1>1, <1>2
<1>4. c = p
  <2> HIDE DEF a, c
  <2> QED BY <1>1, <1>2, <1>3, DivUnique
<1> QED BY <1>4 DEF Cell, n

-----------------------------------------------------------------------------
(* Type correctness *)

\* The constructor establishes the types.
LEMMA TypeInit == Init => TypeOK
BY CapacityFact, CapacityAssumption DEF Init, TypeOK, PCs, Cells, Initialised

\* The steps of read() preserve the types.
LEMMA TypeRead ==
    ASSUME TypeOK, NEW t \in Consumers, Read(t)
    PROVE  TypeOK'
<1> USE CapacityFact DEF TypeOK, PCs, Goto, Return, cells
<1>0. t \in Threads BY DEF Threads
<1>1. CASE ReadBegin(t) BY <1>0, <1>1 DEF ReadBegin
<1>2. CASE ReadReady(t) BY <1>0, <1>2 DEF ReadReady
<1>3. CASE ReadFalse(t) BY <1>0, <1>3 DEF ReadFalse
<1>4. CASE ReadStale(t) BY <1>0, <1>4 DEF ReadStale
<1>5. CASE ReadReload(t) BY <1>0, <1>5 DEF ReadReload
<1>6. CASE ReadClaim(t) BY <1>0, <1>6 DEF ReadClaim
<1>7. CASE ReadClaimFails(t) BY <1>0, <1>7 DEF ReadClaimFails
<1>8. CASE ReadFn(t)
  <2>1. Cell(pos[t]) \in Cells BY <1>0, CellType
  <2> QED BY <1>0, <1>8, <2>1 DEF ReadFn
<1>9. CASE ReadCommit(t)
  <2> DEFINE n == pos[t] + capacity_
  <2>1. n \in Nat BY <1>0
  <2>2. seq' = [seq EXCEPT ![Cell(pos[t])] = n] BY <1>9 DEF ReadCommit
  <2> HIDE DEF n
  <2>3. seq' \in [Cells -> Nat] BY <2>1, <2>2
  <2> QED BY <1>0, <1>9, <2>3 DEF ReadCommit
<1> QED BY <1>1, <1>2, <1>3, <1>4, <1>5, <1>6, <1>7, <1>8, <1>9 DEF Read

\* The steps of write() preserve the types.
LEMMA TypeWrite ==
    ASSUME TypeOK, NEW t \in Producers, Write(t)
    PROVE  TypeOK'
<1> USE CapacityFact DEF TypeOK, PCs, Goto, Return, cells
<1>0. t \in Threads BY DEF Threads
<1>1. CASE \E v \in Values : WriteBegin(t, v) BY <1>0, <1>1 DEF WriteBegin
<1>2. CASE WriteReady(t) BY <1>0, <1>2 DEF WriteReady
<1>3. CASE WriteFalse(t) BY <1>0, <1>3 DEF WriteFalse
<1>4. CASE WriteStale(t) BY <1>0, <1>4 DEF WriteStale
<1>5. CASE WriteReload(t) BY <1>0, <1>5 DEF WriteReload
<1>6. CASE WriteClaim(t) BY <1>0, <1>6 DEF WriteClaim
<1>7. CASE WriteClaimFails(t) BY <1>0, <1>7 DEF WriteClaimFails
<1>8. CASE WriteFn(t) BY <1>0, <1>8 DEF WriteFn
<1>9. CASE WriteCommit(t)
  <2> DEFINE n == pos[t] + 1
  <2>1. n \in Nat BY <1>0
  <2>2. seq' = [seq EXCEPT ![Cell(pos[t])] = n] BY <1>9 DEF WriteCommit
  <2> HIDE DEF n
  <2>3. seq' \in [Cells -> Nat] BY <2>1, <2>2
  <2> QED BY <1>0, <1>9, <2>3 DEF WriteCommit
<1> QED BY <1>1, <1>2, <1>3, <1>4, <1>5, <1>6, <1>7, <1>8, <1>9 DEF Write

\* Every step preserves the types.
LEMMA TypeNext == TypeOK /\ [Next]_vars => TypeOK'
<1> SUFFICES ASSUME TypeOK, [Next]_vars PROVE TypeOK' OBVIOUS
<1>1. CASE \E t \in Consumers : Read(t) BY <1>1, TypeRead
<1>2. CASE \E t \in Producers : Write(t) BY <1>2, TypeWrite
<1>3. CASE \E t \in Observers : Size(t)
  BY <1>3 DEF Size, SizeBegin, SizeEnd, Goto, Return, cells, TypeOK, PCs, Threads
<1>4. CASE UNCHANGED vars BY <1>4 DEF vars, TypeOK
<1> QED BY <1>1, <1>2, <1>3, <1>4 DEF Next

\* Every variable of the queue and of the threads that use it keeps its type.
THEOREM TypeCorrect == Spec => []TypeOK
BY TypeInit, TypeNext, PTL DEF Spec

-----------------------------------------------------------------------------
(* The inductive invariant *)

\* The constructor establishes the invariant, if it initialises all the cells.
LEMMA InvInit == Initialised = capacity_ /\ Init => Inv
<1> SUFFICES ASSUME Initialised = capacity_, Init PROVE Inv OBVIOUS
<1> USE CapacityFact
<1>1. Bounded BY DEF Init, Bounded
<1>2. ClaimedCells BY DEF Init, ClaimedCells
<1>3. FreeCells
  <2> SUFFICES ASSUME NEW p \in wpos .. rpos + capacity_ - 1 PROVE seq[Cell(p)] = p
    BY DEF FreeCells
  <2>1. p \in Cells BY DEF Init, Cells
  <2>2. Cell(p) = p BY <2>1, CellFirstLap
  <2> QED BY <2>1, <2>2 DEF Init, Cells
<1>4. \A t \in Threads : WriterHolds(t) /\ ReaderHolds(t) /\ WriterSaw(t) /\ ReaderSaw(t)
  BY DEF Init, WriterHolds, ReaderHolds, WriterSaw, ReaderSaw, Writing, Reading
<1> QED BY <1>1, <1>2, <1>3, <1>4 DEF Inv

\* A step of thread t that changes neither a position nor a sequence number, and
\* neither starts nor ends t's hold on a cell, preserves the invariant if t knows
\* what it ought to know afterwards.
LEMMA QuietStep ==
    ASSUME TypeOK, TypeOK', Inv, NEW t \in Threads,
           rpos' = rpos, wpos' = wpos, seq' = seq,
           \A u \in Threads : u # t => pc'[u] = pc[u] /\ pos'[u] = pos[u],
           Writing(t)' <=> Writing(t),
           Reading(t)' <=> Reading(t),
           Writing(t) \/ Reading(t) => pos'[t] = pos[t],
           WriterSaw(t)', ReaderSaw(t)'
    PROVE  Inv'
<1>1. Bounded' BY DEF Inv, Bounded
<1>2. ASSUME NEW u \in Threads
      PROVE  /\ Writing(u)' <=> Writing(u)
             /\ Reading(u)' <=> Reading(u)
             /\ Writing(u) \/ Reading(u) => pos'[u] = pos[u]
  BY DEF Writing, Reading
<1>3. ClaimedCells' BY <1>2 DEF Inv, ClaimedCells, Cell
<1>4. FreeCells' BY <1>2 DEF Inv, FreeCells, Cell
<1>5. ASSUME NEW u \in Threads PROVE WriterHolds(u)'
  BY <1>2 DEF Inv, WriterHolds, Cell
<1>6. ASSUME NEW u \in Threads PROVE ReaderHolds(u)'
  BY <1>2 DEF Inv, ReaderHolds, Cell
<1>7. ASSUME NEW u \in Threads PROVE WriterSaw(u)' /\ ReaderSaw(u)'
  BY DEF Inv, WriterSaw, ReaderSaw, Cell
<1> QED BY <1>1, <1>3, <1>4, <1>5, <1>6, <1>7 DEF Inv

\* A writer that claims a position finds its cell free, and is the only one to hold it.
LEMMA InvWriteClaim ==
    ASSUME TypeOK, TypeOK', Inv, NEW t \in Threads, WriteClaim(t)
    PROVE  Inv'
<1> USE CapacityFact
<1>1. /\ pos[t] = wpos /\ wpos' = wpos + 1 /\ rpos' = rpos /\ seq' = seq /\ pos' = pos
      /\ pc[t] = "w_cas" /\ pc'[t] = "w_fn" /\ wpos \in Nat /\ rpos \in Nat
      /\ \A u \in Threads : pos[u] \in Nat
      /\ \A u \in Threads : u # t => pc'[u] = pc[u]
  BY DEF WriteClaim, Goto, cells, TypeOK
<1>2. wpos < rpos + capacity_ /\ seq[Cell(wpos)] = wpos BY <1>1 DEF Inv, WriterSaw
<1>3. ~Writing(t) /\ ~Reading(t) /\ Writing(t)' /\ ~Reading(t)'
  BY <1>1 DEF Writing, Reading
<1>4. \A u \in Threads : u # t => (Writing(u)' <=> Writing(u)) /\ (Reading(u)' <=> Reading(u))
  BY <1>1 DEF Writing, Reading
<1>5. Bounded' BY <1>1, <1>2 DEF Inv, Bounded
<1>6. ClaimedCells'
  <2> SUFFICES ASSUME NEW p \in rpos .. wpos
               PROVE  \/ seq[Cell(p)] = p + 1
                      \/ seq[Cell(p)] = p /\ \E u \in Threads : Writing(u)' /\ pos[u] = p
    <3>1. rpos' .. wpos' - 1 = rpos .. wpos BY <1>1
    <3> QED BY <1>1, <3>1 DEF ClaimedCells, Cell
  <2>1. CASE p = wpos BY <2>1, <1>1, <1>2, <1>3
  <2>2. CASE p # wpos BY <2>2, <1>1, <1>3, <1>4 DEF Inv, ClaimedCells
  <2> QED BY <2>1, <2>2
<1>7. FreeCells'
  <2> SUFFICES ASSUME NEW p \in wpos + 1 .. rpos + capacity_ - 1
               PROVE  \/ seq[Cell(p)] = p
                      \/ /\ seq[Cell(p)] = p - capacity_ + 1
                         /\ \E u \in Threads : Reading(u)' /\ pos[u] = p - capacity_
    BY <1>1 DEF FreeCells, Cell
  <2>1. p \in wpos .. rpos + capacity_ - 1 BY <1>1
  <2> QED BY <2>1, <1>3, <1>4 DEF Inv, FreeCells
<1>8. ASSUME NEW u \in Threads PROVE WriterHolds(u)'
  <2>1. \A v \in Threads : Writing(v) => rpos <= pos[v] /\ pos[v] < wpos BY DEF Inv, WriterHolds
  <2>2. CASE u = t BY <2>1, <2>2, <1>1, <1>2, <1>3, <1>4 DEF WriterHolds, Cell, Inv, Bounded
  <2>3. CASE u # t BY <2>1, <2>3, <1>1, <1>3, <1>4 DEF WriterHolds, Cell, Inv
  <2> QED BY <2>2, <2>3
<1>9. ASSUME NEW u \in Threads PROVE ReaderHolds(u)'
  <2> SUFFICES ASSUME Reading(u) PROVE ReaderHolds(u)' BY <1>3, <1>4 DEF ReaderHolds
  <2>1. Cell(pos[u] + capacity_) = Cell(pos[u]) BY CellLap, <1>1
  <2>2. seq[Cell(pos[u])] = pos[u] + 1 /\ wpos <= pos[u] + capacity_ BY DEF Inv, ReaderHolds
  <2>3. wpos # pos[u] + capacity_ BY <1>1, <1>2, <2>1, <2>2
  <2>4. wpos + 1 <= pos[u] + capacity_ BY <1>1, <2>2, <2>3
  <2>5. pos[u] < rpos /\ \A v \in Threads : Reading(v)' /\ pos[v] = pos[u] => v = u
    BY <1>3, <1>4 DEF Inv, ReaderHolds
  <2> QED BY <1>1, <2>2, <2>4, <2>5 DEF ReaderHolds, Cell
<1>10. ASSUME NEW u \in Threads PROVE WriterSaw(u)' /\ ReaderSaw(u)'
  BY <1>1 DEF Inv, WriterSaw, ReaderSaw, Cell
<1> QED BY <1>5, <1>6, <1>7, <1>8, <1>9, <1>10 DEF Inv

\* A reader that claims a position finds its cell published, and is the only one to hold it.
LEMMA InvReadClaim ==
    ASSUME TypeOK, TypeOK', Inv, NEW t \in Threads, ReadClaim(t)
    PROVE  Inv'
<1> USE CapacityFact
<1>1. /\ pos[t] = rpos /\ rpos' = rpos + 1 /\ wpos' = wpos /\ seq' = seq /\ pos' = pos
      /\ pc[t] = "r_cas" /\ pc'[t] = "r_fn" /\ wpos \in Nat /\ rpos \in Nat
      /\ \A u \in Threads : pos[u] \in Nat
      /\ \A u \in Threads : u # t => pc'[u] = pc[u]
  BY DEF ReadClaim, Goto, cells, TypeOK
<1>2. rpos < wpos /\ seq[Cell(rpos)] = rpos + 1 BY <1>1 DEF Inv, ReaderSaw
<1>3. ~Writing(t) /\ ~Reading(t) /\ ~Writing(t)' /\ Reading(t)'
  BY <1>1 DEF Writing, Reading
<1>4. \A u \in Threads : u # t => (Writing(u)' <=> Writing(u)) /\ (Reading(u)' <=> Reading(u))
  BY <1>1 DEF Writing, Reading
<1>5. Bounded' BY <1>1, <1>2 DEF Inv, Bounded
<1>6. ClaimedCells'
  BY <1>1, <1>3, <1>4 DEF Inv, ClaimedCells, Cell
<1>7. FreeCells'
  <2> SUFFICES ASSUME NEW p \in wpos .. rpos + capacity_
               PROVE  \/ seq[Cell(p)] = p
                      \/ /\ seq[Cell(p)] = p - capacity_ + 1
                         /\ \E u \in Threads : Reading(u)' /\ pos[u] = p - capacity_
    BY <1>1 DEF FreeCells, Cell
  <2>1. CASE p = rpos + capacity_
    <3>1. Cell(p) = Cell(rpos) BY <2>1, <1>1, CellLap
    <3> QED BY <2>1, <3>1, <1>1, <1>2, <1>3
  <2>2. CASE p # rpos + capacity_ BY <2>2, <1>1, <1>3, <1>4 DEF Inv, FreeCells
  <2> QED BY <2>1, <2>2
<1>8. ASSUME NEW u \in Threads PROVE WriterHolds(u)'
  BY <1>1, <1>2, <1>3, <1>4 DEF WriterHolds, Cell, Inv
<1>9. ASSUME NEW u \in Threads PROVE ReaderHolds(u)'
  <2>1. \A v \in Threads : Reading(v) => pos[v] < rpos BY DEF Inv, ReaderHolds
  <2>2. CASE u = t BY <2>1, <2>2, <1>1, <1>2, <1>3, <1>4 DEF ReaderHolds, Cell, Inv, Bounded
  <2>3. CASE u # t BY <2>1, <2>3, <1>1, <1>3, <1>4 DEF ReaderHolds, Cell, Inv
  <2> QED BY <2>2, <2>3
<1>10. ASSUME NEW u \in Threads PROVE WriterSaw(u)' /\ ReaderSaw(u)'
  BY <1>1 DEF Inv, WriterSaw, ReaderSaw, Cell
<1> QED BY <1>5, <1>6, <1>7, <1>8, <1>9, <1>10 DEF Inv

\* The commit of write() publishes its own cell and disturbs no other.
LEMMA InvWriteCommit ==
    ASSUME TypeOK, TypeOK', Inv, NEW t \in Threads, WriteCommit(t)
    PROVE  Inv'
<1> USE CapacityFact
<1> DEFINE p == pos[t]
<1>1. /\ rpos' = rpos /\ wpos' = wpos /\ wpos \in Nat /\ rpos \in Nat /\ p \in Nat
      /\ seq' = [seq EXCEPT ![Cell(p)] = p + 1] /\ seq \in [Cells -> Nat]
      /\ pc[t] = "w_commit" /\ pc'[t] = "idle"
      /\ \A u \in Threads : pos[u] \in Nat
      /\ \A u \in Threads : u # t => pc'[u] = pc[u] /\ pos'[u] = pos[u]
  BY DEF WriteCommit, Return, Goto, TypeOK
<1>2. Writing(t) /\ ~Reading(t) /\ ~Writing(t)' /\ ~Reading(t)'
  BY <1>1 DEF Writing, Reading
<1>3. rpos <= p /\ p < wpos /\ wpos <= rpos + capacity_ BY <1>2 DEF Inv, WriterHolds, Bounded
<1>4. \A u \in Threads : u # t => (Writing(u)' <=> Writing(u)) /\ (Reading(u)' <=> Reading(u))
  BY <1>1 DEF Writing, Reading
<1>5. \A u \in Threads : u # t /\ Writing(u) => pos[u] # p
  BY <1>2 DEF Inv, WriterHolds
<1> HIDE DEF p
<1>6. seq'[Cell(p)] = p + 1 BY <1>1, CellType
<1>7. ASSUME NEW q \in Nat, q # p, q < p + capacity_, p < q + capacity_
      PROVE  seq'[Cell(q)] = seq[Cell(q)]
  <2>1. Cell(q) # Cell(p) BY <1>1, <1>7, CellDistinct
  <2> QED BY <1>1, <2>1, CellType
<1>8. Bounded' BY <1>1 DEF Inv, Bounded
<1>9. ClaimedCells'
  <2> SUFFICES ASSUME NEW q \in rpos .. wpos - 1
               PROVE  \/ seq'[Cell(q)] = q + 1
                      \/ seq'[Cell(q)] = q /\ \E u \in Threads : Writing(u)' /\ pos'[u] = q
    BY <1>1 DEF ClaimedCells, Cell
  <2>1. CASE q = p BY <2>1, <1>6
  <2>2. CASE q # p
    <3>1. seq'[Cell(q)] = seq[Cell(q)] BY <1>1, <1>3, <1>7, <2>2
    <3>2. CASE seq[Cell(q)] = q + 1 BY <3>1, <3>2
    <3>3. CASE seq[Cell(q)] = q /\ \E u \in Threads : Writing(u) /\ pos[u] = q
      BY <3>1, <3>3, <2>2, <1>1, <1>4 DEF p
    <3> QED BY <3>2, <3>3 DEF Inv, ClaimedCells
  <2> QED BY <2>1, <2>2
<1>10. FreeCells'
  <2> SUFFICES ASSUME NEW q \in wpos .. rpos + capacity_ - 1
               PROVE  \/ seq'[Cell(q)] = q
                      \/ /\ seq'[Cell(q)] = q - capacity_ + 1
                         /\ \E u \in Threads : Reading(u)' /\ pos'[u] = q - capacity_
    BY <1>1 DEF FreeCells, Cell
  <2>1. seq'[Cell(q)] = seq[Cell(q)] BY <1>1, <1>3, <1>7
  <2> QED BY <2>1, <1>1, <1>2, <1>4 DEF Inv, FreeCells
<1>11. ASSUME NEW u \in Threads PROVE WriterHolds(u)'
  <2> SUFFICES ASSUME u # t, Writing(u) PROVE WriterHolds(u)' BY <1>2, <1>4 DEF WriterHolds
  <2>1. /\ rpos <= pos[u] /\ pos[u] < wpos /\ seq[Cell(pos[u])] = pos[u]
        /\ \A v \in Threads : Writing(v) /\ pos[v] = pos[u] => v = u
    BY DEF Inv, WriterHolds
  <2>2. pos[u] # p /\ pos[u] \in Nat BY <1>1, <1>5
  <2>3. seq'[Cell(pos[u])] = pos[u] BY <1>1, <1>3, <1>7, <2>1, <2>2
  <2> QED BY <1>1, <1>2, <1>4, <2>1, <2>3 DEF WriterHolds, Cell
<1>12. ASSUME NEW u \in Threads PROVE ReaderHolds(u)'
  <2> SUFFICES ASSUME u # t, Reading(u) PROVE ReaderHolds(u)' BY <1>2, <1>4 DEF ReaderHolds
  <2>1. /\ pos[u] < rpos /\ wpos <= pos[u] + capacity_ /\ seq[Cell(pos[u])] = pos[u] + 1
        /\ \A v \in Threads : Reading(v) /\ pos[v] = pos[u] => v = u
    BY DEF Inv, ReaderHolds
  <2>2. pos[u] \in Nat BY <1>1
  <2>3. seq'[Cell(pos[u])] = pos[u] + 1 BY <1>1, <1>3, <1>7, <2>1, <2>2
  <2> QED BY <1>1, <1>2, <1>4, <2>1, <2>3 DEF ReaderHolds, Cell
<1>13. ASSUME NEW u \in Threads PROVE WriterSaw(u)' /\ ReaderSaw(u)'
  <2>1. CASE u = t BY <2>1, <1>1 DEF WriterSaw, ReaderSaw
  <2>2. CASE u # t
    <3>1. wpos < rpos + capacity_ /\ seq[Cell(wpos)] = wpos => seq'[Cell(wpos)] = wpos
      BY <1>1, <1>3, <1>7
    <3>2. rpos < wpos /\ seq[Cell(rpos)] = rpos + 1 => seq'[Cell(rpos)] = rpos + 1
      <4>1. CASE rpos = p BY <4>1, <1>6
      <4>2. CASE rpos # p BY <4>2, <1>1, <1>3, <1>7
      <4> QED BY <4>1, <4>2
    <3>3. WriterSaw(u)' BY <1>1, <2>2, <3>1 DEF Inv, WriterSaw, Cell
    <3>4. ReaderSaw(u)' BY <1>1, <2>2, <3>2 DEF Inv, ReaderSaw, Cell
    <3> QED BY <3>3, <3>4
  <2> QED BY <2>1, <2>2
<1> QED BY <1>8, <1>9, <1>10, <1>11, <1>12, <1>13 DEF Inv

\* The commit of read() frees its own cell for the next lap and disturbs no other.
LEMMA InvReadCommit ==
    ASSUME TypeOK, TypeOK', Inv, NEW t \in Threads, ReadCommit(t)
    PROVE  Inv'
<1> USE CapacityFact
<1> DEFINE p == pos[t]
<1>1. /\ rpos' = rpos /\ wpos' = wpos /\ wpos \in Nat /\ rpos \in Nat /\ p \in Nat
      /\ seq' = [seq EXCEPT ![Cell(p)] = p + capacity_] /\ seq \in [Cells -> Nat]
      /\ pc[t] = "r_commit" /\ pc'[t] = "idle"
      /\ \A u \in Threads : pos[u] \in Nat
      /\ \A u \in Threads : u # t => pc'[u] = pc[u] /\ pos'[u] = pos[u]
  BY DEF ReadCommit, Return, Goto, TypeOK
<1>2. Reading(t) /\ ~Writing(t) /\ ~Writing(t)' /\ ~Reading(t)'
  BY <1>1 DEF Writing, Reading
<1>3. p < rpos /\ wpos <= p + capacity_ /\ rpos <= wpos
  BY <1>2 DEF Inv, ReaderHolds, Bounded
<1>4. \A u \in Threads : u # t => (Writing(u)' <=> Writing(u)) /\ (Reading(u)' <=> Reading(u))
  BY <1>1 DEF Writing, Reading
<1>5. \A u \in Threads : u # t /\ Reading(u) => pos[u] # p
  BY <1>2 DEF Inv, ReaderHolds
<1> HIDE DEF p
<1>6. seq'[Cell(p + capacity_)] = p + capacity_
  <2>1. Cell(p + capacity_) = Cell(p) BY <1>1, CellLap
  <2> QED BY <1>1, <2>1, CellType
<1>7. ASSUME NEW q \in Nat, q # p, q < p + capacity_, p < q + capacity_
      PROVE  seq'[Cell(q)] = seq[Cell(q)]
  <2>1. Cell(q) # Cell(p) BY <1>1, <1>7, CellDistinct
  <2> QED BY <1>1, <2>1, CellType
<1>8. Bounded' BY <1>1 DEF Inv, Bounded
<1>9. ClaimedCells'
  <2> SUFFICES ASSUME NEW q \in rpos .. wpos - 1
               PROVE  \/ seq'[Cell(q)] = q + 1
                      \/ seq'[Cell(q)] = q /\ \E u \in Threads : Writing(u)' /\ pos'[u] = q
    BY <1>1 DEF ClaimedCells, Cell
  <2>1. seq'[Cell(q)] = seq[Cell(q)] BY <1>1, <1>3, <1>7
  <2> QED BY <2>1, <1>1, <1>2, <1>4 DEF Inv, ClaimedCells
<1>10. FreeCells'
  <2> SUFFICES ASSUME NEW q \in wpos .. rpos + capacity_ - 1
               PROVE  \/ seq'[Cell(q)] = q
                      \/ /\ seq'[Cell(q)] = q - capacity_ + 1
                         /\ \E u \in Threads : Reading(u)' /\ pos'[u] = q - capacity_
    BY <1>1 DEF FreeCells, Cell
  <2>1. CASE q = p + capacity_ BY <2>1, <1>6
  <2>2. CASE q < p + capacity_
    <3>1. seq'[Cell(q)] = seq[Cell(q)] BY <1>1, <1>3, <1>7, <2>2
    <3>2. q - capacity_ # p BY <2>2, <1>1
    <3> QED BY <3>1, <3>2, <1>1, <1>4 DEF Inv, FreeCells, p
  <2>3. CASE q > p + capacity_
    <3>1. Cell(p + capacity_) = Cell(p) BY <1>1, CellLap
    <3>2. Cell(q) # Cell(p) BY <1>1, <1>3, <2>3, <3>1, CellDistinct
    <3>3. seq'[Cell(q)] = seq[Cell(q)] BY <1>1, <3>2, CellType
    <3>4. q - capacity_ # p BY <2>3, <1>1
    <3> QED BY <3>3, <3>4, <1>1, <1>4 DEF Inv, FreeCells, p
  <2> QED BY <1>1, <2>1, <2>2, <2>3
<1>11. ASSUME NEW u \in Threads PROVE WriterHolds(u)'
  <2> SUFFICES ASSUME u # t, Writing(u) PROVE WriterHolds(u)' BY <1>2, <1>4 DEF WriterHolds
  <2>1. /\ rpos <= pos[u] /\ pos[u] < wpos /\ seq[Cell(pos[u])] = pos[u]
        /\ \A v \in Threads : Writing(v) /\ pos[v] = pos[u] => v = u
    BY DEF Inv, WriterHolds
  <2>2. pos[u] \in Nat BY <1>1
  <2>3. seq'[Cell(pos[u])] = pos[u] BY <1>1, <1>3, <1>7, <2>1, <2>2
  <2> QED BY <1>1, <1>2, <1>4, <2>1, <2>3 DEF WriterHolds, Cell
<1>12. ASSUME NEW u \in Threads PROVE ReaderHolds(u)'
  <2> SUFFICES ASSUME u # t, Reading(u) PROVE ReaderHolds(u)' BY <1>2, <1>4 DEF ReaderHolds
  <2>1. /\ pos[u] < rpos /\ wpos <= pos[u] + capacity_ /\ seq[Cell(pos[u])] = pos[u] + 1
        /\ \A v \in Threads : Reading(v) /\ pos[v] = pos[u] => v = u
    BY DEF Inv, ReaderHolds
  <2>2. pos[u] # p /\ pos[u] \in Nat BY <1>1, <1>5
  <2>3. seq'[Cell(pos[u])] = pos[u] + 1 BY <1>1, <1>3, <1>7, <2>1, <2>2
  <2> QED BY <1>1, <1>2, <1>4, <2>1, <2>3 DEF ReaderHolds, Cell
<1>13. ASSUME NEW u \in Threads PROVE WriterSaw(u)' /\ ReaderSaw(u)'
  <2>1. CASE u = t BY <2>1, <1>1 DEF WriterSaw, ReaderSaw
  <2>2. CASE u # t
    <3>1. seq[Cell(wpos)] = wpos => seq'[Cell(wpos)] = wpos
      <4>1. CASE wpos = p + capacity_ BY <4>1, <1>6
      <4>2. CASE wpos # p + capacity_ BY <4>2, <1>1, <1>3, <1>7
      <4> QED BY <4>1, <4>2
    <3>2. rpos < wpos /\ seq[Cell(rpos)] = rpos + 1 => seq'[Cell(rpos)] = rpos + 1
      BY <1>1, <1>3, <1>7
    <3>3. WriterSaw(u)' BY <1>1, <2>2, <3>1 DEF Inv, WriterSaw, Cell
    <3>4. ReaderSaw(u)' BY <1>1, <2>2, <3>2 DEF Inv, ReaderSaw, Cell
    <3> QED BY <3>3, <3>4
  <2> QED BY <2>1, <2>2
<1> QED BY <1>8, <1>9, <1>10, <1>11, <1>12, <1>13 DEF Inv

\* The steps of read() preserve the invariant.
LEMMA InvRead ==
    ASSUME TypeOK, TypeOK', Inv, NEW t \in Consumers, Read(t)
    PROVE  Inv'
<1> USE CapacityFact
<1>0. t \in Threads /\ pos[t] \in Nat /\ rpos \in Nat /\ wpos \in Nat
  BY DEF Threads, TypeOK
<1>1. CASE ReadBegin(t) \/ ReadReload(t) \/ ReadClaimFails(t)
  <2>1. /\ pc[t] \in {"idle", "r_reload", "r_cas"} /\ pc'[t] = "r_seq" /\ pos'[t] = rpos
        /\ rpos' = rpos /\ wpos' = wpos /\ seq' = seq
        /\ \A u \in Threads : u # t => pc'[u] = pc[u] /\ pos'[u] = pos[u]
    BY <1>0, <1>1 DEF ReadBegin, ReadReload, ReadClaimFails, Goto, cells, TypeOK
  <2>2. ~Writing(t) /\ ~Reading(t) /\ ~Writing(t)' /\ ~Reading(t)' BY <2>1 DEF Writing, Reading
  <2>3. WriterSaw(t)' /\ ReaderSaw(t)' BY <1>0, <2>1 DEF WriterSaw, ReaderSaw
  <2> QED BY <1>0, <2>1, <2>2, <2>3, QuietStep
<1>2. CASE ReadReady(t)
  <2>1. /\ pc[t] = "r_seq" /\ pc'[t] = "r_cas" /\ pos' = pos /\ seq[Cell(pos[t])] = pos[t] + 1
        /\ rpos' = rpos /\ wpos' = wpos /\ seq' = seq
        /\ \A u \in Threads : u # t => pc'[u] = pc[u] /\ pos'[u] = pos[u]
    <3>1. Cell(pos[t]) \in Cells /\ seq[Cell(pos[t])] \in Nat BY <1>0, CellType DEF TypeOK
    <3>2. seq[Cell(pos[t])] = pos[t] + 1 BY <1>0, <1>2, <3>1 DEF ReadReady
    <3> QED BY <1>0, <1>2, <3>2 DEF ReadReady, Goto, cells, TypeOK
  <2>2. ~Writing(t) /\ ~Reading(t) /\ ~Writing(t)' /\ ~Reading(t)' BY <2>1 DEF Writing, Reading
  <2>3. pos[t] <= rpos BY <2>1, <1>0 DEF Inv, ReaderSaw
  <2>4. ASSUME pos[t] = rpos PROVE rpos < wpos
    <3> SUFFICES ASSUME rpos = wpos PROVE FALSE BY <1>0 DEF Inv, Bounded
    <3>1. rpos \in wpos .. rpos + capacity_ - 1 BY <1>0
    <3>2. seq[Cell(rpos)] = rpos \/ seq[Cell(rpos)] = rpos - capacity_ + 1
      BY <3>1 DEF Inv, FreeCells
    <3> QED BY <1>0, <2>1, <2>4, <3>2
  <2>5. ReaderSaw(t)'
    BY <1>0, <2>1, <2>3, <2>4 DEF ReaderSaw, Cell
  <2>6. WriterSaw(t)' BY <2>1 DEF WriterSaw
  <2> QED BY <1>0, <2>1, <2>2, <2>5, <2>6, QuietStep
<1>3. CASE ReadFalse(t) \/ ReadStale(t)
  <2>1. /\ pc[t] = "r_seq" /\ pc'[t] \in {"idle", "r_reload"}
        /\ rpos' = rpos /\ wpos' = wpos /\ seq' = seq
        /\ \A u \in Threads : u # t => pc'[u] = pc[u] /\ pos'[u] = pos[u]
    BY <1>0, <1>3 DEF ReadFalse, ReadStale, Return, Goto, cells, TypeOK
  <2>2. ~Writing(t) /\ ~Reading(t) /\ ~Writing(t)' /\ ~Reading(t)' BY <2>1 DEF Writing, Reading
  <2>3. WriterSaw(t)' /\ ReaderSaw(t)' BY <2>1 DEF WriterSaw, ReaderSaw
  <2> QED BY <1>0, <2>1, <2>2, <2>3, QuietStep
<1>4. CASE ReadFn(t)
  <2>1. /\ pc[t] = "r_fn" /\ pc'[t] = "r_commit" /\ pos' = pos
        /\ rpos' = rpos /\ wpos' = wpos /\ seq' = seq
        /\ \A u \in Threads : u # t => pc'[u] = pc[u] /\ pos'[u] = pos[u]
    BY <1>0, <1>4 DEF ReadFn, Goto, cells, TypeOK
  <2>2. ~Writing(t) /\ Reading(t) /\ ~Writing(t)' /\ Reading(t)' BY <2>1 DEF Writing, Reading
  <2>3. WriterSaw(t)' /\ ReaderSaw(t)' BY <2>1 DEF WriterSaw, ReaderSaw
  <2> QED BY <1>0, <2>1, <2>2, <2>3, QuietStep
<1>5. CASE ReadClaim(t) BY <1>0, <1>5, InvReadClaim
<1>6. CASE ReadCommit(t) BY <1>0, <1>6, InvReadCommit
<1> QED BY <1>1, <1>2, <1>3, <1>4, <1>5, <1>6 DEF Read

\* The steps of write() preserve the invariant.
LEMMA InvWrite ==
    ASSUME TypeOK, TypeOK', Inv, NEW t \in Producers, Write(t)
    PROVE  Inv'
<1> USE CapacityFact
<1>0. t \in Threads /\ pos[t] \in Nat /\ rpos \in Nat /\ wpos \in Nat
  BY DEF Threads, TypeOK
<1>1. CASE (\E v \in Values : WriteBegin(t, v)) \/ WriteReload(t) \/ WriteClaimFails(t)
  <2>1. /\ pc[t] \in {"idle", "w_reload", "w_cas"} /\ pc'[t] = "w_seq" /\ pos'[t] = wpos
        /\ rpos' = rpos /\ wpos' = wpos /\ seq' = seq
        /\ \A u \in Threads : u # t => pc'[u] = pc[u] /\ pos'[u] = pos[u]
    BY <1>0, <1>1 DEF WriteBegin, WriteReload, WriteClaimFails, Goto, cells, TypeOK
  <2>2. ~Writing(t) /\ ~Reading(t) /\ ~Writing(t)' /\ ~Reading(t)' BY <2>1 DEF Writing, Reading
  <2>3. WriterSaw(t)' /\ ReaderSaw(t)' BY <1>0, <2>1 DEF WriterSaw, ReaderSaw
  <2> QED BY <1>0, <2>1, <2>2, <2>3, QuietStep
<1>2. CASE WriteReady(t)
  <2>1. /\ pc[t] = "w_seq" /\ pc'[t] = "w_cas" /\ pos' = pos /\ seq[Cell(pos[t])] = pos[t]
        /\ rpos' = rpos /\ wpos' = wpos /\ seq' = seq
        /\ \A u \in Threads : u # t => pc'[u] = pc[u] /\ pos'[u] = pos[u]
    <3>1. Cell(pos[t]) \in Cells /\ seq[Cell(pos[t])] \in Nat BY <1>0, CellType DEF TypeOK
    <3>2. seq[Cell(pos[t])] = pos[t] BY <1>0, <1>2, <3>1 DEF WriteReady
    <3> QED BY <1>0, <1>2, <3>2 DEF WriteReady, Goto, cells, TypeOK
  <2>2. ~Writing(t) /\ ~Reading(t) /\ ~Writing(t)' /\ ~Reading(t)' BY <2>1 DEF Writing, Reading
  <2>3. pos[t] <= wpos BY <2>1, <1>0 DEF Inv, WriterSaw
  <2>4. ASSUME pos[t] = wpos PROVE wpos < rpos + capacity_
    <3> SUFFICES ASSUME wpos = rpos + capacity_ PROVE FALSE BY <1>0 DEF Inv, Bounded
    <3>1. rpos \in rpos .. wpos - 1 BY <1>0
    <3>2. seq[Cell(rpos)] = rpos + 1 \/ seq[Cell(rpos)] = rpos
      BY <3>1 DEF Inv, ClaimedCells
    <3>3. Cell(wpos) = Cell(rpos) BY <1>0, CellLap
    <3> QED BY <1>0, <2>1, <2>4, <3>2, <3>3
  <2>5. WriterSaw(t)'
    BY <1>0, <2>1, <2>3, <2>4 DEF WriterSaw, Cell
  <2>6. ReaderSaw(t)' BY <2>1 DEF ReaderSaw
  <2> QED BY <1>0, <2>1, <2>2, <2>5, <2>6, QuietStep
<1>3. CASE WriteFalse(t) \/ WriteStale(t)
  <2>1. /\ pc[t] = "w_seq" /\ pc'[t] \in {"idle", "w_reload"}
        /\ rpos' = rpos /\ wpos' = wpos /\ seq' = seq
        /\ \A u \in Threads : u # t => pc'[u] = pc[u] /\ pos'[u] = pos[u]
    BY <1>0, <1>3 DEF WriteFalse, WriteStale, Return, Goto, cells, TypeOK
  <2>2. ~Writing(t) /\ ~Reading(t) /\ ~Writing(t)' /\ ~Reading(t)' BY <2>1 DEF Writing, Reading
  <2>3. WriterSaw(t)' /\ ReaderSaw(t)' BY <2>1 DEF WriterSaw, ReaderSaw
  <2> QED BY <1>0, <2>1, <2>2, <2>3, QuietStep
<1>4. CASE WriteFn(t)
  <2>1. /\ pc[t] = "w_fn" /\ pc'[t] = "w_commit" /\ pos' = pos
        /\ rpos' = rpos /\ wpos' = wpos /\ seq' = seq
        /\ \A u \in Threads : u # t => pc'[u] = pc[u] /\ pos'[u] = pos[u]
    BY <1>0, <1>4 DEF WriteFn, Goto, cells, TypeOK
  <2>2. Writing(t) /\ ~Reading(t) /\ Writing(t)' /\ ~Reading(t)' BY <2>1 DEF Writing, Reading
  <2>3. WriterSaw(t)' /\ ReaderSaw(t)' BY <2>1 DEF WriterSaw, ReaderSaw
  <2> QED BY <1>0, <2>1, <2>2, <2>3, QuietStep
<1>5. CASE WriteClaim(t) BY <1>0, <1>5, InvWriteClaim
<1>6. CASE WriteCommit(t) BY <1>0, <1>6, InvWriteCommit
<1> QED BY <1>1, <1>2, <1>3, <1>4, <1>5, <1>6 DEF Write

\* The steps of size() preserve the invariant.
LEMMA InvSize ==
    ASSUME TypeOK, TypeOK', Inv, NEW t \in Observers, Size(t)
    PROVE  Inv'
<1>0. t \in Threads /\ rpos \in Nat BY DEF Threads, TypeOK
<1>1. /\ \/ pc[t] = "idle" /\ pc'[t] = "s_wpos" /\ pos'[t] = rpos
         \/ pc[t] = "s_wpos" /\ pc'[t] = "idle"
      /\ rpos' = rpos /\ wpos' = wpos /\ seq' = seq
      /\ \A u \in Threads : u # t => pc'[u] = pc[u] /\ pos'[u] = pos[u]
  BY <1>0 DEF Size, SizeBegin, SizeEnd, Goto, Return, cells, TypeOK
<1>2. ~Writing(t) /\ ~Reading(t) /\ ~Writing(t)' /\ ~Reading(t)' BY <1>1 DEF Writing, Reading
<1>3. WriterSaw(t)' /\ ReaderSaw(t)' BY <1>0, <1>1 DEF WriterSaw, ReaderSaw
<1> QED BY <1>0, <1>1, <1>2, <1>3, QuietStep

\* Every step preserves the invariant.
LEMMA InvNext == TypeOK /\ TypeOK' /\ Inv /\ [Next]_vars => Inv'
<1> SUFFICES ASSUME TypeOK, TypeOK', Inv, [Next]_vars PROVE Inv' OBVIOUS
<1>1. CASE \E t \in Consumers : Read(t) BY <1>1, InvRead
<1>2. CASE \E t \in Producers : Write(t) BY <1>2, InvWrite
<1>3. CASE \E t \in Observers : Size(t) BY <1>3, InvSize
<1>4. CASE UNCHANGED vars
  BY <1>4 DEF vars, Inv, Bounded, ClaimedCells, FreeCells, WriterHolds, ReaderHolds,
              WriterSaw, ReaderSaw, Writing, Reading, Cell
<1> QED BY <1>1, <1>2, <1>3, <1>4 DEF Next

\* If the constructor initialises every cell, each cell is at all times free, being
\* written, published or being read by the thread that claimed its position.
THEOREM Invariance == Initialised = capacity_ => (Spec => []Inv)
<1> SUFFICES ASSUME Initialised = capacity_ PROVE Spec => []Inv OBVIOUS
<1>1. Init => Inv BY InvInit
<1> QED BY <1>1, InvNext, TypeCorrect, PTL DEF Spec

-----------------------------------------------------------------------------
(* What follows from the invariant *)

\* Under the invariant two threads that hold positions hold different cells.
LEMMA InvNoDataRace == TypeOK /\ Inv => NoDataRace
<1> SUFFICES ASSUME TypeOK, Inv, NEW t \in Threads, NEW u \in Threads, t # u,
                    Writing(t) \/ Reading(t), Writing(u) \/ Reading(u)
             PROVE  Cell(pos[t]) # Cell(pos[u])
  BY DEF NoDataRace
<1> USE CapacityFact
<1>0. pos[t] \in Nat /\ pos[u] \in Nat /\ rpos \in Nat /\ wpos \in Nat BY DEF TypeOK
<1>1. rpos <= wpos /\ wpos <= rpos + capacity_ BY DEF Inv, Bounded
<1>2. \A v \in {t, u} : Writing(v) => rpos <= pos[v] /\ pos[v] < wpos
  BY DEF Inv, WriterHolds
<1>3. \A v \in {t, u} : Reading(v) => pos[v] < rpos /\ wpos <= pos[v] + capacity_
  BY DEF Inv, ReaderHolds
<1>4. pos[t] # pos[u]
  <2>1. CASE Writing(t) /\ Writing(u) BY <2>1 DEF Inv, WriterHolds
  <2>2. CASE Reading(t) /\ Reading(u) BY <2>2 DEF Inv, ReaderHolds
  <2>3. CASE Writing(t) /\ Reading(u) BY <2>3, <1>0, <1>2, <1>3
  <2>4. CASE Reading(t) /\ Writing(u) BY <2>4, <1>0, <1>2, <1>3
  <2> QED BY <2>1, <2>2, <2>3, <2>4
<1>5. pos[t] < pos[u] + capacity_ /\ pos[u] < pos[t] + capacity_
  BY <1>0, <1>1, <1>2, <1>3
<1>6. CASE pos[t] < pos[u] BY <1>0, <1>5, <1>6, CellDistinct
<1>7. CASE pos[u] < pos[t] BY <1>0, <1>5, <1>7, CellDistinct
<1> QED BY <1>0, <1>4, <1>6, <1>7

\* No two threads are ever inside the callbacks of read() and write() on one cell.
THEOREM DataRaceFreedom == Initialised = capacity_ => (Spec => []NoDataRace)
<1> SUFFICES ASSUME Initialised = capacity_ PROVE Spec => []NoDataRace OBVIOUS
<1>1. Spec => []Inv BY Invariance
<1> QED BY <1>1, InvNoDataRace, TypeCorrect, PTL

\* The number of claimed and unread positions is between zero and the capacity.
THEOREM Boundedness == Initialised = capacity_ => (Spec => []Bounded)
<1> SUFFICES ASSUME Initialised = capacity_ PROVE Spec => []Bounded OBVIOUS
<1>1. Spec => []Inv BY Invariance
<1>2. Inv => Bounded BY DEF Inv
<1> QED BY <1>1, <1>2, PTL

\* The position among the next capacity_ ones that uses the cell of an older position.
LEMMA CellSuccessor ==
    ASSUME NEW p \in Nat, NEW r \in Nat, p < r
    PROVE  \E q \in r .. r + capacity_ - 1 : Cell(q) = Cell(p) /\ q >= p + capacity_
<1> DEFINE n == capacity_
           d == r - p + n - 1
           k == d \div n
           c == d % n
           q == p + n * k
<1>1. n \in Nat /\ n >= 2 BY CapacityFact
<1> HIDE DEF n
<1>2. d \in Int /\ d >= n BY <1>1
<1>3. d = n * k + c /\ k \in Int /\ c \in 0 .. n - 1
  <2> HIDE DEF d
  <2> QED BY <1>1, <1>2, DivMod
<1> HIDE DEF k, c
<1>4. k >= 1
  <2> SUFFICES ASSUME k <= 0 PROVE FALSE BY <1>3
  <2>1. n * k <= 0 BY <1>1, <1>3
  <2> QED BY <2>1, <1>1, <1>2, <1>3
<1>5. n * k >= n /\ n * k \in Int BY <1>1, <1>3, <1>4
<1>6. q \in r .. r + n - 1 /\ q >= p + n /\ q \in Nat BY <1>1, <1>3, <1>5
<1>7. q % n = p % n
  <2> DEFINE a == (p \div n) + k
             b == q \div n
             e == p % n
             f == q % n
  <2>1. p = n * (p \div n) + e /\ p \div n \in Int /\ e \in 0 .. n - 1 BY <1>1, DivMod
  <2>2. q = n * b + f /\ b \in Int /\ f \in 0 .. n - 1
    <3> HIDE DEF q
    <3> QED BY <1>1, <1>6, DivMod
  <2>3. n * a = n * (p \div n) + n * k BY <1>1, <1>3, <2>1
  <2>4. n * a + e = n * b + f /\ a \in Int BY <1>1, <1>3, <1>5, <2>1, <2>2, <2>3
  <2>5. b \in Int /\ e \in 0 .. n - 1 /\ f \in 0 .. n - 1 BY <2>1, <2>2
  <2> HIDE DEF a, b, e, f, q
  <2>6. e = f BY <1>1, <2>4, <2>5, DivUnique
  <2> QED BY <2>6 DEF e, f
<1> HIDE DEF q
<1> QED BY <1>6, <1>7 DEF Cell, n

\* The sequence number of a position that has been read is beyond that position.
LEMMA StaleCell ==
    ASSUME TypeOK, Inv, NEW p \in Nat, p < rpos
    PROVE  seq[Cell(p)] >= p + 1
<1> USE CapacityFact
<1>0. rpos \in Nat /\ wpos \in Nat /\ Bounded BY DEF TypeOK, Inv
<1>1. PICK q \in rpos .. rpos + capacity_ - 1 : Cell(q) = Cell(p) /\ q >= p + capacity_
  BY <1>0, CellSuccessor
<1>2. CASE q < wpos BY <1>0, <1>1, <1>2 DEF Inv, ClaimedCells
<1>3. CASE q >= wpos BY <1>0, <1>1, <1>3 DEF Inv, FreeCells
<1> QED BY <1>0, <1>1, <1>2, <1>3

\* Under the invariant a write() that returns false has found a cell not given back.
LEMMA WriteFalseFull ==
    ASSUME TypeOK, Inv, NEW t \in Producers, WriteFalse(t)
    PROVE  pos[t] >= capacity_ /\ ~Released(pos[t] - capacity_)
<1> USE CapacityFact
<1> DEFINE p == pos[t]
<1>0. t \in Threads /\ p \in Nat /\ rpos \in Nat /\ wpos \in Nat BY DEF TypeOK, Threads
<1>1. pc[t] = "w_seq" BY DEF WriteFalse, Return, Goto
<1>2. p <= wpos BY <1>0, <1>1 DEF Inv, WriterSaw
<1>3. seq[Cell(p)] \in Nat BY <1>0, CellType DEF TypeOK
<1>4. seq[Cell(p)] < p BY <1>0, <1>3 DEF WriteFalse
<1> HIDE DEF p
<1>5. p >= rpos BY <1>0, <1>3, <1>4, StaleCell
<1>6. p = wpos
  <2> SUFFICES ASSUME p < wpos PROVE FALSE BY <1>0, <1>2
  <2>1. p \in rpos .. wpos - 1 BY <1>0, <1>5
  <2> QED BY <1>0, <1>4, <2>1 DEF Inv, ClaimedCells
<1>7. CASE wpos = rpos + capacity_ BY <1>0, <1>6, <1>7 DEF Released, p
<1>8. CASE wpos < rpos + capacity_
  <2>1. p \in wpos .. rpos + capacity_ - 1 BY <1>0, <1>6, <1>8
  <2>2. /\ seq[Cell(p)] = p - capacity_ + 1
        /\ \E u \in Threads : Reading(u) /\ pos[u] = p - capacity_
    BY <1>0, <1>4, <2>1 DEF Inv, FreeCells
  <2>3. PICK u \in Threads : Reading(u) /\ pos[u] = p - capacity_ BY <2>2
  <2>4. p - capacity_ \in Nat BY <2>3 DEF TypeOK
  <2> QED BY <1>0, <2>3, <2>4 DEF Released, p
<1> QED BY <1>0, <1>7, <1>8 DEF Inv, Bounded

\* write() fails only when the queue has no free place for it.
THEOREM WriteFailsOnlyWhenFull == Initialised = capacity_ => (Spec => FalseMeansFull)
<1> SUFFICES ASSUME Initialised = capacity_ PROVE Spec => FalseMeansFull OBVIOUS
<1> DEFINE A == \A t \in Producers :
                    WriteFalse(t) => pos[t] >= capacity_ /\ ~Released(pos[t] - capacity_)
<1>1. Spec => []Inv BY Invariance
<1>2. TypeOK /\ Inv /\ [Next]_vars => [A]_vars BY WriteFalseFull
<1> HIDE DEF A
<1>3. Spec => [][A]_vars BY <1>1, <1>2, TypeCorrect, PTL DEF Spec
<1> QED BY <1>3 DEF A, FalseMeansFull

\* Under the invariant a read() that returns false has found no published value.
LEMMA ReadFalseUnpublished ==
    ASSUME TypeOK, Inv, NEW t \in Consumers, ReadFalse(t)
    PROVE  ~Published(pos[t])
<1> USE CapacityFact
<1> DEFINE p == pos[t]
<1>0. t \in Threads /\ p \in Nat /\ rpos \in Nat /\ wpos \in Nat BY DEF TypeOK, Threads
<1>1. pc[t] = "r_seq" BY DEF ReadFalse, Return, Goto
<1>2. seq[Cell(p)] \in Nat BY <1>0, CellType DEF TypeOK
<1>3. seq[Cell(p)] < p + 1 BY <1>0, <1>2 DEF ReadFalse
<1>4. p >= rpos
  <2> HIDE DEF p
  <2> QED BY <1>0, <1>2, <1>3, StaleCell
<1> SUFFICES ASSUME p < wpos PROVE \E u \in Threads : Writing(u) /\ pos[u] = p
  BY DEF Published
<1>5. p \in rpos .. wpos - 1 BY <1>0, <1>4
<1> HIDE DEF p
<1> QED BY <1>0, <1>3, <1>5 DEF Inv, ClaimedCells

\* read() fails only when the position it asks for holds no value yet.
THEOREM ReadFailsOnlyWhenUnpublished == Initialised = capacity_ => (Spec => FalseMeansUnpublished)
<1> SUFFICES ASSUME Initialised = capacity_ PROVE Spec => FalseMeansUnpublished OBVIOUS
<1> DEFINE A == \A t \in Consumers : ReadFalse(t) => ~Published(pos[t])
<1>1. Spec => []Inv BY Invariance
<1>2. TypeOK /\ Inv /\ [Next]_vars => [A]_vars BY ReadFalseUnpublished
<1> HIDE DEF A
<1>3. Spec => [][A]_vars BY <1>1, <1>2, TypeCorrect, PTL DEF Spec
<1> QED BY <1>3 DEF A, FalseMeansUnpublished

-----------------------------------------------------------------------------
(* size() *)

\* size() subtracts a position of the readers from a later position of the writers, which
\* the readers had not overtaken.
THEOREM SizeIsNatural == Initialised = capacity_ => (Spec => []SizeNotNegative)
<1> SUFFICES ASSUME Initialised = capacity_ PROVE Spec => []SizeNotNegative OBVIOUS
<1>1. Init => SizeNotNegative BY DEF Init, SizeNotNegative, Threads
<1>2. TypeOK /\ Inv /\ SizeNotNegative /\ [Next]_vars => SizeNotNegative'
  <2> SUFFICES ASSUME TypeOK, Inv, SizeNotNegative, [Next]_vars PROVE SizeNotNegative' OBVIOUS
  <2>1. CASE \E t \in Observers : SizeEnd(t)
    <3>1. PICK t \in Observers : SizeEnd(t) BY <2>1
    <3>2. t \in Threads /\ pos[t] \in Nat /\ wpos \in Nat /\ rpos \in Nat /\ len \in [Threads -> Int]
      BY DEF Threads, TypeOK
    <3>3. pc[t] = "s_wpos" /\ len' = [len EXCEPT ![t] = wpos - pos[t]]
      BY <3>1 DEF SizeEnd, Return, Goto
    <3>4. pos[t] <= rpos /\ rpos <= wpos BY <3>2, <3>3 DEF Inv, ReaderSaw, Bounded
    <3>5. wpos - pos[t] >= 0 BY <3>2, <3>4
    <3> QED BY <3>2, <3>3, <3>5 DEF SizeNotNegative, Threads
  <2>2. CASE len' = len BY <2>2 DEF SizeNotNegative
  <2>3. (\E t \in Observers : SizeEnd(t)) \/ len' = len
    BY DEF Next, vars, Read, ReadBegin, ReadReady, ReadFalse, ReadStale, ReadReload, ReadClaim,
           ReadClaimFails, ReadFn, ReadCommit, Write, WriteBegin, WriteReady, WriteFalse,
           WriteStale, WriteReload, WriteClaim, WriteClaimFails, WriteFn, WriteCommit, Size,
           SizeBegin
  <2> QED BY <2>1, <2>2, <2>3
<1>3. Spec => []Inv BY Invariance
<1> QED BY <1>1, <1>2, <1>3, TypeCorrect, PTL DEF Spec

-----------------------------------------------------------------------------
(* The values of the claimed positions *)

\* No value is held initially.
LEMMA ValuesInit == Init => ValuesHeld
BY DEF Init, ValuesHeld

\* A step of t that leaves positions, sequence numbers and values alone preserves
\* ValuesHeld if it does so for t.
LEMMA ValuesQuiet ==
    ASSUME ValuesHeld, NEW t \in Threads,
           rpos' = rpos, wpos' = wpos, seq' = seq, val' = val,
           \A u \in Threads : u # t => pc'[u] = pc[u] /\ pos'[u] = pos[u] /\ arg'[u] = arg[u],
           pc'[t] \in {"w_seq", "w_reload", "w_cas", "w_fn", "w_commit"} => arg'[t] \in Values,
           pc'[t] \notin {"w_commit", "r_fn"}
    PROVE  ValuesHeld'
BY DEF ValuesHeld, Cell

\* The steps of read() preserve what is known of the values.
LEMMA ValuesRead ==
    ASSUME TypeOK, Inv, ValuesHeld, NEW t \in Consumers, Read(t)
    PROVE  ValuesHeld'
<1> USE CapacityFact
<1>0. /\ t \in Threads /\ pos[t] \in Nat /\ rpos \in Nat /\ wpos \in Nat
      /\ \A u \in Threads : pos[u] \in Nat
  BY DEF Threads, TypeOK
<1>1. CASE ReadBegin(t) \/ ReadReady(t) \/ ReadFalse(t) \/ ReadStale(t) \/ ReadReload(t)
           \/ ReadClaimFails(t) \/ ReadFn(t)
  <2>1. /\ rpos' = rpos /\ wpos' = wpos /\ seq' = seq /\ val' = val
        /\ \A u \in Threads : u # t => pc'[u] = pc[u] /\ pos'[u] = pos[u] /\ arg'[u] = arg[u]
        /\ pc'[t] \in {"idle", "r_seq", "r_reload", "r_cas", "r_commit"}
    BY <1>0, <1>1 DEF ReadBegin, ReadReady, ReadFalse, ReadStale, ReadReload, ReadClaimFails,
                      ReadFn, Return, Goto, cells, TypeOK
  <2> QED BY <1>0, <2>1, ValuesQuiet
<1>2. CASE ReadClaim(t)
  <2>1. /\ pos[t] = rpos /\ rpos' = rpos + 1 /\ wpos' = wpos /\ seq' = seq /\ val' = val
        /\ pos' = pos /\ arg' = arg /\ pc[t] = "r_cas" /\ pc'[t] = "r_fn"
        /\ \A u \in Threads : u # t => pc'[u] = pc[u]
    BY <1>0, <1>2 DEF ReadClaim, Goto, cells, TypeOK
  <2>2. rpos < wpos /\ seq[Cell(rpos)] = rpos + 1 BY <1>0, <2>1 DEF Inv, ReaderSaw
  <2>3. val[Cell(pos[t])] \in Values BY <1>0, <2>1, <2>2 DEF ValuesHeld
  <2> QED BY <1>0, <2>1, <2>3 DEF ValuesHeld, Cell
<1>3. CASE ReadCommit(t)
  <2> DEFINE p == pos[t]
  <2>1. /\ rpos' = rpos /\ wpos' = wpos /\ val' = val /\ seq \in [Cells -> Nat]
        /\ seq' = [seq EXCEPT ![Cell(p)] = p + capacity_]
        /\ pc[t] = "r_commit" /\ pc'[t] = "idle"
        /\ \A u \in Threads : u # t => pc'[u] = pc[u] /\ pos'[u] = pos[u] /\ arg'[u] = arg[u]
    BY <1>0, <1>3 DEF ReadCommit, Return, Goto, TypeOK
  <2>2. p < rpos /\ wpos <= p + capacity_ BY <1>0, <2>1 DEF Inv, ReaderHolds, Reading
  <2>3. p \in Nat BY <1>0
  <2> HIDE DEF p
  <2>4. ASSUME NEW q \in rpos .. wpos - 1 PROVE seq'[Cell(q)] = seq[Cell(q)]
    <3>1. q \in Nat /\ Cell(p) # Cell(q) BY <1>0, <2>2, <2>3, CellDistinct
    <3> QED BY <2>1, <3>1, CellType
  <2> QED BY <1>0, <2>1, <2>4 DEF ValuesHeld, Cell
<1> QED BY <1>1, <1>2, <1>3 DEF Read

\* The steps of write() preserve what is known of the values.
LEMMA ValuesWrite ==
    ASSUME TypeOK, Inv, ValuesHeld, NEW t \in Producers, Write(t)
    PROVE  ValuesHeld'
<1> USE CapacityFact
<1>0. /\ t \in Threads /\ pos[t] \in Nat /\ rpos \in Nat /\ wpos \in Nat
      /\ \A u \in Threads : pos[u] \in Nat
  BY DEF Threads, TypeOK
<1>1. CASE \E v \in Values : WriteBegin(t, v)
  <2>1. /\ rpos' = rpos /\ wpos' = wpos /\ seq' = seq /\ val' = val
        /\ \A u \in Threads : u # t => pc'[u] = pc[u] /\ pos'[u] = pos[u] /\ arg'[u] = arg[u]
        /\ pc'[t] = "w_seq" /\ arg'[t] \in Values
    BY <1>0, <1>1 DEF WriteBegin, Goto, cells, TypeOK
  <2> QED BY <1>0, <2>1, ValuesQuiet
<1>2. CASE WriteReady(t) \/ WriteFalse(t) \/ WriteStale(t) \/ WriteReload(t) \/ WriteClaimFails(t)
  <2>1. /\ rpos' = rpos /\ wpos' = wpos /\ seq' = seq /\ val' = val
        /\ \A u \in Threads : u # t => pc'[u] = pc[u] /\ pos'[u] = pos[u] /\ arg'[u] = arg[u]
        /\ pc[t] \in {"w_seq", "w_reload", "w_cas"}
        /\ pc'[t] = "idle" \/ (pc'[t] \in {"w_seq", "w_reload", "w_cas"} /\ arg'[t] = arg[t])
    BY <1>0, <1>2 DEF WriteReady, WriteFalse, WriteStale, WriteReload, WriteClaimFails,
                      Return, Goto, cells, TypeOK
  <2>2. arg[t] \in Values BY <1>0, <2>1 DEF ValuesHeld
  <2> QED BY <1>0, <2>1, <2>2, ValuesQuiet
<1>3. CASE WriteClaim(t)
  <2>1. /\ pos[t] = wpos /\ wpos' = wpos + 1 /\ rpos' = rpos /\ seq' = seq /\ val' = val
        /\ pos' = pos /\ arg' = arg /\ pc[t] = "w_cas" /\ pc'[t] = "w_fn"
        /\ \A u \in Threads : u # t => pc'[u] = pc[u]
    BY <1>0, <1>3 DEF WriteClaim, Goto, cells, TypeOK
  <2>2. seq[Cell(wpos)] = wpos BY <1>0, <2>1 DEF Inv, WriterSaw
  <2>3. \A p \in rpos .. wpos : seq[Cell(p)] = p + 1 => val[Cell(p)] \in Values
    BY <1>0, <2>2 DEF ValuesHeld
  <2> QED BY <1>0, <2>1, <2>3 DEF ValuesHeld, Cell
<1>4. CASE WriteFn(t)
  <2> DEFINE p == pos[t]
  <2>1. /\ rpos' = rpos /\ wpos' = wpos /\ seq' = seq /\ val \in [Cells -> Values \cup {Nothing}]
        /\ val' = [val EXCEPT ![Cell(p)] = arg[t]]
        /\ pos' = pos /\ arg' = arg /\ pc[t] = "w_fn" /\ pc'[t] = "w_commit"
        /\ \A u \in Threads : u # t => pc'[u] = pc[u]
    BY <1>0, <1>4 DEF WriteFn, Goto, TypeOK
  <2>2. /\ seq[Cell(p)] = p /\ NoDataRace
    BY <1>0, <2>1, InvNoDataRace DEF Inv, WriterHolds, Writing
  <2>3. p \in Nat /\ arg[t] \in Values BY <1>0, <2>1 DEF ValuesHeld
  <2>4. val'[Cell(p)] = arg[t] BY <2>1, <2>3, CellType
  <2>5. ASSUME NEW c \in Cells, c # Cell(p) PROVE val'[c] = val[c] BY <2>1, <2>5
  <2>6. \A u \in Threads : u # t /\ (Writing(u) \/ Reading(u)) => val'[Cell(pos[u])] = val[Cell(pos[u])]
    BY <1>0, <2>1, <2>2, <2>5, CellType DEF NoDataRace, Writing, p
  <2>7. \A q \in rpos .. wpos - 1 : seq[Cell(q)] = q + 1 => val'[Cell(q)] \in Values
    <3> SUFFICES ASSUME NEW q \in rpos .. wpos - 1, seq[Cell(q)] = q + 1
                 PROVE  val'[Cell(q)] \in Values
      OBVIOUS
    <3>1. q \in Nat /\ Cell(q) \in Cells BY <1>0, CellType
    <3>2. CASE Cell(q) = Cell(p) BY <2>3, <2>4, <3>2
    <3>3. CASE Cell(q) # Cell(p) BY <2>5, <3>1, <3>3 DEF ValuesHeld
    <3> QED BY <3>2, <3>3
  <2>8. ASSUME NEW u \in Threads
        PROVE  /\ pc'[u] \in {"w_seq", "w_reload", "w_cas", "w_fn", "w_commit"} => arg'[u] \in Values
               /\ pc'[u] = "w_commit" => val'[Cell(pos[u])] = arg[u]
               /\ pc'[u] = "r_fn" => val'[Cell(pos[u])] \in Values
    <3>1. CASE u = t BY <3>1, <2>1, <2>3, <2>4
    <3>2. CASE u # t BY <3>2, <2>1, <2>6 DEF ValuesHeld, Writing, Reading
    <3> QED BY <3>1, <3>2
  <2> HIDE DEF p
  <2> QED BY <2>1, <2>7, <2>8 DEF ValuesHeld, Cell
<1>5. CASE WriteCommit(t)
  <2> DEFINE p == pos[t]
  <2>1. /\ rpos' = rpos /\ wpos' = wpos /\ val' = val /\ seq \in [Cells -> Nat]
        /\ seq' = [seq EXCEPT ![Cell(p)] = p + 1]
        /\ pc[t] = "w_commit" /\ pc'[t] = "idle"
        /\ \A u \in Threads : u # t => pc'[u] = pc[u] /\ pos'[u] = pos[u] /\ arg'[u] = arg[u]
    BY <1>0, <1>5 DEF WriteCommit, Return, Goto, TypeOK
  <2>2. val[Cell(p)] \in Values BY <1>0, <2>1 DEF ValuesHeld
  <2>3. p \in Nat BY <1>0
  <2> HIDE DEF p
  <2>4. \A q \in rpos .. wpos - 1 : seq'[Cell(q)] = q + 1 => val[Cell(q)] \in Values
    <3> SUFFICES ASSUME NEW q \in rpos .. wpos - 1, seq'[Cell(q)] = q + 1
                 PROVE  val[Cell(q)] \in Values
      OBVIOUS
    <3>1. q \in Nat /\ Cell(q) \in Cells BY <1>0, CellType
    <3>2. CASE Cell(q) = Cell(p) BY <2>2, <3>2
    <3>3. CASE Cell(q) # Cell(p) BY <2>1, <3>1, <3>3 DEF ValuesHeld
    <3> QED BY <3>2, <3>3
  <2> QED BY <2>1, <2>4 DEF ValuesHeld, Cell
<1> QED BY <1>1, <1>2, <1>3, <1>4, <1>5 DEF Write

\* If the constructor initialises every cell, every published position holds a value that
\* was pushed.
LEMMA ValuesInvariant == Initialised = capacity_ => (Spec => []ValuesHeld)
<1> SUFFICES ASSUME Initialised = capacity_ PROVE Spec => []ValuesHeld OBVIOUS
<1>1. TypeOK /\ Inv /\ ValuesHeld /\ [Next]_vars => ValuesHeld'
  <2> SUFFICES ASSUME TypeOK, Inv, ValuesHeld, [Next]_vars PROVE ValuesHeld' OBVIOUS
  <2>1. CASE \E t \in Consumers : Read(t) BY <2>1, ValuesRead
  <2>2. CASE \E t \in Producers : Write(t) BY <2>2, ValuesWrite
  <2>3. CASE \E t \in Observers : Size(t)
    <3>1. PICK t \in Observers : Size(t) BY <2>3
    <3>2. /\ t \in Threads
          /\ rpos' = rpos /\ wpos' = wpos /\ seq' = seq /\ val' = val
          /\ \A u \in Threads : u # t => pc'[u] = pc[u] /\ pos'[u] = pos[u] /\ arg'[u] = arg[u]
          /\ pc'[t] \in {"idle", "s_wpos"}
      BY <3>1 DEF Size, SizeBegin, SizeEnd, Goto, Return, cells, TypeOK, Threads
    <3> QED BY <3>2, ValuesQuiet
  <2>4. CASE UNCHANGED vars BY <2>4 DEF vars, ValuesHeld, Cell
  <2> QED BY <2>1, <2>2, <2>3, <2>4 DEF Next
<1>2. Spec => []Inv BY Invariance
<1> QED BY <1>1, <1>2, ValuesInit, TypeCorrect, PTL DEF Spec

-----------------------------------------------------------------------------
(* Refinement: every step is a step of TicketFifo or changes nothing it shows *)

\* The owner of a claimed position is the one thread that writes it.
LEMMA OwnerIsWriter ==
    ASSUME Inv, NEW t \in Threads, Writing(t)
    PROVE  Owner(pos[t]) = t
<1>1. \A u \in Threads : Writing(u) /\ pos[u] = pos[t] => u = t BY DEF Inv, WriterHolds
<1> QED BY <1>1 DEF Owner

\* The same of the state after a step.
LEMMA OwnerIsWriterNext ==
    ASSUME Inv', NEW p, NEW t \in Threads, Writing(t)', pos'[t] = p
    PROVE  Owner(p)' = t
<1>1. \A u \in Threads : Writing(u)' /\ pos'[u] = p => u = t BY DEF Inv, WriterHolds
<1> QED BY <1>1 DEF Owner

\* A step that changes neither the cell of a claimed position nor the hold of its writer
\* leaves its place in the abstract queue as it was.
LEMMA SamePlace ==
    ASSUME Inv, Inv', NEW p \in Nat, rpos <= p, p < wpos, rpos \in Nat, wpos \in Nat,
           seq'[Cell(p)] = seq[Cell(p)],
           seq[Cell(p)] = p + 1 => val'[Cell(p)] = val[Cell(p)],
           \A t \in Threads :
               Writing(t) /\ pos[t] = p => Writing(t)' /\ pos'[t] = p /\ arg'[t] = arg[t]
    PROVE  Place(p)' = Place(p)
<1>1. CASE seq[Cell(p)] = p + 1 BY <1>1 DEF Place, Cell
<1>2. CASE seq[Cell(p)] # p + 1
  <2>1. p \in rpos .. wpos - 1 OBVIOUS
  <2>2. PICK t \in Threads : Writing(t) /\ pos[t] = p BY <1>2, <2>1 DEF Inv, ClaimedCells
  <2>3. Owner(p) = t BY <2>2, OwnerIsWriter
  <2>4. Owner(p)' = t BY <2>2, OwnerIsWriterNext
  <2> QED BY <1>2, <2>2, <2>3, <2>4 DEF Place, Cell
<1> QED BY <1>1, <1>2

\* A step that changes no place and no position leaves the abstract queue as it was.
LEMMA SameItems ==
    ASSUME rpos' = rpos, wpos' = wpos, rpos \in Nat, wpos \in Nat,
           \A p \in rpos .. wpos - 1 : Place(p)' = Place(p)
    PROVE  absItems' = absItems
<1>1. ASSUME NEW i \in 1 .. wpos - rpos PROVE Place(rpos + i - 1)' = Place(rpos + i - 1)
  <2>1. PICK p \in rpos .. wpos - 1 : p = rpos + i - 1 OBVIOUS
  <2>2. Place(p)' = Place(p) BY <2>1
  <2> QED BY <2>1, <2>2 DEF Place, Owner, Cell
<1> QED BY <1>1 DEF absItems

\* A step that is quiet for the abstract queue: it moves no position, and t neither
\* starts nor ends a write, nor takes or delivers a value.
LEMMA FifoQuiet ==
    ASSUME TypeOK, Inv, Inv', NEW t \in Threads,
           rpos' = rpos, wpos' = wpos, seq' = seq, val' = val,
           \A u \in Threads : u # t => pc'[u] = pc[u] /\ pos'[u] = pos[u] /\ arg'[u] = arg[u],
           ~Writing(t), pc[t] # "r_fn", pc'[t] # "r_fn"
    PROVE  absItems' = absItems /\ absHeld' = absHeld
<1>0. rpos \in Nat /\ wpos \in Nat BY DEF TypeOK
<1>1. ASSUME NEW p \in rpos .. wpos - 1 PROVE Place(p)' = Place(p)
  <2>1. p \in Nat /\ rpos <= p /\ p < wpos BY <1>0
  <2>2. \A u \in Threads :
            Writing(u) /\ pos[u] = p => Writing(u)' /\ pos'[u] = p /\ arg'[u] = arg[u]
    BY DEF Writing
  <2> QED BY <1>0, <2>1, <2>2, SamePlace
<1>2. absItems' = absItems BY <1>0, <1>1, SameItems
<1>3. absHeld' = absHeld BY DEF absHeld, Cell
<1> QED BY <1>2, <1>3

\* The callback of write() fills a cell that the abstract queue does not look at yet.
LEMMA FifoWriteFn ==
    ASSUME TypeOK, Inv, Inv', NEW t \in Threads, WriteFn(t)
    PROVE  UNCHANGED <<absItems, absHeld, out>>
<1>0. rpos \in Nat /\ wpos \in Nat /\ \A u \in Threads : pos[u] \in Nat BY DEF TypeOK
<1>1. /\ rpos' = rpos /\ wpos' = wpos /\ seq' = seq /\ val \in [Cells -> Values \cup {Nothing}]
      /\ val' = [val EXCEPT ![Cell(pos[t])] = arg[t]]
      /\ pos' = pos /\ arg' = arg /\ out' = out /\ pc[t] = "w_fn" /\ pc'[t] = "w_commit"
      /\ \A u \in Threads : u # t => pc'[u] = pc[u]
  BY DEF WriteFn, Goto, TypeOK
<1>2. seq[Cell(pos[t])] = pos[t] /\ NoDataRace /\ rpos <= pos[t] /\ pos[t] < wpos
  BY <1>1, InvNoDataRace DEF Inv, WriterHolds, Writing
<1>3. ASSUME NEW c \in Cells, c # Cell(pos[t]) PROVE val'[c] = val[c] BY <1>1, <1>3
<1>4. ASSUME NEW p \in rpos .. wpos - 1 PROVE Place(p)' = Place(p)
  <2>1. p \in Nat /\ rpos <= p /\ p < wpos BY <1>0
  <2>2. \A u \in Threads :
            Writing(u) /\ pos[u] = p => Writing(u)' /\ pos'[u] = p /\ arg'[u] = arg[u]
    BY <1>1 DEF Writing
  <2>3. seq[Cell(p)] = p + 1 => val'[Cell(p)] = val[Cell(p)]
    <3> SUFFICES ASSUME seq[Cell(p)] = p + 1 PROVE Cell(p) # Cell(pos[t])
      BY <1>3, <2>1, CellType
    <3>1. p # pos[t] BY <1>0, <1>2, <2>1
    <3>2. p < pos[t] + capacity_ /\ pos[t] < p + capacity_
      BY <1>0, <1>2, <2>1, CapacityFact DEF Inv, Bounded
    <3>3. CASE p < pos[t] BY <1>0, <2>1, <3>2, <3>3, CellDistinct
    <3>4. CASE pos[t] < p BY <1>0, <2>1, <3>2, <3>4, CellDistinct
    <3> QED BY <1>0, <2>1, <3>1, <3>3, <3>4
  <2>4. seq'[Cell(p)] = seq[Cell(p)] BY <1>1
  <2> QED BY <1>0, <2>1, <2>2, <2>3, <2>4, SamePlace
<1>5. absItems' = absItems BY <1>0, <1>1, <1>4, SameItems
<1>6. absHeld' = absHeld
  <2> SUFFICES ASSUME NEW u \in Threads
               PROVE  (IF pc'[u] = "r_fn" THEN val'[Cell(pos[u])] ELSE Nothing)
                        = (IF pc[u] = "r_fn" THEN val[Cell(pos[u])] ELSE Nothing)
    BY <1>1 DEF absHeld, Cell
  <2>1. CASE u = t BY <1>1, <2>1
  <2>2. CASE u # t
    <3>1. Cell(pos[u]) \in Cells BY <1>0, CellType
    <3>2. pc[u] = "r_fn" => Cell(pos[u]) # Cell(pos[t])
      BY <1>1, <1>2, <2>2 DEF NoDataRace, Writing, Reading
    <3> QED BY <1>1, <1>3, <2>2, <3>1, <3>2
  <2> QED BY <2>1, <2>2
<1> QED BY <1>1, <1>5, <1>6

\* The commit of read() frees a cell that the abstract queue no longer looks at.
LEMMA FifoReadCommit ==
    ASSUME TypeOK, Inv, Inv', NEW t \in Threads, ReadCommit(t)
    PROVE  UNCHANGED <<absItems, absHeld, out>>
<1> USE CapacityFact
<1>0. rpos \in Nat /\ wpos \in Nat /\ pos[t] \in Nat BY DEF TypeOK
<1>1. /\ rpos' = rpos /\ wpos' = wpos /\ val' = val /\ seq \in [Cells -> Nat]
      /\ seq' = [seq EXCEPT ![Cell(pos[t])] = pos[t] + capacity_]
      /\ out' = out /\ pc[t] = "r_commit" /\ pc'[t] = "idle"
      /\ \A u \in Threads : u # t => pc'[u] = pc[u] /\ pos'[u] = pos[u] /\ arg'[u] = arg[u]
  BY DEF ReadCommit, Return, Goto, TypeOK
<1>2. pos[t] < rpos /\ wpos <= pos[t] + capacity_ BY <1>1 DEF Inv, ReaderHolds, Reading
<1>4. ASSUME NEW p \in rpos .. wpos - 1 PROVE Place(p)' = Place(p)
  <2>1. p \in Nat /\ rpos <= p /\ p < wpos BY <1>0
  <2>2. \A u \in Threads :
            Writing(u) /\ pos[u] = p => Writing(u)' /\ pos'[u] = p /\ arg'[u] = arg[u]
    BY <1>1 DEF Writing
  <2>3. seq'[Cell(p)] = seq[Cell(p)]
    <3>1. Cell(pos[t]) # Cell(p) BY <1>0, <1>2, <2>1, CellDistinct
    <3>2. Cell(p) \in Cells BY <2>1, CellType
    <3> QED BY <1>1, <3>1, <3>2
  <2> QED BY <1>0, <1>1, <2>1, <2>2, <2>3, SamePlace
<1>5. absItems' = absItems BY <1>0, <1>1, <1>4, SameItems
<1>6. absHeld' = absHeld BY <1>1 DEF absHeld, Cell
<1> QED BY <1>1, <1>5, <1>6

\* The callback of read() delivers the value that the reader took.
LEMMA FifoReadFn ==
    ASSUME TypeOK, Inv, Inv', ValuesHeld, NEW t \in Threads, ReadFn(t)
    PROVE  Fifo!Deliver(t)
<1>0. rpos \in Nat /\ wpos \in Nat BY DEF TypeOK
<1>1. /\ rpos' = rpos /\ wpos' = wpos /\ seq' = seq /\ val' = val /\ pos' = pos /\ arg' = arg
      /\ out' = [out EXCEPT ![t] = val[Cell(pos[t])]] /\ pc[t] = "r_fn" /\ pc'[t] = "r_commit"
      /\ \A u \in Threads : u # t => pc'[u] = pc[u]
  BY DEF ReadFn, Goto, cells, TypeOK
<1>2. ASSUME NEW p \in rpos .. wpos - 1 PROVE Place(p)' = Place(p)
  <2>1. p \in Nat /\ rpos <= p /\ p < wpos BY <1>0
  <2>2. \A u \in Threads :
            Writing(u) /\ pos[u] = p => Writing(u)' /\ pos'[u] = p /\ arg'[u] = arg[u]
    BY <1>1 DEF Writing
  <2> QED BY <1>0, <1>1, <2>1, <2>2, SamePlace
<1>3. absItems' = absItems BY <1>0, <1>1, <1>2, SameItems
<1>4. absHeld[t] = val[Cell(pos[t])] BY <1>1 DEF absHeld
<1>5. absHeld[t] # Nothing BY <1>1, <1>4, ConstantsAssumption DEF ValuesHeld
<1>6. absHeld' = [absHeld EXCEPT ![t] = Nothing] BY <1>1 DEF absHeld, Cell
<1> QED BY <1>1, <1>3, <1>4, <1>5, <1>6 DEF Fifo!Deliver

\* A sequence given as a function, and its length.
LEMMA FunctionIsSeq ==
    ASSUME NEW n \in Nat, NEW S, NEW s \in [1 .. n -> S]
    PROVE  s \in Seq(S) /\ Len(s) = n
<1>1. s \in Seq(S) BY SeqDef
<1>2. Len(s) \in Nat /\ DOMAIN s = 1 .. Len(s) BY <1>1, LenProperties
<1>3. 1 .. n = 1 .. Len(s) BY <1>2
<1> QED BY <1>1, <1>2, <1>3

\* One more element at the back.
LEMMA AppendOne ==
    ASSUME NEW n \in Nat, NEW S, NEW s \in [1 .. n -> S], NEW r \in [1 .. n + 1 -> S],
           \A i \in 1 .. n : r[i] = s[i]
    PROVE  r = Append(s, r[n + 1])
<1>1. s \in Seq(S) /\ Len(s) = n BY FunctionIsSeq
<1>2. r \in Seq(S) /\ Len(r) = n + 1 BY FunctionIsSeq
<1>3. r[n + 1] \in S OBVIOUS
<1>4. /\ Append(s, r[n + 1]) \in Seq(S) /\ Len(Append(s, r[n + 1])) = n + 1
      /\ \A i \in 1 .. n + 1 : Append(s, r[n + 1])[i] = r[i]
  BY <1>1, <1>3, AppendProperties
<1> QED BY <1>2, <1>4, SeqEqual

\* One element less at the front.
LEMMA TailOne ==
    ASSUME NEW n \in Nat, n > 0, NEW S, NEW s \in [1 .. n -> S], NEW r \in [1 .. n - 1 -> S],
           \A i \in 1 .. n - 1 : r[i] = s[i + 1]
    PROVE  s # << >> /\ Head(s) = s[1] /\ r = Tail(s)
<1>1. s \in Seq(S) /\ Len(s) = n BY FunctionIsSeq
<1>2. n - 1 \in Nat OBVIOUS
<1>3. r \in Seq(S) /\ Len(r) = n - 1 BY <1>2, FunctionIsSeq
<1>4. s # << >> BY <1>1, EmptySeq
<1>5. Head(s) = s[1] BY <1>1, <1>4
<1>6. Tail(s) \in Seq(S) /\ Len(Tail(s)) = n - 1 /\ \A i \in 1 .. n - 1 : Tail(s)[i] = s[i + 1]
  BY <1>1, <1>4, HeadTailProperties
<1> QED BY <1>3, <1>4, <1>5, <1>6, SeqEqual

\* The places of the abstract queue are numbered from the readers' position.
LEMMA ItemAt ==
    ASSUME rpos \in Nat, wpos \in Nat, NEW i \in 1 .. wpos - rpos, NEW p, p = rpos + i - 1
    PROVE  absItems[i] = Place(p) /\ p \in Nat /\ rpos <= p /\ p < wpos
BY DEF absItems

\* The same of the state after a step.
LEMMA ItemAtNext ==
    ASSUME rpos' \in Nat, wpos' \in Nat, NEW i \in 1 .. wpos' - rpos', NEW p, p = rpos' + i - 1
    PROVE  absItems'[i] = Place(p)'
BY DEF absItems, Place, Owner, Cell

\* A writer that claims a position reserves the place at the back.
LEMMA FifoWriteClaim ==
    ASSUME TypeOK, Inv, Inv', ValuesHeld, NEW t \in Threads, WriteClaim(t)
    PROVE  \E v \in Values : Fifo!Reserve(t, v)
<1> USE CapacityFact
<1> DEFINE n == wpos - rpos
<1>0. /\ rpos \in Nat /\ wpos \in Nat /\ n \in Nat
  BY DEF TypeOK, Inv, Bounded
<1>1. /\ pos[t] = wpos /\ wpos' = wpos + 1 /\ rpos' = rpos /\ seq' = seq /\ val' = val
      /\ pos' = pos /\ arg' = arg /\ out' = out /\ pc[t] = "w_cas" /\ pc'[t] = "w_fn"
      /\ \A u \in Threads : u # t => pc'[u] = pc[u]
  BY DEF WriteClaim, Goto, cells, TypeOK
<1>2. wpos < rpos + capacity_ /\ seq[Cell(wpos)] = wpos BY <1>0, <1>1 DEF Inv, WriterSaw
<1>3. arg[t] \in Values BY <1>1 DEF ValuesHeld
<1>4. ASSUME NEW i \in 1 .. n PROVE absItems'[i] = absItems[i]
  <2>1. PICK p \in Nat : p = rpos + i - 1 BY <1>0
  <2>2. absItems[i] = Place(p) /\ rpos <= p /\ p < wpos BY <1>0, <2>1, ItemAt
  <2>3. absItems'[i] = Place(p)' BY <1>0, <1>1, <2>1, ItemAtNext
  <2>4. \A u \in Threads :
            Writing(u) /\ pos[u] = p => Writing(u)' /\ pos'[u] = p /\ arg'[u] = arg[u]
    BY <1>1 DEF Writing
  <2>5. Place(p)' = Place(p) BY <1>0, <1>1, <2>2, <2>4, SamePlace
  <2> QED BY <2>2, <2>3, <2>5
<1>5. absItems'[n + 1] = [val |-> arg[t], by |-> t]
  <2>1. PICK p \in Nat : p = wpos BY <1>0
  <2>2. absItems'[n + 1] = Place(p)' BY <1>0, <1>1, <2>1, ItemAtNext
  <2>3. Owner(p)' = t BY <1>1, <2>1, OwnerIsWriterNext DEF Writing
  <2>4. seq'[Cell(p)] # p + 1 BY <1>0, <1>1, <1>2, <2>1
  <2> QED BY <1>1, <2>2, <2>3, <2>4 DEF Place, Cell
<1>6. absItems' = Append(absItems, [val |-> arg[t], by |-> t]) /\ Len(absItems) = n
  <2> DEFINE S == {absItems'[i] : i \in 1 .. n + 1}
  <2>1. absItems' \in [1 .. n + 1 -> S]
    <3>1. wpos' - rpos' = n + 1 BY <1>0, <1>1
    <3> QED BY <3>1 DEF absItems
  <2>2. absItems \in [1 .. n -> S]
    <3>1. \A i \in 1 .. n : absItems[i] \in S BY <1>0, <1>4
    <3> QED BY <3>1 DEF absItems
  <2> HIDE DEF S, n
  <2> QED BY <1>0, <1>4, <1>5, <2>1, <2>2, AppendOne, FunctionIsSeq
<1>7. Len(absItems) < capacity_ BY <1>0, <1>2, <1>6
<1>8. ASSUME NEW i \in DOMAIN absItems PROVE absItems[i].by # t
  <2>1. i \in 1 .. n BY DEF absItems
  <2>2. PICK p \in Nat : p = rpos + i - 1 BY <1>0, <2>1
  <2>3. absItems[i] = Place(p) /\ rpos <= p /\ p < wpos BY <1>0, <2>1, <2>2, ItemAt
  <2>4. CASE seq[Cell(p)] = p + 1
    BY <2>3, <2>4, ConstantsAssumption DEF Place
  <2>5. CASE seq[Cell(p)] # p + 1
    <3>1. p \in rpos .. wpos - 1 BY <1>0, <2>3
    <3>2. PICK u \in Threads : Writing(u) /\ pos[u] = p BY <2>5, <3>1 DEF Inv, ClaimedCells
    <3>3. Owner(p) = u BY <3>2, OwnerIsWriter
    <3>4. u # t BY <1>1, <3>2 DEF Writing
    <3> QED BY <2>3, <2>5, <3>3, <3>4 DEF Place
  <2> QED BY <2>4, <2>5
<1>9. absHeld' = absHeld BY <1>1 DEF absHeld, Cell
<1> QED BY <1>1, <1>3, <1>6, <1>7, <1>8, <1>9 DEF Fifo!Reserve

\* The commit of write() makes the value in the writer's place available.
LEMMA FifoWriteCommit ==
    ASSUME TypeOK, Inv, Inv', ValuesHeld, NEW t \in Threads, WriteCommit(t)
    PROVE  Fifo!Publish(t)
<1> USE CapacityFact
<1> DEFINE q == pos[t]
           k == q - rpos + 1
<1>0. rpos \in Nat /\ wpos \in Nat /\ q \in Nat BY DEF TypeOK
<1>1. /\ rpos' = rpos /\ wpos' = wpos /\ val' = val /\ seq \in [Cells -> Nat]
      /\ seq' = [seq EXCEPT ![Cell(q)] = q + 1] /\ out' = out
      /\ pc[t] = "w_commit" /\ pc'[t] = "idle"
      /\ \A u \in Threads : u # t => pc'[u] = pc[u] /\ pos'[u] = pos[u] /\ arg'[u] = arg[u]
  BY DEF WriteCommit, Return, Goto, TypeOK
<1>2. /\ rpos <= q /\ q < wpos /\ seq[Cell(q)] = q /\ wpos <= rpos + capacity_
      /\ Writing(t) /\ val[Cell(q)] = arg[t]
  BY <1>1 DEF Inv, WriterHolds, Writing, Bounded, ValuesHeld
<1>3. k \in 1 .. wpos - rpos BY <1>0, <1>2
<1>4. absItems[k] = [val |-> arg[t], by |-> t]
  <2>1. Owner(q) = t BY <1>2, OwnerIsWriter
  <2>2. absItems[k] = Place(q) BY <1>0, <1>3, ItemAt
  <2>3. seq[Cell(q)] # q + 1 BY <1>0, <1>2
  <2> QED BY <2>1, <2>2, <2>3 DEF Place
<1>5. absItems'[k] = [val |-> arg[t], by |-> Nothing]
  <2>1. PICK p \in Nat : p = q BY <1>0
  <2>2. PICK i \in 1 .. wpos - rpos : i = k BY <1>3
  <2>3. absItems'[i] = Place(p)' BY <1>0, <1>1, <2>1, <2>2, ItemAtNext
  <2>4. seq'[Cell(p)] = p + 1
    <3>1. Cell(q) \in Cells BY <1>0, CellType
    <3> QED BY <1>1, <2>1, <3>1
  <2>5. Place(p)' = [val |-> val[Cell(p)], by |-> Nothing] BY <1>1, <2>4 DEF Place, Cell
  <2> QED BY <1>2, <2>1, <2>2, <2>3, <2>5
<1>6. ASSUME NEW i \in 1 .. wpos - rpos, i # k PROVE absItems'[i] = absItems[i]
  <2>1. PICK p \in Nat : p = rpos + i - 1 BY <1>0
  <2>2. absItems[i] = Place(p) /\ rpos <= p /\ p < wpos BY <1>0, <2>1, ItemAt
  <2>3. absItems'[i] = Place(p)' BY <1>0, <1>1, <2>1, ItemAtNext
  <2>4. p # q BY <1>0, <1>6, <2>1
  <2>5. \A u \in Threads :
            Writing(u) /\ pos[u] = p => Writing(u)' /\ pos'[u] = p /\ arg'[u] = arg[u]
    BY <1>1, <2>4 DEF Writing
  <2>6. seq'[Cell(p)] = seq[Cell(p)]
    <3>1. p < q + capacity_ /\ q < p + capacity_ BY <1>0, <1>2, <2>2
    <3>2. CASE p < q BY <1>0, <1>1, <3>1, <3>2, CellDistinct, CellType
    <3>3. CASE q < p BY <1>0, <1>1, <3>1, <3>3, CellDistinct, CellType
    <3> QED BY <1>0, <2>4, <3>2, <3>3
  <2>7. Place(p)' = Place(p) BY <1>0, <1>1, <2>2, <2>5, <2>6, SamePlace
  <2> QED BY <2>2, <2>3, <2>7
<1>7. absItems' = [absItems EXCEPT ![k].by = Nothing]
  <2>1. DOMAIN absItems = 1 .. wpos - rpos /\ absItems = [i \in 1 .. wpos - rpos |-> absItems[i]]
    BY DEF absItems
  <2>2. absItems' = [i \in 1 .. wpos - rpos |-> absItems'[i]] BY <1>1 DEF absItems
  <2>3. [absItems[k] EXCEPT !.by = Nothing] = [val |-> arg[t], by |-> Nothing] BY <1>4
  <2> HIDE DEF k, q
  <2> QED BY <1>3, <1>5, <1>6, <2>1, <2>2, <2>3
<1>8. k \in DOMAIN absItems /\ absItems[k].by = t BY <1>3, <1>4 DEF absItems
<1>9. absHeld' = absHeld BY <1>1 DEF absHeld, Cell
<1> HIDE DEF k
<1> QED BY <1>1, <1>7, <1>8, <1>9 DEF Fifo!Publish

\* A reader that claims a position takes the value at the front.
LEMMA FifoReadClaim ==
    ASSUME TypeOK, Inv, Inv', ValuesHeld, NEW t \in Threads, ReadClaim(t)
    PROVE  Fifo!Take(t)
<1> USE CapacityFact
<1> DEFINE n == wpos - rpos
<1>0. rpos \in Nat /\ wpos \in Nat BY DEF TypeOK
<1>1. /\ pos[t] = rpos /\ rpos' = rpos + 1 /\ wpos' = wpos /\ seq' = seq /\ val' = val
      /\ pos' = pos /\ arg' = arg /\ out' = out /\ pc[t] = "r_cas" /\ pc'[t] = "r_fn"
      /\ \A u \in Threads : u # t => pc'[u] = pc[u]
  BY DEF ReadClaim, Goto, cells, TypeOK
<1>2. rpos < wpos /\ seq[Cell(rpos)] = rpos + 1 BY <1>0, <1>1 DEF Inv, ReaderSaw
<1>3. n \in Nat /\ n > 0 BY <1>0, <1>2
<1>4. absItems[1] = [val |-> val[Cell(rpos)], by |-> Nothing]
  <2>1. absItems[1] = Place(rpos) BY <1>0, <1>3, ItemAt
  <2> QED BY <1>2, <2>1 DEF Place
<1>5. ASSUME NEW i \in 1 .. n - 1 PROVE absItems'[i] = absItems[i + 1]
  <2>1. PICK p \in Nat : p = rpos + i BY <1>0
  <2>2. i + 1 \in 1 .. wpos - rpos /\ p = rpos + (i + 1) - 1 BY <1>0, <2>1
  <2>3. absItems[i + 1] = Place(p) /\ rpos <= p /\ p < wpos BY <1>0, <2>2, ItemAt
  <2>4. i \in 1 .. wpos' - rpos' /\ p = rpos' + i - 1 BY <1>0, <1>1, <2>1
  <2>5. absItems'[i] = Place(p)' BY <1>0, <1>1, <2>4, ItemAtNext
  <2>6. \A u \in Threads :
            Writing(u) /\ pos[u] = p => Writing(u)' /\ pos'[u] = p /\ arg'[u] = arg[u]
    BY <1>1 DEF Writing
  <2>7. Place(p)' = Place(p) BY <1>0, <1>1, <2>3, <2>6, SamePlace
  <2> QED BY <2>3, <2>5, <2>7
<1>6. absItems # << >> /\ Head(absItems) = absItems[1] /\ absItems' = Tail(absItems)
  <2> DEFINE S == {absItems[i] : i \in 1 .. n}
  <2>1. absItems \in [1 .. n -> S] BY DEF absItems
  <2>2. absItems' \in [1 .. n - 1 -> S]
    <3>1. wpos' - rpos' = n - 1 BY <1>0, <1>1
    <3>2. \A i \in 1 .. n - 1 : absItems'[i] \in S
      <4>1. \A i \in 1 .. n - 1 : i + 1 \in 1 .. n BY <1>3
      <4> QED BY <1>5, <4>1
    <3> QED BY <3>1, <3>2 DEF absItems
  <2> HIDE DEF S, n
  <2> QED BY <1>3, <1>5, <2>1, <2>2, TailOne
<1>7. absHeld[t] = Nothing BY <1>1 DEF absHeld
<1>8. absHeld' = [absHeld EXCEPT ![t] = Head(absItems).val]
  <2>1. Head(absItems).val = val[Cell(pos[t])] BY <1>1, <1>4, <1>6
  <2> QED BY <1>1, <2>1 DEF absHeld, Cell
<1> QED BY <1>1, <1>4, <1>6, <1>7, <1>8 DEF Fifo!Take

\* The empty queue is the empty abstract queue.
LEMMA FifoInit == Init => Fifo!Init
<1> SUFFICES ASSUME Init PROVE Fifo!Init OBVIOUS
<1>1. absItems = << >> BY DEF Init, absItems
<1>2. absHeld = [t \in Threads |-> Nothing] BY DEF Init, absHeld
<1> QED BY <1>1, <1>2 DEF Init, Fifo!Init

\* Every step of the code is a step of the abstract queue or changes nothing it shows.
LEMMA FifoNext ==
    ASSUME TypeOK, Inv, Inv', ValuesHeld, [Next]_vars
    PROVE  [Fifo!Next]_<<absItems, absHeld, out>>
<1>1. ASSUME NEW t \in Consumers, Read(t) PROVE [Fifo!Next]_<<absItems, absHeld, out>>
  <2>0. t \in Threads BY DEF Threads
  <2>1. CASE ReadBegin(t) \/ ReadReady(t) \/ ReadFalse(t) \/ ReadStale(t) \/ ReadReload(t)
             \/ ReadClaimFails(t)
    <3>1. /\ rpos' = rpos /\ wpos' = wpos /\ seq' = seq /\ val' = val /\ out' = out
          /\ \A u \in Threads : u # t => pc'[u] = pc[u] /\ pos'[u] = pos[u] /\ arg'[u] = arg[u]
          /\ pc[t] \in {"idle", "r_seq", "r_reload", "r_cas"}
          /\ pc'[t] \in {"idle", "r_seq", "r_reload", "r_cas"}
      BY <2>0, <2>1 DEF ReadBegin, ReadReady, ReadFalse, ReadStale, ReadReload, ReadClaimFails,
                        Return, Goto, cells, TypeOK
    <3>2. ~Writing(t) /\ pc[t] # "r_fn" /\ pc'[t] # "r_fn" BY <3>1 DEF Writing
    <3> QED BY <2>0, <3>1, <3>2, FifoQuiet
  <2>2. CASE ReadClaim(t) BY <2>0, <2>2, FifoReadClaim DEF Fifo!Next
  <2>3. CASE ReadFn(t) BY <2>0, <2>3, FifoReadFn DEF Fifo!Next
  <2>4. CASE ReadCommit(t) BY <2>0, <2>4, FifoReadCommit
  <2> QED BY <1>1, <2>1, <2>2, <2>3, <2>4 DEF Read
<1>2. ASSUME NEW t \in Producers, Write(t) PROVE [Fifo!Next]_<<absItems, absHeld, out>>
  <2>0. t \in Threads BY DEF Threads
  <2>1. CASE (\E v \in Values : WriteBegin(t, v)) \/ WriteReady(t) \/ WriteFalse(t)
             \/ WriteStale(t) \/ WriteReload(t) \/ WriteClaimFails(t)
    <3>1. /\ rpos' = rpos /\ wpos' = wpos /\ seq' = seq /\ val' = val /\ out' = out
          /\ \A u \in Threads : u # t => pc'[u] = pc[u] /\ pos'[u] = pos[u] /\ arg'[u] = arg[u]
          /\ pc[t] \in {"idle", "w_seq", "w_reload", "w_cas"}
          /\ pc'[t] \in {"idle", "w_seq", "w_reload", "w_cas"}
      BY <2>0, <2>1 DEF WriteBegin, WriteReady, WriteFalse, WriteStale, WriteReload,
                        WriteClaimFails, Return, Goto, cells, TypeOK
    <3>2. ~Writing(t) /\ pc[t] # "r_fn" /\ pc'[t] # "r_fn" BY <3>1 DEF Writing
    <3> QED BY <2>0, <3>1, <3>2, FifoQuiet
  <2>2. CASE WriteClaim(t) BY <2>0, <2>2, FifoWriteClaim DEF Fifo!Next
  <2>3. CASE WriteFn(t) BY <2>0, <2>3, FifoWriteFn
  <2>4. CASE WriteCommit(t) BY <2>0, <2>4, FifoWriteCommit DEF Fifo!Next
  <2> QED BY <1>2, <2>1, <2>2, <2>3, <2>4 DEF Write
<1>3. ASSUME NEW t \in Observers, Size(t) PROVE [Fifo!Next]_<<absItems, absHeld, out>>
  <2>1. /\ t \in Threads
        /\ rpos' = rpos /\ wpos' = wpos /\ seq' = seq /\ val' = val /\ out' = out
        /\ \A u \in Threads : u # t => pc'[u] = pc[u] /\ pos'[u] = pos[u] /\ arg'[u] = arg[u]
        /\ pc[t] \in {"idle", "s_wpos"} /\ pc'[t] \in {"idle", "s_wpos"}
    BY <1>3 DEF Size, SizeBegin, SizeEnd, Goto, Return, cells, TypeOK, Threads
  <2>2. ~Writing(t) /\ pc[t] # "r_fn" /\ pc'[t] # "r_fn" BY <2>1 DEF Writing
  <2> QED BY <2>1, <2>2, FifoQuiet
<1>4. CASE UNCHANGED vars
  BY <1>4 DEF vars, absItems, absHeld, Place, Owner, Writing, Cell
<1> QED BY <1>1, <1>2, <1>3, <1>4 DEF Next

\* If the constructor initialises every cell, the lock-free queue implements the abstract
\* one: values are received in the order in which their positions were claimed, each once
\* and unchanged, whatever the number of threads, the capacity and the interleaving.
THEOREM QueueIsFifo == Initialised = capacity_ => (Spec => ImplementsFifo)
<1> SUFFICES ASSUME Initialised = capacity_ PROVE Spec => ImplementsFifo OBVIOUS
<1>1. Spec => []Inv BY Invariance
<1>2. Spec => []ValuesHeld BY ValuesInvariant
<1>3. TypeOK /\ Inv /\ Inv' /\ ValuesHeld /\ [Next]_vars
        => [Fifo!Next]_<<absItems, absHeld, out>>
  BY FifoNext
<1> QED BY <1>1, <1>2, <1>3, FifoInit, TypeCorrect, PTL DEF Spec, ImplementsFifo, Fifo!Spec, Fifo!vars

=============================================================================
