-------------------------- MODULE ComponentsProofs --------------------------
(***************************************************************************)
(* Proofs about the components that share no state with the others, for    *)
(* every value of the constants that Components assumes: the two rings,    *)
(* the list of hooks, the calendar, the rate limiter, the buffer of frames,*)
(* the histogram and the HTTP client.                                      *)
(*                                                                         *)
(* Each component has an inductive invariant, which holds whether or not   *)
(* the component is the one in use.  What a recursive definition returns   *)
(* is shown by a least counterexample: SmallestSet and LeastNumber.        *)
(***************************************************************************)
EXTENDS Components, SequenceTheorems, FiniteSetTheorems, WellFoundedInduction, TLAPS

-----------------------------------------------------------------------------
(* The composition *)

\* A step of the toolbox is a step of each component, or leaves it as it is.
LEMMA StepsOfComponents ==
    ASSUME [Next]_vars
    PROVE  /\ [Magic!Next]_(Magic!vars) /\ [Client!NextClnt]_(Client!allVars)
           /\ [Hook!Next]_(Hook!vars) /\ [Rate!Next]_(Rate!vars) /\ [Frame!Next]_(Frame!vars)
           /\ [Ring!Next]_(Ring!vars) /\ [Dates!NextDay]_(Dates!vars)
           /\ [Histo!Next]_(Histo!vars)
<1> USE DEF vars, magic, client, hook, rate, frame, ring, histogram, date, Magic!vars,
        Client!allVars, Client!vars, Client!clntVars, Hook!vars, Rate!vars, Frame!vars,
        Ring!vars, Dates!vars, Histo!vars
<1>1. CASE MagicStep BY <1>1 DEF MagicStep
<1>2. CASE ClientStep BY <1>2 DEF ClientStep
<1>3. CASE HookStep BY <1>3 DEF HookStep
<1>4. CASE RateStep BY <1>4 DEF RateStep
<1>5. CASE FrameStep BY <1>5 DEF FrameStep
<1>6. CASE RingStep BY <1>6 DEF RingStep
<1>7. CASE HistogramStep BY <1>7 DEF HistogramStep
<1>8. CASE DateStep BY <1>8 DEF DateStep
<1>9. CASE UNCHANGED vars BY <1>9
<1> QED BY <1>1, <1>2, <1>3, <1>4, <1>5, <1>6, <1>7, <1>8, <1>9 DEF Next

-----------------------------------------------------------------------------
(* Positions and slots *)

\* Euclidean division of a position by the number of slots.
LEMMA DivMod ==
    ASSUME NEW n \in Nat \ {0}, NEW p \in Int
    PROVE  /\ p \div n \in Int /\ p % n \in 0 .. n - 1
           /\ p = n * (p \div n) + (p % n)
BY SMT

\* Quotient and remainder are unique.
LEMMA DivUnique ==
    ASSUME NEW n \in Nat \ {0}, NEW a \in Int, NEW b \in Int,
           NEW c \in 0 .. n - 1, NEW d \in 0 .. n - 1, n * a + c = n * b + d
    PROVE  a = b /\ c = d
<1>1. CASE a = b BY <1>1
<1>2. CASE a < b
  <2>1. n * b >= n * a + n BY <1>2, SMT
  <2> QED BY <2>1
<1>3. CASE a > b
  <2>1. n * a >= n * b + n BY <1>3, SMT
  <2> QED BY <2>1
<1> QED BY <1>1, <1>2, <1>3

\* A position that is written as quotient and remainder.
LEMMA DivModIs ==
    ASSUME NEW n \in Nat \ {0}, NEW p \in Int, NEW a \in Int, NEW c \in 0 .. n - 1, p = n * a + c
    PROVE  p \div n = a /\ p % n = c
<1> DEFINE b == p \div n
           d == p % n
<1>1. b \in Int /\ d \in 0 .. n - 1 /\ p = n * b + d BY DivMod
<1> HIDE DEF b, d
<1>2. n * a + c = n * b + d BY <1>1
<1>3. a = b /\ c = d BY <1>1, <1>2, DivUnique
<1> QED BY <1>3 DEF b, d

\* An offset may be added before or after a position is reduced.
LEMMA ModAdd ==
    ASSUME NEW n \in Nat \ {0}, NEW p \in Int, NEW m \in Int
    PROVE  ((p % n) + m) % n = (p + m) % n
<1> DEFINE a == p \div n
           c == p % n
           b == (c + m) \div n
           d == (c + m) % n
<1>1. a \in Int /\ c \in 0 .. n - 1 /\ p = n * a + c BY DivMod
<1> HIDE DEF a, c
<1>2. c + m \in Int BY <1>1
<1>3. b \in Int /\ d \in 0 .. n - 1 /\ c + m = n * b + d BY <1>2, DivMod
<1> HIDE DEF b, d
<1>4. p + m = n * a + (n * b + d) BY <1>1, <1>3
<1>5. n * a + n * b = n * (a + b) BY <1>1, <1>3
<1>6. p + m = n * (a + b) + d BY <1>1, <1>3, <1>4, <1>5
<1>7. a + b \in Int /\ p + m \in Int BY <1>1, <1>3
<1>8. (p + m) % n = d BY <1>3, <1>6, <1>7, DivModIs
<1> QED BY <1>8 DEF c, d

\* Two positions less than a lap apart have different slots.
LEMMA ModDistinct ==
    ASSUME NEW n \in Nat \ {0}, NEW p \in Int, NEW q \in Int, p < q, q < p + n
    PROVE  p % n # q % n
<1> SUFFICES ASSUME p % n = q % n PROVE FALSE OBVIOUS
<1> DEFINE a == p \div n
           b == q \div n
           c == p % n
<1>1. a \in Int /\ c \in 0 .. n - 1 /\ p = n * a + c BY DivMod
<1>2. b \in Int /\ q = n * b + c BY DivMod
<1> HIDE DEF a, b, c
<1>3. n * b - n * a > 0 /\ n * b - n * a < n BY <1>1, <1>2
<1>4. CASE a >= b
  <2>1. n * a >= n * b BY <1>1, <1>2, <1>4
  <2> QED BY <1>1, <1>2, <1>3, <2>1
<1>5. CASE a < b
  <2>1. n * b >= n * a + n BY <1>1, <1>2, <1>5
  <2> QED BY <1>1, <1>2, <1>3, <2>1
<1> QED BY <1>1, <1>2, <1>4, <1>5

\* A number of whole pages is rounded to itself.
LEMMA RoundUpPages ==
    ASSUME NEW k \in Nat, PageSize \in Nat \ {0}
    PROVE  Magic!round_up_page_size(PageSize * k) = PageSize * k
<1> DEFINE h == PageSize \div 2
           q == PageSize * k
<1>1. h \in 0 .. PageSize - 1 BY SMT
<1> HIDE DEF h
<1>2. q \in Int /\ q + h \in Int /\ q + h = PageSize * k + h BY <1>1
<1>3. (q + h) \div PageSize = k BY <1>1, <1>2, DivModIs
<1>4. k * PageSize = q OBVIOUS
<1> QED BY <1>3, <1>4 DEF Magic!round_up_page_size, h

-----------------------------------------------------------------------------
(* MagicRingBuffer *)

\* The capacity is a number of whole pages.
WholePages == PageSize \in Nat \ {0} /\ \E k \in Nat \ {0} : RingBytes = PageSize * k

\* The memory of one period has then just the capacity: offset o and o + RingBytes are the
\* same byte.
LEMMA PeriodIsCapacity ==
    ASSUME WholePages
    PROVE  Magic!Period = RingBytes /\ RingBytes \in Nat \ {0}
<1>1. PICK k \in Nat \ {0} : RingBytes = PageSize * k BY DEF WholePages
<1>2. PageSize \in Nat \ {0} BY DEF WholePages
<1>3. PageSize + RingBytes = PageSize * (k + 1) /\ PageSize = PageSize * 1 BY <1>1, <1>2
<1>4. Magic!round_up_page_size(PageSize * (k + 1)) = PageSize * (k + 1)
  <2>1. k + 1 \in Nat BY <1>1
  <2> QED BY <1>2, <2>1, RoundUpPages
<1>5. Magic!round_up_page_size(PageSize * 1) = PageSize * 1 BY <1>2, RoundUpPages
<1>6. RingBytes \in Nat \ {0}
  <2>1. PageSize * k >= 1 BY <1>1, <1>2, SMT
  <2> QED BY <1>1, <1>2, <2>1
<1>7. Magic!round_up_page_size(PageSize + RingBytes) = PageSize + RingBytes
  BY <1>3, <1>4
<1>8. Magic!round_up_page_size(PageSize) = PageSize BY <1>3, <1>5
<1> QED BY <1>2, <1>6, <1>7, <1>8 DEF Magic!Period

\* Where a byte of a message is.
LEMMA MemoryIs ==
    ASSUME WholePages, NEW p \in Int, NEW n \in Int
    PROVE  Magic!Memory(p, n) = (p + n) % RingBytes
BY PeriodIsCapacity, ModAdd DEF Magic!Memory

\* The positions, the sizes of the calls in progress and what is in the memory.
BytesTyped ==
    /\ rpos \in Nat /\ wpos \in Nat /\ wlen \in Nat /\ ready \in Nat /\ consumed \in Nat
    /\ mem \in [0 .. RingBytes - 1 -> Nat]

\* No more is read than was written, and no more is written than there is room for; the
\* room is what it was or more when the write() is committed.
InBounds ==
    /\ rpos + ready <= wpos /\ consumed <= ready
    /\ wpos + wlen <= rpos + RingBytes
    /\ wpc = "idle" => wlen = 0

\* The bytes from rpos on, and those that the callback of write() has filled, are in memory.
BytesStored ==
    /\ \A p \in rpos .. wpos - 1 : mem[p % RingBytes] = p
    /\ wpc = "commit" => \A p \in wpos .. wpos + wlen - 1 : mem[p % RingBytes] = p

\* The inductive invariant of the ring of bytes.
MagicInv == BytesTyped /\ InBounds /\ BytesStored /\ Magic!BytesIntact

\* The callback of write() fills the bytes of its message and no other one that is in use.
LEMMA WriteFnStep ==
    ASSUME WholePages, MagicInv, Magic!WriteFn
    PROVE  MagicInv'
<1>0. BytesTyped /\ InBounds /\ BytesStored /\ Magic!BytesIntact BY DEF MagicInv
<1>1. RingBytes \in Nat \ {0} BY PeriodIsCapacity
<1>2. rpos \in Nat /\ wpos \in Nat /\ wlen \in Nat /\ rpos <= wpos /\ wpos + wlen <= rpos + RingBytes
  BY <1>0, <1>1 DEF BytesTyped, InBounds
<1> DEFINE at(n) == (wpos + n) % RingBytes
<1>3. \A n \in 0 .. wlen - 1 : Magic!Memory(wpos, n) = at(n) /\ at(n) \in 0 .. RingBytes - 1
  <2> TAKE n \in 0 .. wlen - 1
  <2>1. wpos \in Int /\ n \in Int /\ wpos + n \in Int BY <1>2
  <2> QED BY <1>1, <2>1, MemoryIs, DivMod
<1>4. \A m, n \in 0 .. wlen - 1 : at(m) = at(n) => m = n
  <2>1. ASSUME NEW m \in 0 .. wlen - 1, NEW n \in 0 .. wlen - 1, m < n PROVE at(m) # at(n)
    <3> DEFINE p == wpos + m
               q == wpos + n
    <3>1. p \in Int /\ q \in Int /\ p < q /\ q < p + RingBytes BY <1>1, <1>2, <2>1
    <3> HIDE DEF p, q
    <3>2. p % RingBytes # q % RingBytes BY <1>1, <3>1, ModDistinct
    <3> QED BY <3>2 DEF p, q
  <2> QED BY <1>2, <2>1
<1> HIDE DEF at
<1>5. mem' = [i \in DOMAIN mem |-> IF \E n \in 0 .. wlen - 1 : Magic!Memory(wpos, n) = i
                                   THEN wpos + (CHOOSE n \in 0 .. wlen - 1 : Magic!Memory(wpos, n) = i)
                                   ELSE mem[i]]
  BY DEF Magic!WriteFn
<1>6. DOMAIN mem = 0 .. RingBytes - 1 BY <1>0 DEF BytesTyped
<1>7. \A n \in 0 .. wlen - 1 : mem'[at(n)] = wpos + n
  <2> TAKE n \in 0 .. wlen - 1
  <2>1. at(n) \in DOMAIN mem /\ Magic!Memory(wpos, n) = at(n) BY <1>3, <1>6
  <2>2. mem'[at(n)] = wpos + (CHOOSE m \in 0 .. wlen - 1 : Magic!Memory(wpos, m) = at(n))
    BY <1>5, <2>1
  <2> DEFINE c == CHOOSE m \in 0 .. wlen - 1 : Magic!Memory(wpos, m) = at(n)
  <2>3. c \in 0 .. wlen - 1 /\ Magic!Memory(wpos, c) = at(n) BY <2>1
  <2> HIDE DEF c
  <2>4. c = n BY <1>3, <1>4, <2>3
  <2> QED BY <2>2, <2>4 DEF c
<1>8. \A i \in DOMAIN mem : (\A n \in 0 .. wlen - 1 : at(n) # i) => mem'[i] = mem[i]
  BY <1>3, <1>5
<1>9. mem' \in [0 .. RingBytes - 1 -> Nat]
  <2>1. \A i \in 0 .. RingBytes - 1 : mem'[i] \in Nat
    <3> TAKE i \in 0 .. RingBytes - 1
    <3>1. CASE \E n \in 0 .. wlen - 1 : at(n) = i
      <4>1. PICK n \in 0 .. wlen - 1 : at(n) = i BY <3>1
      <4> QED BY <1>2, <1>7, <4>1
    <3>2. CASE \A n \in 0 .. wlen - 1 : at(n) # i BY <1>0, <1>6, <1>8, <3>2 DEF BytesTyped
    <3> QED BY <3>1, <3>2
  <2>2. mem' = [i \in 0 .. RingBytes - 1 |-> mem'[i]] BY <1>5, <1>6
  <2> QED BY <2>1, <2>2
<1>10. UNCHANGED <<rpos, wpos, wlen, rpc, ready, consumed, got>> /\ wpc' = "commit"
  BY DEF Magic!WriteFn, Magic!consumer
<1>11. \A p \in rpos .. wpos - 1 : mem'[p % RingBytes] = p
  <2> TAKE p \in rpos .. wpos - 1
  <2>1. p \in Int /\ p % RingBytes \in DOMAIN mem BY <1>1, <1>2, <1>6, DivMod
  <2>2. ASSUME NEW n \in 0 .. wlen - 1 PROVE at(n) # p % RingBytes
    <3> DEFINE q == wpos + n
    <3>1. q \in Int /\ p < q /\ q < p + RingBytes BY <1>1, <1>2, <2>1
    <3> HIDE DEF q
    <3>2. p % RingBytes # q % RingBytes BY <1>1, <2>1, <3>1, ModDistinct
    <3> QED BY <3>2 DEF q, at
  <2>3. mem'[p % RingBytes] = mem[p % RingBytes] BY <1>8, <2>1, <2>2
  <2> QED BY <1>0, <2>3 DEF BytesStored
<1>12. \A p \in wpos .. wpos + wlen - 1 : mem'[p % RingBytes] = p
  <2> TAKE p \in wpos .. wpos + wlen - 1
  <2>1. p - wpos \in 0 .. wlen - 1 /\ wpos + (p - wpos) = p BY <1>2
  <2>2. mem'[at(p - wpos)] = p BY <1>7, <2>1
  <2> QED BY <2>1, <2>2 DEF at
<1>13. BytesTyped' BY <1>0, <1>9, <1>10 DEF BytesTyped
<1>14. InBounds' BY <1>0, <1>10 DEF InBounds
<1>15. BytesStored' BY <1>10, <1>11, <1>12 DEF BytesStored
<1>16. Magic!BytesIntact' BY <1>0, <1>10 DEF Magic!BytesIntact
<1> QED BY <1>13, <1>14, <1>15, <1>16 DEF MagicInv

\* The callback of read() sees the bytes from rpos on.
LEMMA ReadFnStep ==
    ASSUME WholePages, MagicInv, Magic!ReadFn
    PROVE  MagicInv'
<1>0. BytesTyped /\ InBounds /\ BytesStored BY DEF MagicInv
<1>1. RingBytes \in Nat \ {0} BY PeriodIsCapacity
<1>2. rpos \in Nat /\ wpos \in Nat /\ ready \in Nat /\ rpos + ready <= wpos
  BY <1>0 DEF BytesTyped, InBounds
<1>3. UNCHANGED <<rpos, wpos, mem, wpc, wlen, ready, consumed>> /\ rpc' = "commit"
  BY DEF Magic!ReadFn, Magic!producer
<1>4. got' = [n \in 1 .. ready |-> mem[Magic!Memory(rpos, n - 1)]] BY DEF Magic!ReadFn
<1>5. ASSUME NEW n \in 1 .. ready PROVE mem[Magic!Memory(rpos, n - 1)] = rpos + n - 1
  <2> DEFINE p == rpos + n - 1
  <2>1. p \in rpos .. wpos - 1 /\ n - 1 \in Int /\ rpos \in Int /\ rpos + (n - 1) = p BY <1>2
  <2>2. Magic!Memory(rpos, n - 1) = p % RingBytes BY <2>1, MemoryIs
  <2> HIDE DEF p
  <2>3. mem[p % RingBytes] = p BY <1>0, <2>1 DEF BytesStored
  <2> QED BY <2>2, <2>3 DEF p
<1>6. got' = [n \in 1 .. ready |-> rpos + n - 1] BY <1>4, <1>5
<1>7. BytesTyped' BY <1>0, <1>3 DEF BytesTyped
<1>8. InBounds' BY <1>0, <1>3 DEF InBounds
<1>9. BytesStored' BY <1>0, <1>3 DEF BytesStored
<1>10. Magic!BytesIntact' BY <1>3, <1>6 DEF Magic!BytesIntact
<1> QED BY <1>7, <1>8, <1>9, <1>10 DEF MagicInv

\* Every step of write() and read(), and the initial state.
LEMMA MagicInductive ==
    ASSUME WholePages, Sizes \subseteq Nat
    PROVE  (Magic!Init => MagicInv) /\ (MagicInv /\ [Magic!Next]_(Magic!vars) => MagicInv')
<1>0. RingBytes \in Nat \ {0} /\ Magic!Period = RingBytes BY PeriodIsCapacity
<1>1. ASSUME Magic!Init PROVE MagicInv
  <2>1. BytesTyped BY <1>0, <1>1 DEF Magic!Init, BytesTyped
  <2>2. InBounds BY <1>0, <1>1 DEF Magic!Init, InBounds
  <2>3. BytesStored BY <1>0, <1>1 DEF Magic!Init, BytesStored
  <2>4. Magic!BytesIntact BY <1>1 DEF Magic!Init, Magic!BytesIntact
  <2> QED BY <2>1, <2>2, <2>3, <2>4 DEF MagicInv
<1>2. ASSUME MagicInv, [Magic!Next]_(Magic!vars) PROVE MagicInv'
  <2>0. BytesTyped /\ InBounds /\ BytesStored /\ Magic!BytesIntact BY <1>2 DEF MagicInv
  <2>1. ASSUME NEW size \in Sizes, Magic!WriteBegin(size) PROVE MagicInv'
    <3>1. /\ size \in Nat /\ wpos + size <= rpos + RingBytes /\ wlen' = size /\ wpc' = "fn"
          /\ UNCHANGED <<rpos, wpos, mem, rpc, ready, consumed, got>>
      BY <1>0, <2>0, <2>1 DEF Magic!WriteBegin, Magic!consumer, BytesTyped
    <3>2. BytesTyped' BY <2>0, <3>1 DEF BytesTyped
    <3>3. InBounds' BY <2>0, <3>1 DEF InBounds
    <3>4. BytesStored' BY <2>0, <3>1 DEF BytesStored
    <3>5. Magic!BytesIntact' BY <2>0, <3>1 DEF Magic!BytesIntact
    <3> QED BY <3>2, <3>3, <3>4, <3>5 DEF MagicInv
  <2>2. CASE Magic!WriteCommit
    <3>1. /\ wpc = "commit" /\ wpos' = wpos + wlen /\ wlen' = 0 /\ wpc' = "idle"
          /\ UNCHANGED <<rpos, mem, rpc, ready, consumed, got>>
      BY <2>2 DEF Magic!WriteCommit, Magic!consumer
    <3>2. BytesTyped' BY <2>0, <3>1 DEF BytesTyped
    <3>3. InBounds' BY <1>0, <2>0, <3>1 DEF InBounds, BytesTyped
    <3>4. \A p \in rpos .. wpos + wlen - 1 : mem[p % RingBytes] = p
      <4> TAKE p \in rpos .. wpos + wlen - 1
      <4>1. p \in rpos .. wpos - 1 \/ p \in wpos .. wpos + wlen - 1 BY <2>0 DEF BytesTyped
      <4> QED BY <2>0, <3>1, <4>1 DEF BytesStored
    <3>5. BytesStored'
      <4>1. wpos' - 1 = wpos + wlen - 1 BY <2>0, <3>1 DEF BytesTyped
      <4>2. \A p \in rpos' .. wpos' - 1 : mem'[p % RingBytes] = p BY <3>1, <3>4, <4>1
      <4>3. wpc' # "commit" BY <3>1
      <4> QED BY <4>2, <4>3 DEF BytesStored
    <3>6. Magic!BytesIntact' BY <2>0, <3>1 DEF Magic!BytesIntact
    <3> QED BY <3>2, <3>3, <3>5, <3>6 DEF MagicInv
  <2>3. ASSUME NEW size \in Nat, NEW n \in Nat, n <= wpos - rpos, Magic!ReadBegin(size, n) PROVE MagicInv'
    <3>1. /\ ready' = wpos - rpos /\ consumed' = n /\ rpc' = "fn"
          /\ UNCHANGED <<rpos, wpos, mem, wpc, wlen, got>>
      BY <2>3 DEF Magic!ReadBegin, Magic!producer
    <3>2. BytesTyped' BY <2>0, <2>3, <3>1 DEF BytesTyped, InBounds
    <3>3. InBounds' BY <1>0, <2>0, <2>3, <3>1 DEF InBounds, BytesTyped
    <3>4. BytesStored' BY <2>0, <3>1 DEF BytesStored
    <3>5. Magic!BytesIntact' BY <3>1 DEF Magic!BytesIntact
    <3> QED BY <3>2, <3>3, <3>4, <3>5 DEF MagicInv
  <2>4. ASSUME NEW size \in Sizes, Magic!ReadUpTo(size) PROVE MagicInv'
    <3> DEFINE n == IF size < wpos - rpos THEN size ELSE wpos - rpos
    <3>1. n \in Nat /\ n <= wpos - rpos BY <2>0 DEF BytesTyped, InBounds
    <3>2. Magic!ReadBegin(0, n) BY <2>4 DEF Magic!ReadUpTo
    <3> HIDE DEF n
    <3> QED BY <2>3, <3>1, <3>2
  <2>5. ASSUME NEW size \in Sizes, Magic!ReadExactly(size) PROVE MagicInv'
    <3>1. size \in Nat /\ size <= wpos - rpos BY <2>0, <2>5 DEF Magic!ReadExactly, Magic!ReadBegin, BytesTyped
    <3>2. Magic!ReadBegin(size, size) BY <2>5 DEF Magic!ReadExactly
    <3> QED BY <2>3, <3>1, <3>2
  <2>6. CASE Magic!ReadCommit
    <3>1. /\ rpos' = rpos + consumed /\ ready' = 0 /\ consumed' = 0 /\ rpc' = "idle"
          /\ UNCHANGED <<wpos, mem, wpc, wlen>>
      BY <2>6 DEF Magic!ReadCommit, Magic!producer
    <3>2. BytesTyped' BY <2>0, <3>1 DEF BytesTyped
    <3>3. InBounds' BY <1>0, <2>0, <3>1 DEF InBounds, BytesTyped
    <3>4. BytesStored'
      <4>1. \A p \in rpos + consumed .. wpos - 1 : p \in rpos .. wpos - 1 BY <2>0 DEF BytesTyped
      <4> QED BY <2>0, <3>1, <4>1 DEF BytesStored
    <3>5. Magic!BytesIntact' BY <3>1 DEF Magic!BytesIntact
    <3> QED BY <3>2, <3>3, <3>4, <3>5 DEF MagicInv
  <2>7. CASE UNCHANGED Magic!vars
    BY <2>0, <2>7 DEF Magic!vars, MagicInv, BytesTyped, InBounds, BytesStored, Magic!BytesIntact
  <2>8. CASE Magic!WriteFn BY <1>2, <2>8, WriteFnStep
  <2>9. CASE Magic!ReadFn BY <1>2, <2>9, ReadFnStep
  <2> QED BY <1>2, <2>1, <2>2, <2>4, <2>5, <2>6, <2>7, <2>8, <2>9 DEF Magic!Next
<1> QED BY <1>1, <1>2

\* The bytes of a message that is being written lie less than a lap behind those that are
\* being read.
LEMMA RaceFree ==
    ASSUME WholePages, MagicInv
    PROVE  Magic!NoDataRace
<1>0. BytesTyped /\ InBounds BY DEF MagicInv
<1>1. RingBytes \in Nat \ {0} BY PeriodIsCapacity
<1>2. ASSUME NEW m \in 0 .. wlen - 1, NEW n \in 0 .. ready - 1 PROVE Magic!Memory(wpos, m) # Magic!Memory(rpos, n)
  <2> DEFINE q == wpos + m
             p == rpos + n
  <2>1. /\ p \in Int /\ q \in Int /\ p < q /\ q < p + RingBytes
        /\ wpos \in Int /\ rpos \in Int /\ m \in Int /\ n \in Int
    BY <1>0, <1>1 DEF BytesTyped, InBounds
  <2>2. Magic!Memory(wpos, m) = q % RingBytes /\ Magic!Memory(rpos, n) = p % RingBytes BY <2>1, MemoryIs
  <2> HIDE DEF p, q
  <2>3. p % RingBytes # q % RingBytes BY <1>1, <2>1, ModDistinct
  <2> QED BY <2>2, <2>3
<1> QED BY <1>2 DEF Magic!NoDataRace, Magic!Written, Magic!BeingRead

\* However the steps of the producer and the consumer interleave, and wherever a message
\* crosses the end of the ring: the callback of read() sees just the bytes that were written,
\* in order, and the two callbacks never touch the same byte.
THEOREM BytesAreIntact == Spec => []BytesIntact
<1>0. WholePages /\ Sizes \subseteq Nat BY MagicAssumption DEF WholePages
<1>1. Init => MagicInv BY <1>0, MagicInductive DEF Init
<1>2. MagicInv /\ [Next]_vars => MagicInv' BY <1>0, MagicInductive, StepsOfComponents
<1>3. MagicInv => BytesIntact BY <1>0, RaceFree DEF MagicInv, BytesIntact
<1> QED BY <1>1, <1>2, <1>3, PTL DEF Spec

-----------------------------------------------------------------------------
(* RingBuffer *)

\* The values of the ring's variables.
RingTyped ==
    /\ overwrite \in BOOLEAN /\ head \in Nat /\ tail \in Nat /\ value \in Nat
    /\ wreg \in Nat /\ rreg \in Nat
    /\ slots \in [0 .. Ring!Capacity - 1 -> Nat]
    /\ content \in Seq(Nat)

\* The ring holds no more than its capacity, and a call that is in progress still has what
\* it has found: room to write, an element to read, the position that it increments.
RingBounds ==
    /\ head <= tail /\ tail <= head + Ring!Capacity /\ Len(content) = tail - head
    /\ writing = "fn" /\ ~overwrite => tail < head + Ring!Capacity
    /\ writing = "commit" => tail < head + Ring!Capacity
    /\ writing \in {"load", "store"} => tail = head + Ring!Capacity
    /\ writing \in {"drop", "load", "store"} => overwrite
    /\ writing = "store" => wreg = head
    /\ reading # "idle" => head < tail
    /\ reading = "store" => rreg = head
    /\ overwrite => writing = "idle" \/ reading = "idle"

\* Each position from head to tail has its element, but the oldest one of a full ring that
\* is being overwritten.
RingStored ==
    /\ \A p \in head .. tail - 1 :
          \/ writing \in {"drop", "load", "store"} /\ p + Ring!Capacity = tail
          \/ content[p - head + 1] = slots[p % Ring!Capacity]
    /\ writing \in {"drop", "load", "store", "commit"} => slots[tail % Ring!Capacity] = value
    /\ reading = "load" => popped = content[1]

\* The inductive invariant of the ring of elements: it is lost only when calls of both ends
\* overlap and both of them write the reader's position, until clear().
RingInv == RingTyped /\ (shared \/ (RingBounds /\ RingStored))

\* The invariant says that the ring holds what a bounded queue would.
LEMMA RingInvIntact ==
    ASSUME Ring!Capacity \in Nat \ {0}, RingInv
    PROVE  Ring!RingIntact
<1> SUFFICES ASSUME ~shared
             PROVE  /\ Ring!Overwriting \/ content = [i \in 1 .. tail - head |-> slots[(head + i - 1) % Ring!Capacity]]
                    /\ reading = "load" => popped = Head(content)
  BY DEF Ring!RingIntact
<1>0. RingTyped /\ RingBounds /\ RingStored BY DEF RingInv
<1>1. /\ head \in Nat /\ tail \in Nat /\ content \in Seq(Nat)
      /\ head <= tail /\ tail <= head + Ring!Capacity /\ Len(content) = tail - head
  BY <1>0 DEF RingTyped, RingBounds
<1>2. ASSUME ~Ring!Overwriting
      PROVE  content = [i \in 1 .. tail - head |-> slots[(head + i - 1) % Ring!Capacity]]
  <2>1. content = [i \in 1 .. tail - head |-> content[i]] BY <1>1, SeqDef, LenProperties
  <2>2. \A i \in 1 .. tail - head : content[i] = slots[(head + i - 1) % Ring!Capacity]
    <3> TAKE i \in 1 .. tail - head
    <3> DEFINE p == head + i - 1
    <3>1. p \in head .. tail - 1 /\ p - head + 1 = i BY <1>1
    <3>2. p + Ring!Capacity = tail => tail - head = Ring!Capacity BY <1>1
    <3> HIDE DEF p
    <3>3. ~(writing \in {"drop", "load", "store"} /\ p + Ring!Capacity = tail)
      BY <1>2, <3>2 DEF Ring!Overwriting, Ring!full
    <3>4. content[i] = slots[p % Ring!Capacity] BY <1>0, <3>1, <3>3 DEF RingStored
    <3> QED BY <3>4 DEF p
  <2> QED BY <2>1, <2>2
<1>3. ASSUME reading = "load" PROVE popped = Head(content)
  <2>1. content # <<>> BY <1>0, <1>1, <1>3, EmptySeq DEF RingBounds
  <2>2. Head(content) = content[1] BY <1>1, <2>1, HeadTailProperties
  <2> QED BY <1>0, <1>3, <2>2 DEF RingStored
<1> QED BY <1>2, <1>3

\* A callback of write() fills the slot behind the newest element.
LEMMA RingWriteFn ==
    ASSUME Ring!Capacity \in Nat \ {0}, RingInv, Ring!WriteFn
    PROVE  RingInv'
<1> DEFINE C == Ring!Capacity
<1>0. RingTyped BY DEF RingInv
<1>1. /\ writing = "fn" /\ writing' = (IF overwrite THEN "drop" ELSE "commit") /\ value' = value + 1
      /\ slots' = [slots EXCEPT ![tail % C] = value + 1]
      /\ UNCHANGED <<overwrite, head, tail, reading, wreg, rreg, popped, content, shared>>
  BY DEF Ring!WriteFn
<1>2. C \in Nat \ {0} OBVIOUS
<1> HIDE DEF C
<1>3. head \in Nat /\ tail \in Nat /\ slots \in [0 .. C - 1 -> Nat] /\ value' \in Nat
  BY <1>0, <1>1 DEF RingTyped, C
<1>4. tail \in Int /\ tail % C \in 0 .. C - 1 BY <1>2, <1>3, DivMod
<1>5. /\ slots' \in [0 .. C - 1 -> Nat] /\ slots'[tail % C] = value'
      /\ \A i \in 0 .. C - 1 : i # tail % C => slots'[i] = slots[i]
  BY <1>1, <1>3, <1>4
<1>6. RingTyped' BY <1>0, <1>1, <1>3, <1>5 DEF RingTyped, C
<1> SUFFICES ASSUME ~shared PROVE RingBounds' /\ RingStored'
  BY <1>1, <1>6 DEF RingInv
<1>7. RingBounds /\ RingStored BY DEF RingInv
<1>8. head <= tail /\ tail <= head + C /\ (~overwrite => tail < head + C)
  BY <1>1, <1>7 DEF RingBounds, C
<1>9. RingBounds' BY <1>1, <1>7 DEF RingBounds
<1>10. ASSUME NEW p \in head .. tail - 1
       PROVE  (overwrite /\ p + C = tail) \/ content[p - head + 1] = slots'[p % C]
  <2>1. CASE p + C = tail BY <1>2, <1>3, <1>8, <2>1
  <2>2. CASE p + C # tail
    <3>1. p \in Int /\ p < tail /\ tail < p + C BY <1>2, <1>3, <1>8, <2>2
    <3>2. p % C # tail % C /\ p % C \in 0 .. C - 1 BY <1>2, <1>4, <3>1, ModDistinct, DivMod
    <3>3. content[p - head + 1] = slots[p % C] BY <1>1, <1>7, <1>10 DEF RingStored, C
    <3> QED BY <1>5, <3>2, <3>3
  <2> QED BY <2>1, <2>2
<1>11. RingStored'
  <2>1. reading' = "load" => popped' = content'[1] BY <1>1, <1>7 DEF RingStored
  <2>2. overwrite => writing' = "drop" BY <1>1
  <2> QED BY <1>1, <1>5, <1>10, <2>1, <2>2 DEF RingStored, C
<1> QED BY <1>9, <1>11

\* The new element of write() is committed.
LEMMA RingWriteCommit ==
    ASSUME Ring!Capacity \in Nat \ {0}, RingInv, Ring!WriteCommit
    PROVE  RingInv'
<1> DEFINE C == Ring!Capacity
<1>0. RingTyped BY DEF RingInv
<1>1. /\ writing = "commit" /\ writing' = "idle" /\ tail' = tail + 1
      /\ content' = Append(content, value)
      /\ UNCHANGED <<overwrite, head, slots, reading, wreg, rreg, popped, value, shared>>
  BY DEF Ring!WriteCommit
<1>2. C \in Nat \ {0} OBVIOUS
<1> HIDE DEF C
<1>3. /\ content' \in Seq(Nat) /\ Len(content') = Len(content) + 1
      /\ \A i \in 1 .. Len(content) : content'[i] = content[i]
      /\ content'[Len(content) + 1] = value
  BY <1>0, <1>1, AppendProperties DEF RingTyped
<1>4. RingTyped' BY <1>0, <1>1, <1>3 DEF RingTyped
<1> SUFFICES ASSUME ~shared PROVE RingBounds' /\ RingStored'
  BY <1>1, <1>4 DEF RingInv
<1>5. RingBounds /\ RingStored BY DEF RingInv
<1>6. /\ head \in Nat /\ tail \in Nat /\ head <= tail /\ tail < head + C
      /\ Len(content) = tail - head /\ slots[tail % C] = value
      /\ reading # "idle" => head < tail
  BY <1>0, <1>1, <1>5 DEF RingTyped, RingBounds, RingStored, C
<1>7. \A p \in head .. tail - 1 : content[p - head + 1] = slots[p % C]
  BY <1>1, <1>5 DEF RingStored, C
<1>8. RingBounds' BY <1>0, <1>1, <1>2, <1>3, <1>5, <1>6 DEF RingBounds, C
<1>9. \A p \in head' .. tail' - 1 : content'[p - head' + 1] = slots'[p % C]
  <2>1. tail' - 1 = tail BY <1>1, <1>6
  <2> TAKE p \in head' .. tail' - 1
  <2>2. p \in head .. tail BY <1>1, <2>1
  <2>3. CASE p = tail BY <1>1, <1>3, <1>6, <2>3
  <2>4. CASE p # tail
    <3>1. p \in head .. tail - 1 /\ p - head + 1 \in 1 .. tail - head BY <1>6, <2>2, <2>4
    <3> QED BY <1>1, <1>3, <1>6, <1>7, <3>1
  <2> QED BY <2>3, <2>4
<1>10. reading' = "load" => popped' = content'[1]
  <2>1. ASSUME reading = "load" PROVE popped = content[1] /\ 1 \in 1 .. tail - head
    BY <1>5, <1>6, <2>1 DEF RingStored
  <2> QED BY <1>1, <1>3, <1>6, <2>1
<1>11. RingStored' BY <1>1, <1>9, <1>10 DEF RingStored, C
<1> QED BY <1>8, <1>11

\* The oldest element goes: the positions of the others stay what they were.
LEMMA RingTake ==
    ASSUME Ring!Capacity \in Nat \ {0}, RingTyped, RingBounds, head < tail,
           \A p \in head + 1 .. tail - 1 : content[p - head + 1] = slots[p % Ring!Capacity],
           head' = head + 1, content' = Ring!Rest, UNCHANGED <<tail, slots>>
    PROVE  /\ Len(content') = tail' - head' /\ head' <= tail' /\ tail' < head' + Ring!Capacity
           /\ \A p \in head' .. tail' - 1 : content'[p - head' + 1] = slots'[p % Ring!Capacity]
<1> DEFINE C == Ring!Capacity
<1>1. C \in Nat \ {0} OBVIOUS
<1> HIDE DEF C
<1>2. /\ head \in Nat /\ tail \in Nat /\ tail <= head + C
      /\ content \in Seq(Nat) /\ Len(content) = tail - head
  BY DEF RingTyped, RingBounds, C
<1>3. content # <<>> BY <1>2, EmptySeq
<1>4. /\ Len(content') = tail - head - 1
      /\ \A i \in 1 .. tail - head - 1 : content'[i] = content[i + 1]
  <2>1. /\ Tail(content) \in Seq(Nat) /\ Len(Tail(content)) = Len(content) - 1
        /\ \A i \in 1 .. Len(Tail(content)) : Tail(content)[i] = content[i + 1]
    BY <1>2, <1>3, HeadTailProperties
  <2>2. content' = Tail(content) BY <1>3 DEF Ring!Rest
  <2> QED BY <1>2, <2>1, <2>2
<1>5. Len(content') = tail' - head' /\ head' <= tail' /\ tail' < head' + C
  BY <1>1, <1>2, <1>4
<1>6. \A p \in head' .. tail' - 1 : content'[p - head' + 1] = slots'[p % C]
  <2> TAKE p \in head' .. tail' - 1
  <2>1. p \in head + 1 .. tail - 1 /\ p - head \in 1 .. tail - head - 1 /\ p - head' + 1 = p - head
    <3>1. head \in Nat /\ tail \in Nat /\ head' = head + 1 /\ tail' = tail BY <1>2
    <3> QED BY <3>1
  <2>2. content'[p - head] = content[p - head + 1] BY <1>4, <2>1
  <2>3. content[p - head + 1] = slots[p % C] BY <2>1 DEF C
  <2> QED BY <2>1, <2>2, <2>3
<1> QED BY <1>5, <1>6 DEF C

\* The queue without its oldest element is a queue.
LEMMA RestTyped ==
    ASSUME RingTyped
    PROVE  Ring!Rest \in Seq(Nat)
<1>1. content \in Seq(Nat) BY DEF RingTyped
<1>2. CASE content = <<>> BY <1>1, <1>2 DEF Ring!Rest
<1>3. CASE content # <<>>
  <2>1. Tail(content) \in Seq(Nat) BY <1>1, <1>3, HeadTailProperties
  <2> QED BY <1>3, <2>1 DEF Ring!Rest
<1> QED BY <1>2, <1>3

\* write() drops the oldest element of a full ring, whose slot is filled already.
LEMMA RingWriteStore ==
    ASSUME Ring!Capacity \in Nat \ {0}, RingInv, Ring!WriteStore
    PROVE  RingInv'
<1>0. RingTyped BY DEF RingInv
<1>1. /\ writing = "store" /\ writing' = "commit" /\ head' = wreg + 1 /\ wreg' = 0
      /\ content' = Ring!Rest
      /\ UNCHANGED <<overwrite, tail, slots, reading, rreg, popped, value, shared>>
  BY DEF Ring!WriteStore
<1>2. RingTyped' BY <1>0, <1>1, RestTyped DEF RingTyped
<1> SUFFICES ASSUME ~shared PROVE RingBounds' /\ RingStored'
  BY <1>1, <1>2 DEF RingInv
<1>3. RingBounds /\ RingStored BY DEF RingInv
<1>4. /\ head \in Nat /\ tail \in Nat /\ tail = head + Ring!Capacity /\ head' = head + 1
      /\ overwrite /\ reading = "idle"
  BY <1>0, <1>1, <1>3 DEF RingTyped, RingBounds
<1>5. head < tail BY <1>4
<1>6. \A p \in head + 1 .. tail - 1 : content[p - head + 1] = slots[p % Ring!Capacity]
  <2> TAKE p \in head + 1 .. tail - 1
  <2>1. p \in head .. tail - 1 /\ p + Ring!Capacity # tail BY <1>4
  <2> QED BY <1>3, <2>1 DEF RingStored
<1>7. /\ Len(content') = tail' - head' /\ head' <= tail' /\ tail' < head' + Ring!Capacity
      /\ \A p \in head' .. tail' - 1 : content'[p - head' + 1] = slots'[p % Ring!Capacity]
  BY <1>0, <1>1, <1>3, <1>4, <1>5, <1>6, RingTake
<1>8. RingBounds' BY <1>1, <1>2, <1>4, <1>7 DEF RingBounds, RingTyped
<1>9. RingStored' BY <1>1, <1>3, <1>4, <1>7 DEF RingStored
<1> QED BY <1>8, <1>9

\* read() or pop() takes the oldest element.
LEMMA RingReadStore ==
    ASSUME Ring!Capacity \in Nat \ {0}, RingInv, Ring!ReadStore
    PROVE  RingInv'
<1>0. RingTyped BY DEF RingInv
<1>1. /\ reading = "store" /\ reading' = "idle" /\ head' = rreg + 1 /\ rreg' = 0
      /\ content' = Ring!Rest
      /\ UNCHANGED <<overwrite, tail, slots, writing, wreg, popped, value, shared>>
  BY DEF Ring!ReadStore
<1>2. RingTyped' BY <1>0, <1>1, RestTyped DEF RingTyped
<1> SUFFICES ASSUME ~shared PROVE RingBounds' /\ RingStored'
  BY <1>1, <1>2 DEF RingInv
<1>3. RingBounds /\ RingStored BY DEF RingInv
<1>4. /\ head \in Nat /\ tail \in Nat /\ head < tail /\ head' = head + 1
      /\ writing \notin {"drop", "load", "store"}
  BY <1>0, <1>1, <1>3 DEF RingTyped, RingBounds
<1>5. \A p \in head + 1 .. tail - 1 : content[p - head + 1] = slots[p % Ring!Capacity]
  <2> TAKE p \in head + 1 .. tail - 1
  <2>1. p \in head .. tail - 1 BY <1>4
  <2> QED BY <1>3, <1>4, <2>1 DEF RingStored
<1>6. /\ Len(content') = tail' - head' /\ head' <= tail' /\ tail' < head' + Ring!Capacity
      /\ \A p \in head' .. tail' - 1 : content'[p - head' + 1] = slots'[p % Ring!Capacity]
  BY <1>0, <1>1, <1>3, <1>4, <1>5, RingTake
<1>7. RingBounds' BY <1>1, <1>2, <1>4, <1>6 DEF RingBounds, RingTyped
<1>8. RingStored' BY <1>1, <1>3, <1>4, <1>6 DEF RingStored
<1> QED BY <1>7, <1>8

\* The steps that only begin a call, or load the position.
LEMMA RingPrepare ==
    ASSUME Ring!Capacity \in Nat \ {0}, RingInv,
           \/ Ring!WriteBegin \/ Ring!WriteDrop \/ Ring!WriteLoad
           \/ Ring!ReadBegin \/ Ring!ReadFn \/ Ring!ReadLoad \/ Ring!pop
    PROVE  RingInv'
<1>0. RingTyped BY DEF RingInv
<1>1. UNCHANGED <<overwrite, head, tail, slots, value, content>> /\ (shared => shared')
  <2>1. CASE Ring!WriteDrop \/ Ring!WriteLoad \/ Ring!ReadFn \/ Ring!ReadLoad
    BY <2>1 DEF Ring!WriteDrop, Ring!WriteLoad, Ring!ReadFn, Ring!ReadLoad
  <2>2. CASE Ring!WriteBegin BY <2>2 DEF Ring!WriteBegin, Ring!Overlaps
  <2>3. CASE Ring!ReadBegin BY <2>3 DEF Ring!ReadBegin, Ring!Overlaps
  <2>4. CASE Ring!pop BY <2>4 DEF Ring!pop, Ring!Overlaps
  <2> QED BY <2>1, <2>2, <2>3, <2>4
<1>2. wreg' \in Nat /\ rreg' \in Nat
  BY <1>0 DEF RingTyped, Ring!WriteBegin, Ring!WriteDrop, Ring!WriteLoad, Ring!ReadBegin,
              Ring!ReadFn, Ring!ReadLoad, Ring!pop
<1>3. RingTyped' BY <1>0, <1>1, <1>2 DEF RingTyped
<1> SUFFICES ASSUME ~shared' PROVE RingBounds' /\ RingStored'
  BY <1>3 DEF RingInv
<1>4. RingBounds /\ RingStored BY <1>1 DEF RingInv
<1>5. CASE Ring!WriteBegin
  <2>1. /\ overwrite => reading = "idle"
        /\ overwrite \/ tail - head # Ring!Capacity
        /\ writing = "idle" /\ writing' = "fn"
        /\ UNCHANGED <<reading, wreg, rreg, popped>>
    BY <1>5 DEF Ring!WriteBegin, Ring!Overlaps, Ring!full
  <2>2. RingBounds' BY <1>0, <1>1, <1>4, <2>1 DEF RingBounds, RingTyped
  <2>3. RingStored' BY <1>1, <1>4, <2>1 DEF RingStored
  <2> QED BY <2>2, <2>3
<1>6. CASE Ring!WriteDrop
  <2>1. /\ writing = "drop" /\ UNCHANGED <<reading, wreg, rreg, popped>>
        /\ \/ writing' = "load" /\ tail - head = Ring!Capacity
           \/ writing' = "commit" /\ tail - head # Ring!Capacity
    BY <1>6 DEF Ring!WriteDrop, Ring!full
  <2>2. RingBounds' BY <1>0, <1>1, <1>4, <2>1 DEF RingBounds, RingTyped
  <2>3. ASSUME NEW p \in head .. tail - 1
        PROVE  \/ writing' = "load" /\ p + Ring!Capacity = tail
               \/ content[p - head + 1] = slots[p % Ring!Capacity]
    <3>1. p + Ring!Capacity = tail => tail - head = Ring!Capacity
      BY <1>0, <1>4, <2>3 DEF RingTyped, RingBounds
    <3> QED BY <1>4, <2>1, <3>1 DEF RingStored
  <2>4. RingStored' BY <1>1, <1>4, <2>1, <2>3 DEF RingStored
  <2> QED BY <2>2, <2>4
<1>7. CASE Ring!WriteLoad
  <2>1. /\ writing = "load" /\ writing' = "store" /\ wreg' = head /\ UNCHANGED <<reading, rreg, popped>>
    BY <1>7 DEF Ring!WriteLoad
  <2>2. RingBounds' BY <1>1, <1>4, <2>1 DEF RingBounds
  <2>3. RingStored' BY <1>1, <1>4, <2>1 DEF RingStored
  <2> QED BY <2>2, <2>3
<1>8. CASE Ring!ReadBegin
  <2>1. /\ overwrite => writing = "idle"
        /\ head # tail /\ reading' = "fn" /\ UNCHANGED <<writing, wreg, rreg, popped>>
    BY <1>8 DEF Ring!ReadBegin, Ring!Overlaps, Ring!empty
  <2>2. RingBounds' BY <1>0, <1>1, <1>4, <2>1 DEF RingBounds, RingTyped
  <2>3. RingStored' BY <1>1, <1>4, <2>1 DEF RingStored
  <2> QED BY <2>2, <2>3
<1>9. CASE Ring!ReadFn
  <2>1. /\ reading = "fn" /\ reading' = "load" /\ popped' = slots[head % Ring!Capacity]
        /\ UNCHANGED <<writing, wreg, rreg>>
    BY <1>9 DEF Ring!ReadFn
  <2>2. content[1] = slots[head % Ring!Capacity]
    <3>1. head \in head .. tail - 1 /\ head - head + 1 = 1 BY <1>0, <1>4, <2>1 DEF RingBounds, RingTyped
    <3>2. writing \notin {"drop", "load", "store"} BY <1>4, <2>1 DEF RingBounds
    <3> QED BY <1>4, <3>1, <3>2 DEF RingStored
  <2>3. RingBounds' BY <1>1, <1>4, <2>1 DEF RingBounds
  <2>4. RingStored' BY <1>1, <1>4, <2>1, <2>2 DEF RingStored
  <2> QED BY <2>3, <2>4
<1>10. CASE Ring!ReadLoad
  <2>1. /\ reading = "load" /\ reading' = "store" /\ rreg' = head /\ UNCHANGED <<writing, wreg, popped>>
    BY <1>10 DEF Ring!ReadLoad
  <2>2. RingBounds' BY <1>1, <1>4, <2>1 DEF RingBounds
  <2>3. RingStored' BY <1>1, <1>4, <2>1 DEF RingStored
  <2> QED BY <2>2, <2>3
<1>11. CASE Ring!pop
  <2>1. /\ overwrite => writing = "idle"
        /\ head # tail /\ reading' = "store" /\ rreg' = head /\ UNCHANGED <<writing, wreg, popped>>
    BY <1>11 DEF Ring!pop, Ring!Overlaps, Ring!empty
  <2>2. RingBounds' BY <1>0, <1>1, <1>4, <2>1 DEF RingBounds, RingTyped
  <2>3. RingStored' BY <1>1, <1>4, <2>1 DEF RingStored
  <2> QED BY <2>2, <2>3
<1> QED BY <1>5, <1>6, <1>7, <1>8, <1>9, <1>10, <1>11

\* Every step of write(), read(), pop() and clear(), and the initial state.
LEMMA RingInductive ==
    ASSUME Ring!Capacity \in Nat \ {0}
    PROVE  (Ring!Init => RingInv) /\ (RingInv /\ [Ring!Next]_(Ring!vars) => RingInv')
<1>1. ASSUME Ring!Init PROVE RingInv
  <2>1. /\ head = 0 /\ tail = 0 /\ content = <<>> /\ writing = "idle" /\ reading = "idle"
        /\ overwrite \in BOOLEAN /\ value = 0 /\ wreg = 0 /\ rreg = 0
        /\ slots = [i \in 0 .. Ring!Capacity - 1 |-> 0]
    BY <1>1 DEF Ring!Init
  <2>2. content \in Seq(Nat) /\ Len(content) = 0 BY <2>1, EmptySeq
  <2>3. RingTyped BY <2>1, <2>2 DEF RingTyped
  <2>4. RingBounds BY <2>1, <2>2 DEF RingBounds
  <2>5. RingStored BY <2>1 DEF RingStored
  <2> QED BY <2>3, <2>4, <2>5 DEF RingInv
<1>2. ASSUME RingInv, [Ring!Next]_(Ring!vars) PROVE RingInv'
  <2>1. CASE Ring!WriteFn BY <1>2, <2>1, RingWriteFn
  <2>2. CASE Ring!WriteStore BY <1>2, <2>2, RingWriteStore
  <2>3. CASE Ring!WriteCommit BY <1>2, <2>3, RingWriteCommit
  <2>4. CASE Ring!ReadStore BY <1>2, <2>4, RingReadStore
  <2>5. CASE \/ Ring!WriteBegin \/ Ring!WriteDrop \/ Ring!WriteLoad
             \/ Ring!ReadBegin \/ Ring!ReadFn \/ Ring!ReadLoad \/ Ring!pop
    BY <1>2, <2>5, RingPrepare
  <2>6. CASE Ring!clear
    <3>0. RingTyped BY <1>2 DEF RingInv
    <3>1. /\ head' = 0 /\ tail' = 0 /\ content' = <<>> /\ writing = "idle" /\ reading = "idle"
          /\ UNCHANGED <<overwrite, slots, writing, reading, wreg, rreg, value>>
      BY <2>6 DEF Ring!clear
    <3>2. content' \in Seq(Nat) /\ Len(content') = 0 BY <3>1, EmptySeq
    <3>3. RingTyped' BY <3>0, <3>1, <3>2 DEF RingTyped
    <3>4. RingBounds' BY <3>1, <3>2 DEF RingBounds
    <3>5. RingStored' BY <3>1 DEF RingStored
    <3> QED BY <3>3, <3>4, <3>5 DEF RingInv
  <2>7. CASE UNCHANGED Ring!vars
    <3>1. UNCHANGED <<overwrite, head, tail, slots, writing, reading, wreg, rreg, popped, value,
                      content, shared>>
      BY <2>7 DEF Ring!vars
    <3>2. RingTyped => RingTyped' BY <3>1 DEF RingTyped
    <3>3. RingBounds => RingBounds' BY <3>1 DEF RingBounds
    <3>4. RingStored => RingStored' BY <3>1 DEF RingStored
    <3> QED BY <1>2, <3>1, <3>2, <3>3, <3>4 DEF RingInv
  <2> QED BY <1>2, <2>1, <2>2, <2>3, <2>4, <2>5, <2>6, <2>7
          DEF Ring!Next, Ring!Write, Ring!Read
<1> QED BY <1>1, <1>2

\* The ring holds what a bounded queue would: the elements in order, the oldest one dropped
\* when a full ring is overwritten and none otherwise, and read() sees the oldest.  Without
\* Overwrite this is so however the steps of the producer and the consumer interleave; with
\* Overwrite, as long as the calls of the two ends do not overlap.
THEOREM RingHoldsQueue == Spec => []RingIntact
<1>1. Init => RingInv BY RingAssumption, RingInductive DEF Init
<1>2. RingInv /\ [Next]_vars => RingInv' BY RingAssumption, RingInductive, StepsOfComponents
<1>3. RingInv => RingIntact BY RingAssumption, RingInvIntact DEF RingIntact
<1> QED BY <1>1, <1>2, <1>3, PTL DEF Spec

-----------------------------------------------------------------------------
(* The list of hooks *)

\* A hook is in the list once.
Linear == list \in Seq(Hooks) /\ \A i, j \in 1 .. Len(list) : list[i] = list[j] => i = j

\* The iterator of dispatch() is at position p of the list: of the hooks that have been in
\* it all the time, those before p have been called.
Cursor(p) ==
    /\ p \in 1 .. Len(list) + 1
    /\ it = IF p = Len(list) + 1 THEN End ELSE list[p]
    /\ \A i \in 1 .. Len(list) : list[i] \in stayed => calls[list[i]] = IF i < p THEN 1 ELSE 0

\* The inductive invariant of the list.
HookInv ==
    /\ Linear
    /\ stayed \subseteq Hook!Linked
    /\ calls \in [Hooks -> Nat]
    /\ hookpc \in {"idle", "loop", "hook"}
    /\ hookpc # "idle" => \E p \in 1 .. Len(list) + 1 : Cursor(p)

\* The position of a hook.
LEMMA PositionOf ==
    ASSUME Linear, NEW i \in 1 .. Len(list)
    PROVE  Hook!Position(list[i]) = i
<1>1. DOMAIN list = 1 .. Len(list) BY LenProperties DEF Linear
<1> DEFINE P(j) == j \in DOMAIN list /\ list[j] = list[i]
<1>2. P(i) BY <1>1
<1>3. \A j : P(j) => j = i BY <1>1 DEF Linear
<1>4. Hook!Position(list[i]) = CHOOSE j \in DOMAIN list : list[j] = list[i] BY DEF Hook!Position
<1>5. (CHOOSE j \in DOMAIN list : list[j] = list[i]) \in DOMAIN list
      /\ list[CHOOSE j \in DOMAIN list : list[j] = list[i]] = list[i]
  BY <1>2
<1> QED BY <1>3, <1>4, <1>5

\* The hooks that are linked are those at some position.
LEMMA LinkedAt ==
    ASSUME list \in Seq(Hooks)
    PROVE  \A h : h \in Hook!Linked <=> \E i \in 1 .. Len(list) : list[i] = h
<1>1. DOMAIN list = 1 .. Len(list) BY LenProperties
<1> QED BY <1>1 DEF Hook!Linked, Hook!Range

\* The iterator goes on to the next hook.
LEMMA CallStep ==
    ASSUME HookInv, Hook!Call, End \notin Hooks
    PROVE  HookInv'
<1> DEFINE m == Len(list)
<1>0. Linear /\ list \in Seq(Hooks) /\ m \in Nat /\ calls \in [Hooks -> Nat]
  BY LenProperties DEF HookInv, Linear
<1>1. /\ hookpc = "loop" /\ it \in Hook!Linked /\ it' = Hook!Successor(it)
      /\ calls' = [calls EXCEPT ![it] = @ + 1] /\ UNCHANGED <<list, stayed>>
  BY DEF Hook!Call
<1>2. PICK p \in 1 .. m + 1 : Cursor(p) BY <1>1 DEF HookInv
<1>3. it \in Hooks
  <2>1. PICK i \in 1 .. m : list[i] = it BY <1>0, <1>1, LinkedAt
  <2> QED BY <1>0, <2>1, ElementOfSeq
<1>4. p \in 1 .. m /\ it = list[p]
  <2>1. p # m + 1 BY <1>2, <1>3 DEF Cursor
  <2> QED BY <1>0, <1>2, <2>1 DEF Cursor
<1>5. Hook!Position(it) = p BY <1>0, <1>4, PositionOf
<1>6. it' = IF p = m THEN End ELSE list[p + 1] BY <1>1, <1>5 DEF Hook!Successor
<1>7. \A i \in 1 .. m : list[i] = it => i = p BY <1>0, <1>4 DEF Linear
<1>8. \A h \in Hooks : calls'[h] = IF h = it THEN calls[it] + 1 ELSE calls[h] BY <1>0, <1>1
<1>9. ASSUME NEW i \in 1 .. m, list[i] \in stayed
      PROVE  calls'[list[i]] = IF i < p + 1 THEN 1 ELSE 0
  <2>1. list[i] \in Hooks BY <1>0, ElementOfSeq
  <2>2. calls[list[i]] = IF i < p THEN 1 ELSE 0 BY <1>2, <1>9 DEF Cursor
  <2>3. CASE i = p BY <1>4, <1>8, <2>1, <2>2, <2>3
  <2>4. CASE i # p
    <3>1. calls'[list[i]] = calls[list[i]] BY <1>7, <1>8, <2>1, <2>4
    <3> QED BY <1>0, <1>4, <2>2, <2>4, <3>1
  <2> QED BY <2>3, <2>4
<1>10. Cursor(p + 1)'
  <2>1. p + 1 \in 1 .. m + 1 BY <1>0, <1>4
  <2>2. it' = IF p + 1 = m + 1 THEN End ELSE list[p + 1] BY <1>0, <1>4, <1>6
  <2> QED BY <1>1, <1>9, <2>1, <2>2 DEF Cursor
<1>11. Linear' /\ Hook!Linked' = Hook!Linked BY <1>0, <1>1 DEF Linear, Hook!Linked
<1>12. calls' \in [Hooks -> Nat]
  <2>1. calls[it] + 1 \in Nat BY <1>0, <1>3
  <2> QED BY <1>0, <1>1, <2>1
<1>13. p + 1 \in 1 .. Len(list') + 1 BY <1>0, <1>1, <1>4
<1>14. hookpc' = "hook" BY DEF Hook!Call
<1> QED BY <1>1, <1>10, <1>11, <1>12, <1>13, <1>14 DEF HookInv

\* A hook is added at the end.
LEMMA AddStep ==
    ASSUME HookInv, NEW h \in Hooks, Hook!add_hook(h)
    PROVE  HookInv'
<1> DEFINE m == Len(list)
<1>0. Linear /\ list \in Seq(Hooks) /\ m \in Nat /\ calls \in [Hooks -> Nat] /\ stayed \subseteq Hook!Linked
  BY LenProperties DEF HookInv, Linear
<1>1. h \notin Hook!Linked /\ list' = Append(list, h) /\ UNCHANGED <<it, hookpc, calls, stayed>>
  BY DEF Hook!add_hook
<1>2. /\ list' \in Seq(Hooks) /\ Len(list') = m + 1 /\ list'[m + 1] = h
      /\ \A i \in 1 .. m : list'[i] = list[i]
  BY <1>0, <1>1, AppendProperties
<1>3. \A i \in 1 .. m : list[i] # h BY <1>0, <1>1, LinkedAt
<1>4. Linear'
  <2>1. ASSUME NEW i \in 1 .. m + 1, NEW j \in 1 .. m + 1, list'[i] = list'[j] PROVE i = j
    <3>1. CASE i \in 1 .. m /\ j \in 1 .. m BY <1>0, <1>2, <2>1, <3>1 DEF Linear
    <3>2. CASE i = m + 1 /\ j \in 1 .. m BY <1>2, <1>3, <2>1, <3>2
    <3>3. CASE j = m + 1 /\ i \in 1 .. m BY <1>2, <1>3, <2>1, <3>3
    <3> QED BY <1>0, <3>1, <3>2, <3>3
  <2> QED BY <1>2, <2>1 DEF Linear
<1>5. stayed' \subseteq Hook!Linked'
  <2>1. \A g : g \in Hook!Linked' <=> \E i \in 1 .. Len(list') : list'[i] = g
    <3>1. DOMAIN list' = 1 .. Len(list') BY <1>2, LenProperties
    <3> QED BY <3>1 DEF Hook!Linked, Hook!Range
  <2>2. ASSUME NEW g \in stayed PROVE g \in Hook!Linked'
    <3>1. PICK i \in 1 .. m : list[i] = g BY <1>0, LinkedAt
    <3>2. i \in 1 .. Len(list') /\ list'[i] = g BY <1>0, <1>2, <3>1
    <3> QED BY <2>1, <3>2
  <2> QED BY <1>1, <2>2
<1>6. ASSUME hookpc # "idle" PROVE \E p \in 1 .. Len(list') + 1 : Cursor(p)'
  <2>1. PICK p \in 1 .. m + 1 : Cursor(p) BY <1>6 DEF HookInv
  <2>0. PICK q \in 1 .. m + 2 : q = IF p = m + 1 THEN m + 2 ELSE p BY <1>0
  <2>2. q \in 1 .. Len(list') + 1 /\ q \in 1 .. m + 2 BY <1>0, <1>2
  <2>3. it' = IF q = Len(list') + 1 THEN End ELSE list'[q]
    <3>1. CASE p = m + 1
      <4>1. it = End BY <2>1, <3>1 DEF Cursor
      <4> QED BY <1>0, <1>1, <1>2, <2>0, <3>1, <4>1
    <3>2. CASE p # m + 1
      <4>1. p \in 1 .. m BY <1>0, <3>2
      <4>2. it = list[p] BY <2>1, <3>2 DEF Cursor
      <4> QED BY <1>0, <1>1, <1>2, <2>0, <3>2, <4>1, <4>2
    <3> QED BY <3>1, <3>2
  <2>4. ASSUME NEW i \in 1 .. Len(list'), list'[i] \in stayed'
        PROVE  calls'[list'[i]] = IF i < q THEN 1 ELSE 0
    <3>1. i # m + 1 BY <1>0, <1>1, <1>2, <2>4
    <3>2. i \in 1 .. m BY <1>0, <1>2, <3>1
    <3>3. calls[list[i]] = IF i < p THEN 1 ELSE 0 BY <1>1, <1>2, <2>1, <2>4, <3>2 DEF Cursor
    <3>4. i < q <=> i < p BY <1>0, <2>0, <3>2
    <3> QED BY <1>1, <1>2, <3>2, <3>3, <3>4
  <2>5. Cursor(q)' BY <2>2, <2>3, <2>4 DEF Cursor
  <2> QED BY <2>2, <2>5
<1> QED BY <1>0, <1>1, <1>4, <1>5, <1>6 DEF HookInv

\* A sequence without the element at r.
Without(s, r) == SubSeq(s, 1, r - 1) \o SubSeq(s, r + 1, Len(s))

LEMMA WithoutProperties ==
    ASSUME NEW S, NEW s \in Seq(S), NEW r \in 1 .. Len(s)
    PROVE  /\ Without(s, r) \in Seq(S)
           /\ Len(Without(s, r)) = Len(s) - 1
           /\ \A i \in 1 .. Len(s) - 1 : Without(s, r)[i] = IF i < r THEN s[i] ELSE s[i + 1]
<1> DEFINE m == Len(s)
           a == SubSeq(s, 1, r - 1)
           b == SubSeq(s, r + 1, m)
<1>1. m \in Nat /\ r - 1 \in Int /\ r + 1 \in Int /\ 1 \in Int /\ r \in 1 .. m BY LenProperties
<1>2. \A i \in 1 .. m : s[i] \in S BY ElementOfSeq
<1>3. /\ a \in Seq(S) /\ Len(a) = r - 1 /\ \A i \in 1 .. r - 1 : a[i] = s[i]
  <2>1. \A i \in 1 .. r - 1 : s[i] \in S BY <1>1, <1>2
  <2>2. /\ a \in Seq(S) /\ Len(a) = IF 1 <= r - 1 THEN (r - 1) - 1 + 1 ELSE 0
        /\ \A i \in 1 .. (r - 1) - 1 + 1 : a[i] = s[1 + i - 1]
    BY <1>1, <2>1, SubSeqProperties
  <2> HIDE DEF a
  <2>3. ASSUME NEW i \in 1 .. r - 1 PROVE a[i] = s[i]
    <3>1. i \in 1 .. (r - 1) - 1 + 1 /\ 1 + i - 1 = i BY <1>1
    <3> QED BY <2>2, <3>1
  <2> QED BY <1>1, <2>2, <2>3
<1>4. /\ b \in Seq(S) /\ Len(b) = m - r /\ \A i \in 1 .. m - r : b[i] = s[r + i]
  <2>1. \A i \in r + 1 .. m : s[i] \in S BY <1>1, <1>2
  <2>2. /\ b \in Seq(S) /\ Len(b) = IF r + 1 <= m THEN m - (r + 1) + 1 ELSE 0
        /\ \A i \in 1 .. m - (r + 1) + 1 : b[i] = s[(r + 1) + i - 1]
    <3> HIDE DEF m
    <3> QED BY <1>1, <2>1, SubSeqProperties
  <2> HIDE DEF b
  <2>3. ASSUME NEW i \in 1 .. m - r PROVE b[i] = s[r + i]
    <3>1. i \in 1 .. m - (r + 1) + 1 /\ (r + 1) + i - 1 = r + i BY <1>1
    <3> QED BY <2>2, <3>1
  <2> QED BY <1>1, <2>2, <2>3
<1> HIDE DEF a, b
<1>5. /\ a \o b \in Seq(S) /\ Len(a \o b) = Len(a) + Len(b)
      /\ \A i \in 1 .. Len(a) + Len(b) : (a \o b)[i] = IF i <= Len(a) THEN a[i] ELSE b[i - Len(a)]
  BY <1>3, <1>4, ConcatProperties
<1>6. Len(a) + Len(b) = m - 1 BY <1>1, <1>3, <1>4
<1>7. ASSUME NEW i \in 1 .. m - 1 PROVE (a \o b)[i] = IF i < r THEN s[i] ELSE s[i + 1]
  <2>1. (a \o b)[i] = IF i <= r - 1 THEN a[i] ELSE b[i - (r - 1)] BY <1>3, <1>5, <1>6
  <2>2. CASE i < r
    <3>1. i \in 1 .. r - 1 BY <1>1, <2>2
    <3> QED BY <1>3, <2>1, <2>2, <3>1
  <2>3. CASE ~(i < r)
    <3>1. ~(i <= r - 1) /\ i - (r - 1) \in 1 .. m - r /\ r + (i - (r - 1)) = i + 1 BY <1>1, <2>3
    <3> QED BY <1>4, <2>1, <2>3, <3>1
  <2> QED BY <2>2, <2>3
<1>8. Without(s, r) = a \o b BY DEF Without, a, b
<1> QED BY <1>5, <1>6, <1>7, <1>8

\* A hook other than the one of the iterator is removed.
LEMMA UnlinkStep ==
    ASSUME HookInv, NEW h \in Hooks, Hook!unlink(h), End \notin Hooks
    PROVE  HookInv'
<1>0. PICK m \in Nat : m = Len(list) BY LenProperties DEF HookInv, Linear
<1>1. Linear /\ list \in Seq(Hooks) /\ calls \in [Hooks -> Nat] /\ stayed \subseteq Hook!Linked
  BY DEF HookInv, Linear
<1>2. PICK r \in 1 .. m : list[r] = h BY <1>0, <1>1, LinkedAt DEF Hook!unlink
<1>3. /\ list' = Without(list, r) /\ stayed' = stayed \ {h} /\ UNCHANGED <<it, hookpc, calls>>
      /\ hookpc # "idle" => it # h
  <2>1. Hook!Position(h) = r BY <1>0, <1>1, <1>2, PositionOf
  <2> QED BY <2>1 DEF Hook!unlink, Hook!Change, HookInv, Without
<1>4. /\ list' \in Seq(Hooks) /\ Len(list') = m - 1
      /\ \A i \in 1 .. m - 1 : list'[i] = IF i < r THEN list[i] ELSE list[i + 1]
  BY <1>0, <1>1, <1>3, WithoutProperties
<1>5. \A i, j \in 1 .. m : list[i] = list[j] => i = j BY <1>0, <1>1 DEF Linear
<1>6. Linear'
  <2>1. ASSUME NEW i \in 1 .. m - 1, NEW j \in 1 .. m - 1, list'[i] = list'[j] PROVE i = j
    <3>1. PICK a \in 1 .. m : a = (IF i < r THEN i ELSE i + 1) /\ list'[i] = list[a] BY <1>0, <1>4
    <3>2. PICK b \in 1 .. m : b = (IF j < r THEN j ELSE j + 1) /\ list'[j] = list[b] BY <1>0, <1>4
    <3>3. a = b BY <1>5, <2>1, <3>1, <3>2
    <3> QED BY <1>0, <3>1, <3>2, <3>3
  <2> QED BY <1>4, <2>1 DEF Linear
<1>7. ASSUME NEW i \in 1 .. m, i # r
      PROVE  LET a == IF i < r THEN i ELSE i - 1 IN a \in 1 .. m - 1 /\ list'[a] = list[i]
  <2>1. CASE i < r
    <3>1. i \in 1 .. m - 1 BY <1>0, <2>1
    <3> QED BY <1>4, <2>1, <3>1
  <2>2. CASE ~(i < r)
    <3>1. i - 1 \in 1 .. m - 1 /\ ~(i - 1 < r) /\ (i - 1) + 1 = i BY <1>0, <1>7, <2>2
    <3> QED BY <1>4, <2>2, <3>1
  <2> QED BY <2>1, <2>2
<1>8. stayed' \subseteq Hook!Linked'
  <2>1. \A g : g \in Hook!Linked' <=> \E i \in 1 .. Len(list') : list'[i] = g
    <3>1. DOMAIN list' = 1 .. Len(list') BY <1>4, LenProperties
    <3> QED BY <3>1 DEF Hook!Linked, Hook!Range
  <2>2. ASSUME NEW g \in stayed, g # h PROVE g \in Hook!Linked'
    <3>1. PICK i \in 1 .. m : list[i] = g BY <1>0, <1>1, LinkedAt
    <3>2. i # r BY <1>2, <2>2, <3>1
    <3>3. \E a \in 1 .. m - 1 : list'[a] = g BY <1>7, <3>1, <3>2
    <3> QED BY <1>4, <2>1, <3>3
  <2> QED BY <1>3, <2>2
<1>9. ASSUME hookpc # "idle" PROVE \E p \in 1 .. Len(list') + 1 : Cursor(p)'
  <2>1. PICK p \in 1 .. m + 1 : Cursor(p) BY <1>0, <1>9 DEF HookInv
  <2>2. /\ it = IF p = m + 1 THEN End ELSE list[p]
        /\ \A i \in 1 .. m : list[i] \in stayed => calls[list[i]] = IF i < p THEN 1 ELSE 0
    BY <1>0, <2>1 DEF Cursor
  <2>3. p # r BY <1>0, <1>2, <1>3, <1>9, <2>2
  <2>4. PICK q \in 1 .. m : q = IF r < p THEN p - 1 ELSE p BY <1>0, <2>3
  <2>5. q \in 1 .. Len(list') + 1 BY <1>0, <1>4
  <2>6. it' = IF q = Len(list') + 1 THEN End ELSE list'[q]
    <3>1. CASE p = m + 1
      <4>1. q = m /\ Len(list') + 1 = m BY <1>0, <1>4, <2>4, <3>1
      <4> QED BY <1>3, <2>2, <3>1, <4>1
    <3>2. CASE p # m + 1
      <4>1. p \in 1 .. m /\ q = IF p < r THEN p ELSE p - 1 BY <1>0, <2>3, <2>4, <3>2
      <4>2. q \in 1 .. m - 1 /\ list'[q] = list[p] BY <1>7, <2>3, <4>1
      <4>3. q # Len(list') + 1 BY <1>0, <1>4, <4>2
      <4> QED BY <1>3, <2>2, <3>2, <4>2, <4>3
    <3> QED BY <3>1, <3>2
  <2>7. ASSUME NEW i \in 1 .. Len(list'), list'[i] \in stayed'
        PROVE  calls'[list'[i]] = IF i < q THEN 1 ELSE 0
    <3>1. i \in 1 .. m - 1 BY <1>4
    <3>2. PICK a \in 1 .. m : a = (IF i < r THEN i ELSE i + 1) /\ list'[i] = list[a] BY <1>0, <1>4, <3>1
    <3>3. calls[list[a]] = IF a < p THEN 1 ELSE 0 BY <1>3, <2>2, <2>7, <3>2
    <3>4. a < p <=> i < q
      <4>1. CASE r < p BY <1>0, <2>4, <3>1, <3>2, <4>1
      <4>2. CASE p < r BY <1>0, <2>4, <3>1, <3>2, <4>2
      <4> QED BY <1>0, <2>3, <4>1, <4>2
    <3> QED BY <1>3, <3>2, <3>3, <3>4
  <2>8. Cursor(q)' BY <2>5, <2>6, <2>7 DEF Cursor
  <2> QED BY <2>5, <2>8
<1>10. hookpc' \in {"idle", "loop", "hook"} BY <1>3 DEF HookInv
<1> QED BY <1>1, <1>3, <1>6, <1>8, <1>9, <1>10 DEF HookInv

\* dispatch() begins at the first hook.
LEMMA DispatchStep ==
    ASSUME HookInv, Hook!Dispatch
    PROVE  HookInv'
<1>1. /\ it' = Hook!begin /\ hookpc' = "loop" /\ calls' = [h \in Hooks |-> 0]
      /\ stayed' = Hook!Linked /\ list' = list
  BY DEF Hook!Dispatch
<1>2. Linear /\ list \in Seq(Hooks) /\ Len(list) \in Nat BY LenProperties DEF HookInv, Linear
<1>3. 1 \in 1 .. Len(list') + 1 BY <1>1, <1>2
<1>4. it' = IF 1 = Len(list') + 1 THEN End ELSE list'[1]
  <2>1. CASE list = <<>>
    <3>1. Len(list) = 0 BY <2>1, EmptySeq
    <3> QED BY <1>1, <2>1, <3>1 DEF Hook!begin
  <2>2. CASE list # <<>>
    <3>1. Len(list) # 0 /\ Head(list) = list[1] BY <1>2, <2>2, EmptySeq
    <3>2. 1 # Len(list) + 1 BY <1>2, <3>1
    <3> QED BY <1>1, <2>2, <3>1, <3>2 DEF Hook!begin
  <2> QED BY <2>1, <2>2
<1>5. ASSUME NEW i \in 1 .. Len(list') PROVE calls'[list'[i]] = IF i < 1 THEN 1 ELSE 0
  <2>1. list[i] \in Hooks BY <1>1, <1>2, ElementOfSeq
  <2>2. ~(i < 1) BY <1>1, <1>2
  <2> QED BY <1>1, <2>1, <2>2
<1>6. Cursor(1)' BY <1>3, <1>4, <1>5 DEF Cursor
<1>7. Linear' /\ Hook!Linked' = Hook!Linked BY <1>1, <1>2 DEF Linear, Hook!Linked
<1>8. calls' \in [Hooks -> Nat] BY <1>1
<1> QED BY <1>1, <1>3, <1>6, <1>7, <1>8 DEF HookInv

\* Every step.
LEMMA HookNext == End \notin Hooks /\ HookInv /\ [Hook!Next]_(Hook!vars) => HookInv'
<1> SUFFICES ASSUME End \notin Hooks, HookInv, [Hook!Next]_(Hook!vars) PROVE HookInv' OBVIOUS
<1>1. CASE Hook!Dispatch BY <1>1, DispatchStep
<1>2. CASE Hook!Call BY <1>2, CallStep
<1>3. CASE Hook!Return \/ Hook!Done \/ UNCHANGED Hook!vars
  <2>1. /\ UNCHANGED <<list, it, calls, stayed>> /\ hookpc' \in {"idle", "loop", "hook"}
        /\ hookpc' # "idle" => hookpc # "idle"
    BY <1>3 DEF Hook!Return, Hook!Done, Hook!vars, HookInv
  <2>2. Linear' BY <2>1 DEF HookInv, Linear
  <2>3. Hook!Linked' = Hook!Linked BY <2>1 DEF Hook!Linked
  <2>4. \A p : Cursor(p)' <=> Cursor(p) BY <2>1 DEF Cursor
  <2>5. Len(list') = Len(list) BY <2>1
  <2> QED BY <2>1, <2>2, <2>3, <2>4, <2>5 DEF HookInv
<1>4. CASE \E h \in Hooks : Hook!add_hook(h) BY <1>4, AddStep
<1>5. CASE \E h \in Hooks : Hook!unlink(h) BY <1>5, UnlinkStep
<1> QED BY <1>1, <1>2, <1>3, <1>4, <1>5 DEF Hook!Next

\* Each dispatch() calls every hook that stays in the list once, and its iterator never
\* leads nowhere, whatever hooks and however many the hooks add and remove, as long as none
\* removes the one that follows it.
THEOREM HooksAreServedOnce == Spec => []HooksServedOnce
<1>0. End \notin Hooks BY HookAssumption
<1>1. ASSUME Hook!Init PROVE HookInv
  <2>1. list = <<>> /\ hookpc = "idle" /\ stayed = {} /\ calls = [h \in Hooks |-> 0]
    BY <1>1 DEF Hook!Init
  <2>2. list \in Seq(Hooks) /\ Len(list) = 0 BY <2>1, EmptySeq
  <2>3. Linear BY <2>2 DEF Linear
  <2> QED BY <2>1, <2>3 DEF HookInv
<1>2. ASSUME HookInv PROVE Hook!HooksServedOnce
  <2>1. SUFFICES ASSUME hookpc # "idle"
                 PROVE  /\ it \in Hook!Linked \cup {End}
                        /\ \A h \in stayed : calls[h] =
                              IF it = End \/ Hook!Position(h) < Hook!Position(it) THEN 1 ELSE 0
    BY DEF Hook!HooksServedOnce
  <2>2. PICK p \in 1 .. Len(list) + 1 : Cursor(p) BY <1>2, <2>1 DEF HookInv
  <2>3. Linear /\ list \in Seq(Hooks) /\ Len(list) \in Nat /\ stayed \subseteq Hook!Linked
    BY <1>2, LenProperties DEF HookInv, Linear
  <2>4. CASE p = Len(list) + 1
    <3>1. it = End BY <2>2, <2>4 DEF Cursor
    <3>2. ASSUME NEW h \in stayed PROVE calls[h] = 1
      <4>1. PICK i \in 1 .. Len(list) : list[i] = h BY <2>3, LinkedAt
      <4>2. i < p BY <2>3, <2>4
      <4> QED BY <2>2, <4>1, <4>2 DEF Cursor
    <3> QED BY <3>1, <3>2
  <2>5. CASE p # Len(list) + 1
    <3>1. p \in 1 .. Len(list) /\ it = list[p] BY <2>2, <2>3, <2>5 DEF Cursor
    <3>2. it \in Hook!Linked /\ it # End
      <4>1. it \in Hooks BY <2>3, <3>1, ElementOfSeq
      <4> QED BY <1>0, <1>2, <2>3, <3>1, <4>1, LinkedAt
    <3>3. Hook!Position(it) = p BY <2>3, <3>1, PositionOf
    <3>4. ASSUME NEW h \in stayed
          PROVE  calls[h] = IF Hook!Position(h) < p THEN 1 ELSE 0
      <4>1. PICK i \in 1 .. Len(list) : list[i] = h BY <2>3, LinkedAt
      <4>2. Hook!Position(h) = i BY <2>3, <4>1, PositionOf
      <4> QED BY <2>2, <4>1, <4>2 DEF Cursor
    <3> QED BY <3>2, <3>3, <3>4
  <2> QED BY <2>4, <2>5
<1>3. HookInv /\ [Next]_vars => HookInv' BY <1>0, HookNext, StepsOfComponents
<1>4. Init => HookInv BY <1>1 DEF Init
<1>5. HookInv => HooksServedOnce BY <1>2 DEF HooksServedOnce
<1> QED BY <1>3, <1>4, <1>5, PTL DEF Spec

-----------------------------------------------------------------------------
(* Dates *)

\* Division is truncated, which is the same as rounding down unless the dividend is negative.
LEMMA QuotIsDiv ==
    ASSUME NEW a \in Nat, NEW b \in Nat \ {0}
    PROVE  Dates!Quot(a, b) = a \div b
BY DEF Dates!Quot

\* January and February are the last months of a year that begins in March.
LEMMA MonthShift ==
    ASSUME NEW mon \in 1 .. 12
    PROVE  Dates!month_shift(mon) = IF mon <= 2 THEN -1 ELSE 0
<1>1. mon - 14 < 0 /\ -(mon - 14) \in 2 .. 13 OBVIOUS
<1>2. Dates!month_shift(mon) = -((-(mon - 14)) \div 12) BY <1>1 DEF Dates!month_shift, Dates!Quot
<1> QED BY <1>1, <1>2

\* The number of the days before the year that begins in March of y - 4800, before its month m
\* (March is 1), and the days that the centuries leave out.
YearStart(y) == (1461 * y) \div 4
MonthStart(m) == (367 * m) \div 12
Left(y) == (3 * ((y + 100) \div 100)) \div 4

MarchYear(year, mon) == IF mon <= 2 THEN year + 4799 ELSE year + 4800
MarchMonth(mon) == IF mon <= 2 THEN mon + 10 ELSE mon - 2

\* The number of day d of month m of year y.
DayNumber(y, m, d) == d - 32075 + YearStart(y) + MonthStart(m) - Left(y)

LEMMA StartsTypes ==
    ASSUME NEW y \in Nat, NEW m \in 1 .. 12
    PROVE  YearStart(y) \in Int /\ MonthStart(m) \in Int /\ Left(y) \in Int
BY DEF YearStart, MonthStart, Left

LEMMA MarchTypes ==
    ASSUME NEW year \in Nat, NEW mon \in 1 .. 12
    PROVE  MarchYear(year, mon) \in Nat /\ MarchYear(year, mon) >= 4799 /\ MarchMonth(mon) \in 1 .. 12
BY DEF MarchYear, MarchMonth

\* The conversion to a Julian day.
LEMMA JulianDay ==
    ASSUME NEW year \in Nat, NEW mon \in 1 .. 12, NEW mday \in 1 .. 31
    PROVE  Dates!ymd_to_jd(year, mon, mday) = DayNumber(MarchYear(year, mon), MarchMonth(mon), mday)
<1> DEFINE s == Dates!month_shift(mon)
           y == year + 4800 + s
           m == mon - 2 - s * 12
<1>1. s = IF mon <= 2 THEN -1 ELSE 0 BY MonthShift
<1> HIDE DEF s
<1>2. /\ y \in Nat /\ m \in 1 .. 12 /\ year + 4900 + s = y + 100
      /\ y = MarchYear(year, mon) /\ m = MarchMonth(mon)
  BY <1>1 DEF MarchYear, MarchMonth
<1>3. Dates!Quot(1461 * y, 4) = YearStart(y)
  <2>1. 1461 * y \in Nat BY <1>2
  <2> QED BY <2>1, QuotIsDiv DEF YearStart
<1>4. Dates!Quot(367 * m, 12) = MonthStart(m)
  <2>1. 367 * m \in Nat BY <1>2
  <2> QED BY <2>1, QuotIsDiv DEF MonthStart
<1>5. Dates!Quot(3 * Dates!Quot(year + 4900 + s, 100), 4) = Left(y)
  <2>1. y + 100 \in Nat BY <1>2
  <2>2. Dates!Quot(y + 100, 100) = (y + 100) \div 100 BY <2>1, QuotIsDiv
  <2>3. 3 * ((y + 100) \div 100) \in Nat BY <1>2
  <2> HIDE DEF y
  <2>4. Dates!Quot(3 * ((y + 100) \div 100), 4) = (3 * ((y + 100) \div 100)) \div 4
    BY <2>3, QuotIsDiv
  <2> QED BY <1>2, <2>2, <2>4 DEF Left
<1>6. Dates!ymd_to_jd(year, mon, mday)
        = mday - 32075 + Dates!Quot(1461 * y, 4) + Dates!Quot(367 * m, 12)
            - Dates!Quot(3 * Dates!Quot(year + 4900 + s, 100), 4)
  BY DEF Dates!ymd_to_jd, s
<1>7. Dates!ymd_to_jd(year, mon, mday) = DayNumber(y, m, mday)
  BY <1>3, <1>4, <1>5, <1>6 DEF DayNumber
<1> QED BY <1>2, <1>7

LEMMA Months ==
    /\ MonthStart(1) = 30 /\ MonthStart(2) = 61 /\ MonthStart(3) = 91 /\ MonthStart(4) = 122
    /\ MonthStart(5) = 152 /\ MonthStart(6) = 183 /\ MonthStart(7) = 214 /\ MonthStart(8) = 244
    /\ MonthStart(9) = 275 /\ MonthStart(10) = 305 /\ MonthStart(11) = 336 /\ MonthStart(12) = 367
BY DEF MonthStart

\* A year has 365 days, and one more if the next is a leap year.
LEMMA Years ==
    ASSUME NEW y \in Nat
    PROVE  (YearStart(y + 1) - Left(y + 1)) - (YearStart(y) - Left(y))
             = IF Dates!IsLeap(y + 1) THEN 366 ELSE 365
<1>1. YearStart(y + 1) - YearStart(y) = IF (y + 1) % 4 = 0 THEN 366 ELSE 365 BY DEF YearStart
<1>2. Left(y + 1) - Left(y) = IF (y + 1) % 100 = 0 /\ (y + 1) % 400 # 0 THEN 1 ELSE 0
   BY DEF Left
<1>3. (y + 1) % 100 = 0 => (y + 1) % 4 = 0 OBVIOUS
<1>4. YearStart(y + 1) \in Int /\ YearStart(y) \in Int /\ Left(y) \in Int /\ Left(y + 1) \in Int
  BY DEF YearStart, Left
<1> QED BY <1>1, <1>2, <1>3, <1>4 DEF Dates!IsLeap

\* The Gregorian calendar has a period of 400 years.
LEMMA LeapPeriod ==
    ASSUME NEW year \in Nat
    PROVE  Dates!IsLeap(year + 4800) <=> Dates!IsLeap(year)
BY DEF Dates!IsLeap

\* The numbers that the conversion gives to a day and to the next one follow each other.
LEMMA NextJulianDay ==
    ASSUME NEW year \in Nat, NEW mon \in 1 .. 12, NEW mday \in 1 .. Dates!MonthLength(year, mon)
    PROVE  LET jd == Dates!ymd_to_jd(year, mon, mday)
               ends == mday = Dates!MonthLength(year, mon)
           IN  /\ ~ends => Dates!ymd_to_jd(year, mon, mday + 1) = jd + 1
               /\ ends /\ mon # 12 => Dates!ymd_to_jd(year, mon + 1, 1) = jd + 1
               /\ ends /\ mon = 12 => Dates!ymd_to_jd(year + 1, 1, 1) = jd + 1
<1> DEFINE len == Dates!MonthLength(year, mon)
           jd == Dates!ymd_to_jd(year, mon, mday)
           y == MarchYear(year, mon)
           m == MarchMonth(mon)
<1>1. len \in 28 .. 31 /\ mday \in 1 .. 31
  <2>1. len \in 28 .. 31 BY DEF Dates!MonthLength
  <2> HIDE DEF len
  <2>2. mday \in 1 .. len BY DEF len
  <2> QED BY <2>1, <2>2
<1>2. y \in Nat /\ m \in 1 .. 12 BY DEF MarchYear, MarchMonth
<1>3. /\ YearStart(y) \in Int /\ Left(y) \in Int /\ MonthStart(m) \in Int
      /\ YearStart(y + 1) \in Int /\ Left(y + 1) \in Int
  BY <1>2, StartsTypes
<1>4. jd = DayNumber(y, m, mday) BY <1>1, JulianDay
<1>5. ASSUME mday # len PROVE Dates!ymd_to_jd(year, mon, mday + 1) = jd + 1
  <2>1. mday + 1 \in 1 .. 31 BY <1>1, <1>5
  <2>2. Dates!ymd_to_jd(year, mon, mday + 1) = DayNumber(y, m, mday + 1) BY <2>1, JulianDay
  <2> HIDE DEF y, m, jd
  <2> QED BY <1>1, <1>3, <1>4, <2>2 DEF DayNumber
<1>6. ASSUME mday = len, mon \notin {2, 12} PROVE Dates!ymd_to_jd(year, mon + 1, 1) = jd + 1
  <2>1. mon + 1 \in 1 .. 12 /\ 1 \in 1 .. 31 BY <1>6
  <2>2. MarchYear(year, mon + 1) = y /\ MarchMonth(mon + 1) = m + 1
    BY <1>6 DEF MarchYear, MarchMonth
  <2>3. Dates!ymd_to_jd(year, mon + 1, 1) = DayNumber(y, m + 1, 1) BY <2>1, <2>2, JulianDay
  <2>4. MonthStart(m + 1) = MonthStart(m) + len
    BY <1>6, Months DEF Dates!MonthLength, MarchMonth
  <2> HIDE DEF y, m, jd, len
  <2> QED BY <1>1, <1>3, <1>4, <1>6, <2>3, <2>4 DEF DayNumber
<1>7. ASSUME mday = len, mon = 2 PROVE Dates!ymd_to_jd(year, 3, 1) = jd + 1
  <2>1. MarchYear(year, 3) = y + 1 /\ MarchMonth(3) = 1 /\ y + 1 = year + 4800 /\ m = 12
    BY <1>7 DEF MarchYear, MarchMonth
  <2>2. Dates!ymd_to_jd(year, 3, 1) = DayNumber(y + 1, 1, 1)
    <3>1. 3 \in 1 .. 12 /\ 1 \in 1 .. 31 OBVIOUS
    <3> QED BY <2>1, <3>1, JulianDay
  <2>3. (YearStart(y + 1) - Left(y + 1)) - (YearStart(y) - Left(y))
          = IF Dates!IsLeap(year) THEN 366 ELSE 365
    BY <1>2, <2>1, Years, LeapPeriod
  <2>4. len = IF Dates!IsLeap(year) THEN 29 ELSE 28 BY <1>7 DEF Dates!MonthLength
  <2> HIDE DEF y, m, jd, len
  <2> QED BY <1>3, <1>4, <1>7, <2>1, <2>2, <2>3, <2>4, Months DEF DayNumber
<1>8. ASSUME mday = len, mon = 12 PROVE Dates!ymd_to_jd(year + 1, 1, 1) = jd + 1
  <2>1. MarchYear(year + 1, 1) = y /\ MarchMonth(1) = 11 /\ m = 10 /\ len = 31
    BY <1>8 DEF MarchYear, MarchMonth, Dates!MonthLength
  <2>2. Dates!ymd_to_jd(year + 1, 1, 1) = DayNumber(y, 11, 1)
    <3>1. year + 1 \in Nat /\ 1 \in 1 .. 12 /\ 1 \in 1 .. 31 OBVIOUS
    <3> QED BY <2>1, <3>1, JulianDay
  <2> HIDE DEF y, m, jd, len
  <2> QED BY <1>3, <1>4, <1>8, <2>1, <2>2, Months DEF DayNumber
<1> QED BY <1>5, <1>6, <1>7, <1>8

LEMMA YearFound ==
    ASSUME NEW i \in 0 .. 99, NEW e \in 0 .. 365, e = 365 => i % 4 = 3
    PROVE  (4000 * ((1461 * i) \div 4 + e + 1)) \div 1461001 = i
<1> DEFINE a == (1461 * i) \div 4
<1>1. a \in Nat /\ 4 * a <= 1461 * i /\ 1461 * i <= 4 * a + 3 /\ (i % 4 = 3 => 4 * a + 3 = 1461 * i)
  BY SMT
<1> HIDE DEF a
<1>2. 1461001 * i <= 4000 * (a + e + 1) /\ 4000 * (a + e + 1) < 1461001 * i + 1461001
  <2>1. CASE e = 365 BY <1>1, <2>1, SMT
  <2>2. CASE e # 365 BY <1>1, <2>2, SMT
  <2> QED BY <2>1, <2>2, SMT
<1>3. (4000 * (a + e + 1)) \div 1461001 = i BY <1>1, <1>2, SMT
<1> QED BY <1>3, SMT DEF a

\* The month, in the year that begins in March, is found again from the day of that year.
LEMMA MonthFound ==
    ASSUME NEW m \in 1 .. 12, NEW d \in 1 .. 31,
           m = 12 => d <= 29, m \notin {12, 1, 3, 5, 6, 8, 10, 11} => d <= 30
    PROVE  LET l == d + MonthStart(m) IN
           /\ l \in Nat /\ (80 * l) \div 2447 = m /\ l - (2447 * m) \div 80 = d
BY Months, SMT

\* The day is found again from its number.
LEMMA DayFound ==
    ASSUME NEW year \in Nat, NEW mon \in 1 .. 12, NEW mday \in 1 .. Dates!MonthLength(year, mon)
    PROVE  Dates!jd_to_iso(Dates!ymd_to_jd(year, mon, mday)) = Dates!ymd_to_iso(year, mon, mday)
<1> DEFINE jd == Dates!ymd_to_jd(year, mon, mday)
           y == MarchYear(year, mon)
           m == MarchMonth(mon)
           n == (y + 100) \div 100
           i == (y + 100) % 100
           e == mday - 31 + MonthStart(m)
           a == (1461 * i) \div 4
           l0 == jd + 68569
<1>1. y \in Nat /\ y >= 4799 /\ m \in 1 .. 12 BY SMT DEF MarchYear, MarchMonth
<1>2. /\ mday \in 1 .. 31 /\ (m = 12 => mday <= 29)
      /\ m \notin {12, 1, 3, 5, 6, 8, 10, 11} => mday <= 30
      /\ e \in 0 .. 365
      /\ e = 365 => mon = 2 /\ Dates!IsLeap(year)
  <2> DEFINE len == Dates!MonthLength(year, mon)
  <2>1. mday \in 1 .. len OBVIOUS
  <2>2. /\ len \in 28 .. 31 /\ (mon = 2 => len = IF Dates!IsLeap(year) THEN 29 ELSE 28)
        /\ mon \in {4, 6, 9, 11} => len = 30
    BY DEF Dates!MonthLength
  <2>3. m \in 1 .. 12 /\ m = IF mon <= 2 THEN mon + 10 ELSE mon - 2 BY <1>1 DEF MarchMonth
  <2> HIDE DEF len, m
  <2>4. mday \in 1 .. 31 /\ (m = 12 => mday <= 29) BY <2>1, <2>2, <2>3
  <2>5. m \notin {12, 1, 3, 5, 6, 8, 10, 11} => mday <= 30 BY <2>1, <2>2, <2>3
  <2>6. e \in 0 .. 365 /\ (e = 365 => mon = 2 /\ Dates!IsLeap(year))
    BY <2>1, <2>2, <2>3, Months, SMT
  <2> QED BY <2>4, <2>5, <2>6
<1>3. jd = DayNumber(y, m, mday) BY <1>2, JulianDay
<1>4. y + 100 \in Nat BY <1>1
<1>5. YearStart(y) \in Int /\ Left(y) \in Int /\ MonthStart(m) \in Int BY <1>1, StartsTypes
<1>6. e = 365 => y + 1 = year + 4800 /\ Dates!IsLeap(year) BY <1>2, SMT DEF MarchYear
<1>7. m = IF mon <= 2 THEN mon + 10 ELSE mon - 2 BY DEF MarchMonth
<1>8. y = IF mon <= 2 THEN year + 4799 ELSE year + 4800 BY DEF MarchYear
<1> HIDE DEF y, m
<1>9. n \in Nat /\ i \in 0 .. 99 /\ y = 100 * n - 100 + i BY <1>1, SMT
<1>10. Left(y) = (3 * n) \div 4 BY SMT DEF Left
<1> HIDE DEF n, i
<1>11. a \in Nat /\ YearStart(y) = 36525 * n - 36525 + a BY <1>1, <1>9, SMT DEF YearStart
<1>12. e = 365 => i % 4 = 3 /\ (i = 99 => n % 4 = 0)
  BY <1>1, <1>6, <1>9, SMT DEF Dates!IsLeap
<1>13. e \in Int /\ e + 31 = mday + MonthStart(m) BY <1>2, <1>5
<1> HIDE DEF e, jd, a
<1>14. jd = mday - 32075 + YearStart(y) + MonthStart(m) - Left(y) BY <1>3 DEF DayNumber
<1>15. jd \in Int /\ l0 = 36525 * n - (3 * n) \div 4 + a + e
  <2>1. mday \in Int /\ MonthStart(m) \in Int /\ Left(y) \in Int /\ YearStart(y) \in Int
    BY <1>2, <1>5
  <2>2. jd \in Int /\ l0 = YearStart(y) - Left(y) + 36525 + e BY <1>13, <1>14, <2>1, SMT
  <2> QED BY <1>9, <1>10, <1>11, <1>13, <2>1, <2>2, SMT
<1>16. l0 \in Int BY <1>15
<1> HIDE DEF l0
<1>17. /\ l0 \in Nat /\ (4 * l0) \div 146097 = n
       /\ l0 - (146097 * n + 3) \div 4 = a + e
  <2> DEFINE c == (n + 3) \div 4
  <2>1. c \in Int /\ n <= 4 * c /\ 4 * c <= n + 3 /\ (n % 4 = 0 => 4 * c = n) BY <1>9, SMT
  <2>2. 36525 * n - (3 * n) \div 4 = 36524 * n + c BY <1>9, SMT
  <2>3. (146097 * n + 3) \div 4 = 36524 * n + c BY <1>9, SMT
  <2>4. a \in Nat /\ a <= 36159 /\ (i # 99 => a <= 35794) BY <1>9, SMT DEF a
  <2> HIDE DEF c
  <2>5. l0 = 36524 * n + c + a + e BY <1>15, <2>2, SMT
  <2>6. 146097 * n <= 4 * l0 /\ 4 * l0 < 146097 * n + 146097
    <3>1. CASE e # 365 BY <1>2, <1>9, <2>1, <2>4, <2>5, <3>1, SMT
    <3>2. CASE e = 365 /\ i # 99 BY <1>9, <2>1, <2>4, <2>5, <3>2, SMT
    <3>3. CASE e = 365 /\ i = 99 BY <1>9, <1>12, <2>1, <2>4, <2>5, <3>3, SMT
    <3> QED BY <3>1, <3>2, <3>3
  <2>7. (4 * l0) \div 146097 = n BY <1>9, <1>16, <2>6, SMT
  <2>8. l0 \in Nat BY <1>9, <1>13, <1>16, <2>6, SMT
  <2> QED BY <1>9, <1>13, <2>1, <2>3, <2>4, <2>5, <2>7, <2>8, SMT
<1>18. (4000 * (a + e + 1)) \div 1461001 = i BY <1>2, <1>9, <1>12, YearFound, SMT DEF a
<1>19. (80 * (e + 31)) \div 2447 = m /\ (e + 31) - (2447 * m) \div 80 = mday
  BY <1>1, <1>2, <1>13, MonthFound, SMT
<1>20. Dates!Quot(4 * l0, 146097) = n /\ Dates!Quot(146097 * n + 3, 4) = (146097 * n + 3) \div 4
  <2>1. 4 * l0 \in Nat /\ 146097 * n + 3 \in Nat BY <1>9, <1>17, SMT
  <2>2. Dates!Quot(4 * l0, 146097) = (4 * l0) \div 146097 BY <2>1, QuotIsDiv, SMT
  <2>3. Dates!Quot(146097 * n + 3, 4) = (146097 * n + 3) \div 4 BY <2>1, QuotIsDiv, SMT
  <2> QED BY <1>17, <2>2, <2>3, SMT
<1>21. Dates!Quot(4000 * (a + e + 1), 1461001) = i /\ Dates!Quot(1461 * i, 4) = a
  <2>1. 4000 * (a + e + 1) \in Nat /\ 1461 * i \in Nat BY <1>2, <1>9, <1>11, SMT
  <2>2. Dates!Quot(1461 * i, 4) = a BY <2>1, QuotIsDiv, SMT DEF a
  <2> QED BY <1>18, <2>1, <2>2, QuotIsDiv, SMT
<1>22. Dates!Quot(80 * (e + 31), 2447) = m /\ Dates!Quot(2447 * m, 80) = (2447 * m) \div 80
  <2>1. 80 * (e + 31) \in Nat /\ 2447 * m \in Nat BY <1>1, <1>2, SMT
  <2> QED BY <1>19, <2>1, QuotIsDiv, SMT
<1>23. Dates!Quot(m, 11) = IF mon <= 2 THEN 1 ELSE 0
  <2>1. m \in Nat /\ m \div 11 = IF mon <= 2 THEN 1 ELSE 0 BY <1>7, SMT
  <2> QED BY <2>1, QuotIsDiv, SMT
<1> DEFINE k == Dates!Quot(m, 11)
<1>24. Dates!jd_to_iso(jd) = Dates!ymd_to_iso(100 * (n - 49) + i + k, m + 2 - 12 * k, mday)
  <2> DEFINE l1 == l0 - Dates!Quot(146097 * n + 3, 4)
             l2 == l1 - Dates!Quot(1461 * i, 4) + 31
  <2>1. l1 = a + e BY <1>17, <1>20
  <2>2. l2 = e + 31 BY <1>11, <1>13, <1>21, <2>1
  <2>3. Dates!Quot(4000 * (l1 + 1), 1461001) = i BY <1>21, <2>1
  <2>4. Dates!Quot(80 * l2, 2447) = m BY <1>22, <2>2
  <2>5. l2 - Dates!Quot(2447 * m, 80) = mday BY <1>19, <1>22, <2>2
  <2>6. Dates!jd_to_iso(jd) = Dates!ymd_to_iso(100 * (n - 49) + i + k, m + 2 - 12 * k,
                                               l2 - Dates!Quot(2447 * m, 80))
    BY <1>20, <2>3, <2>4, SMT DEF Dates!jd_to_iso, l0
  <2> HIDE DEF l1, l2
  <2> QED BY <2>5, <2>6
<1>25. 100 * (n - 49) + i + k = year /\ m + 2 - 12 * k = mon
  BY <1>7, <1>8, <1>9, <1>23, SMT
<1> QED BY <1>24, <1>25 DEF jd

\* A date is found again from its digits.
LEMMA IsoFound ==
    ASSUME NEW year \in Nat, NEW mon \in 1 .. 12, NEW mday \in 1 .. 31
    PROVE  Dates!iso_to_jd(Dates!ymd_to_iso(year, mon, mday)) = Dates!ymd_to_jd(year, mon, mday)
<1> DEFINE iso == Dates!ymd_to_iso(year, mon, mday)
<1>1. iso = year * 10000 + mon * 100 + mday BY SMT DEF Dates!ymd_to_iso
<1> HIDE DEF iso
<1>2. /\ iso \in Nat /\ iso \div 10000 = year /\ (iso \div 100) % 100 = mon /\ iso % 100 = mday
  <2> DEFINE r == mon * 100 + mday
  <2>1. r \in 0 .. 9999 /\ iso = 10000 * year + r BY <1>1, SMT
  <2>2. iso \in Nat /\ iso \div 10000 = year
    <3> HIDE DEF r
    <3> QED BY <2>1, SMT
  <2> DEFINE q == 100 * year + mon
  <2>3. q \in Nat /\ iso = 100 * q + mday /\ q % 100 = mon BY <1>1, SMT
  <2>4. iso \div 100 = q /\ iso % 100 = mday
    <3> HIDE DEF q
    <3> QED BY <2>3, SMT
  <2> QED BY <2>2, <2>3, <2>4
<1>3. Dates!Quot(iso, 10000) = year /\ Dates!Quot(iso, 100) = iso \div 100 BY <1>2, SMT DEF Dates!Quot
<1>4. Dates!iso_to_jd(iso) = Dates!ymd_to_jd(year, mon, mday) BY <1>2, <1>3, SMT DEF Dates!iso_to_jd
<1> QED BY <1>4 DEF iso

\* The day is one of the calendar from the year 0 on, and has the number and the weekday that
\* the conversion gives to it.
DateInv ==
    /\ day.year \in Nat /\ day.mon \in 1 .. 12
    /\ day.mday \in 1 .. Dates!MonthLength(day.year, day.mon)
    /\ day.jd = Dates!ymd_to_jd(day.year, day.mon, day.mday)
    /\ day.wday = day.jd % 7

\* Lengths of months, and the numbers of the days.
LEMMA DateTypes ==
    ASSUME NEW year \in Nat, NEW mon \in 1 .. 12, NEW mday \in 1 .. Dates!MonthLength(year, mon)
    PROVE  /\ Dates!MonthLength(year, mon) \in 28 .. 31 /\ mday \in 1 .. 31
           /\ Dates!ymd_to_jd(year, mon, mday) \in Int
<1> DEFINE len == Dates!MonthLength(year, mon)
<1>1. len \in 28 .. 31 BY DEF Dates!MonthLength
<1>2. mday \in 1 .. len OBVIOUS
<1> HIDE DEF len
<1>3. mday \in 1 .. 31 BY <1>1, <1>2
<1>4. MarchYear(year, mon) \in Nat /\ MarchMonth(mon) \in 1 .. 12
  BY DEF MarchYear, MarchMonth
<1>5. DayNumber(MarchYear(year, mon), MarchMonth(mon), mday) \in Int
  BY <1>3, <1>4, StartsTypes, SMT DEF DayNumber
<1> QED BY <1>1, <1>3, <1>5, JulianDay DEF len

\* A step keeps it: the calendar and the conversion go to the next day together.
LEMMA DateNext ==
    ASSUME DateInv, Dates!NextDay
    PROVE  DateInv'
<1> DEFINE y == day.year
           m == day.mon
           d == day.mday
           len == Dates!MonthLength(y, m)
           ends == d = len
           yearEnds == ends /\ m = 12
<1>1. y \in Nat /\ m \in 1 .. 12 /\ d \in 1 .. len BY DEF DateInv
<1>2. len \in 28 .. 31 /\ d \in 1 .. 31 /\ day.jd \in Int BY <1>1, DateTypes DEF DateInv
<1>3. /\ day'.mday = IF ends THEN 1 ELSE d + 1
      /\ day'.mon = IF yearEnds THEN 1 ELSE IF ends THEN m + 1 ELSE m
      /\ day'.year = IF yearEnds THEN y + 1 ELSE y
      /\ day'.jd = day.jd + 1 /\ day'.wday = (day.wday + 1) % 7
  BY DEF Dates!NextDay
<1>4. /\ ~ends => Dates!ymd_to_jd(y, m, d + 1) = day.jd + 1
      /\ ends /\ m # 12 => Dates!ymd_to_jd(y, m + 1, 1) = day.jd + 1
      /\ ends /\ m = 12 => Dates!ymd_to_jd(y + 1, 1, 1) = day.jd + 1
  BY <1>1, NextJulianDay DEF DateInv
<1>5. day'.jd % 7 = day'.wday
  <2>1. day.wday = day.jd % 7 BY DEF DateInv
  <2> QED BY <1>2, <1>3, <2>1, SMT
<1>6. /\ day'.year \in Nat /\ day'.mon \in 1 .. 12
  <2> HIDE DEF len, y, m, d
  <2> QED BY <1>1, <1>2, <1>3
<1>7. day'.mday \in 1 .. Dates!MonthLength(day'.year, day'.mon)
  <2>1. CASE ends
    <3>1. Dates!MonthLength(day'.year, day'.mon) \in 28 .. 31 BY DEF Dates!MonthLength
    <3> HIDE DEF len, y, m, d
    <3> QED BY <1>3, <2>1, <3>1
  <2>2. CASE ~ends
    <3>1. day'.year = y /\ day'.mon = m /\ day'.mday = d + 1 BY <1>3, <2>2
    <3>2. d + 1 \in 1 .. len
      <4> HIDE DEF len, y, m, d
      <4> QED BY <1>1, <1>2, <2>2
    <3> QED BY <3>1, <3>2
  <2> QED BY <2>1, <2>2
<1>8. day'.jd = Dates!ymd_to_jd(day'.year, day'.mon, day'.mday)
  <2> HIDE DEF len, y, m, d
  <2> QED BY <1>3, <1>4
<1> QED BY <1>5, <1>6, <1>7, <1>8 DEF DateInv

\* Both conversions give the day that the calendar has, and the weekend is known from the number,
\* on every day from the start on: over month ends, leap days and the turns of centuries,
\* whatever the starts and however many days are counted.
THEOREM DatesDoAgree == Spec => []DatesAgree
<1>1. Init => DateInv
  <2> SUFFICES ASSUME Init PROVE DateInv OBVIOUS
  <2>1. day \in Starts BY DEF Init, Dates!Init
  <2> QED BY <2>1, DateAssumption DEF DateInv
<1>2. DateInv /\ [Next]_vars => DateInv'
  <2> SUFFICES ASSUME DateInv, [Next]_vars PROVE DateInv' OBVIOUS
  <2>1. [Dates!NextDay]_(Dates!vars) BY StepsOfComponents
  <2>2. CASE Dates!NextDay BY <2>2, DateNext
  <2>3. CASE UNCHANGED Dates!vars BY <2>3 DEF Dates!vars, DateInv
  <2> QED BY <2>1, <2>2, <2>3
<1>3. DateInv => DatesAgree
  <2> SUFFICES ASSUME DateInv PROVE Dates!DatesAgree BY DEF DatesAgree
  <2> DEFINE y == day.year
             m == day.mon
             d == day.mday
             iso == Dates!ymd_to_iso(y, m, d)
  <2>1. y \in Nat /\ m \in 1 .. 12 /\ d \in 1 .. Dates!MonthLength(y, m) BY DEF DateInv
  <2>2. d \in 1 .. 31 BY <2>1, DateTypes
  <2>3. day.jd = Dates!ymd_to_jd(y, m, d) BY DEF DateInv
  <2>4. Dates!iso_to_jd(iso) = day.jd BY <2>1, <2>2, <2>3, IsoFound
  <2>5. Dates!jd_to_iso(day.jd) = iso BY <2>1, <2>3, DayFound
  <2>6. Dates!is_week_day(day.jd) <=> day.wday < 5 BY DEF DateInv, Dates!is_week_day
  <2> QED BY <2>4, <2>5, <2>6 DEF Dates!DatesAgree
<1> QED BY <1>1, <1>2, <1>3, PTL DEF Spec

-----------------------------------------------------------------------------
(* Sums over finite sets *)

\* Induction over a finite set: of the subsets with a property one has no smaller one with it.
LEMMA SmallestSet ==
    ASSUME NEW S, IsFiniteSet(S), NEW T, T \subseteq SUBSET S, T # {}
    PROVE  \E s \in T : \A u \in T : u \subseteq s => u = s
<1> DEFINE R == StrictSubsetOrdering(S)
<1>1. IsWellFoundedOn(R, SUBSET S)
  BY FS_StrictSubsetOrderingWellFounded, FS_FiniteSubsetsOfFinite
<1> HIDE DEF R
<1>2. PICK s \in T : \A u \in T : <<u, s>> \notin R BY <1>1, WFMin
<1>3. ASSUME NEW u \in T, u \subseteq s PROVE u = s
  <2>1. u \in SUBSET S /\ s \in SUBSET S /\ <<u, s>> \notin R BY <1>2
  <2>2. <<u, s>> \in (SUBSET S) \X (SUBSET S) /\ <<u, s>>[1] = u /\ <<u, s>>[2] = s BY <2>1
  <2> QED BY <1>3, <2>1, <2>2 DEF R, StrictSubsetOrdering
<1> QED BY <1>3

\* The order in which a sum takes the elements, and the function by which it is computed.
First(s) == CHOOSE x \in s : TRUE
Computes(f, S, g) ==
    g = [s \in SUBSET S |-> IF s = {} THEN 0 ELSE f[First(s)] + g[s \ {First(s)}]]

LEMMA FirstIn ==
    ASSUME NEW s, s # {}
    PROVE  First(s) \in s
BY DEF First

Sum(f, S) == (CHOOSE g : Computes(f, S, g))[S]

\* It is the sum of the rate limiter and of the histogram.
LEMMA SumIs ==
    ASSUME NEW f, NEW S
    PROVE  Rate!SumFunctionOnSet(f, S) = Sum(f, S) /\ Histo!SumFunctionOnSet(f, S) = Sum(f, S)
BY DEF Rate!SumFunctionOnSet, Rate!FoldFunctionOnSet, Rate!MapThenFoldSet,
       Histo!SumFunctionOnSet, Histo!FoldFunctionOnSet, Histo!MapThenFoldSet, Computes, First, Sum

LEMMA ComputesAt ==
    ASSUME NEW f, NEW S, NEW g, Computes(f, S, g), NEW s \in SUBSET S
    PROVE  g[s] = IF s = {} THEN 0 ELSE f[First(s)] + g[s \ {First(s)}]
<1> DEFINE h == [u \in SUBSET S |-> IF u = {} THEN 0 ELSE f[First(u)] + g[u \ {First(u)}]]
<1>1. g = h BY DEF Computes
<1>2. h[s] = IF s = {} THEN 0 ELSE f[First(s)] + g[s \ {First(s)}] OBVIOUS
<1> HIDE DEF h
<1> QED BY <1>1, <1>2

\* It does not matter which set the function is defined on.
LEMMA ComputesUnique ==
    ASSUME NEW f, NEW S, NEW T, NEW g, NEW h, Computes(f, S, g), Computes(f, T, h),
           NEW s, s \subseteq S, s \subseteq T, IsFiniteSet(s)
    PROVE  g[s] = h[s]
<1> SUFFICES ASSUME g[s] # h[s] PROVE FALSE OBVIOUS
<1> DEFINE U == {u \in SUBSET s : g[u] # h[u]}
<1>1. U \subseteq SUBSET s /\ U # {} OBVIOUS
<1>2. PICK u \in U : \A v \in U : v \subseteq u => v = u
  <2> HIDE DEF U
  <2> QED BY <1>1, SmallestSet
<1>3. u \in SUBSET S /\ u \in SUBSET T BY <1>2
<1>4. /\ g[u] = IF u = {} THEN 0 ELSE f[First(u)] + g[u \ {First(u)}]
      /\ h[u] = IF u = {} THEN 0 ELSE f[First(u)] + h[u \ {First(u)}]
  BY <1>3, ComputesAt
<1>5. u # {} BY <1>2, <1>4
<1>6. First(u) \in u BY <1>5, FirstIn
<1>7. g[u \ {First(u)}] = h[u \ {First(u)}] BY <1>2, <1>6
<1> QED BY <1>2, <1>4, <1>5, <1>7

LEMMA ComputesExists ==
    ASSUME NEW f, NEW S, IsFiniteSet(S)
    PROVE  \E g : Computes(f, S, g)
<1> SUFFICES ASSUME ~ \E g : Computes(f, S, g) PROVE FALSE OBVIOUS
<1> DEFINE U == {u \in SUBSET S : ~ \E g : Computes(f, u, g)}
<1>1. U \subseteq SUBSET S /\ U # {} OBVIOUS
<1>2. PICK s \in U : \A v \in U : v \subseteq s => v = s
  <2> HIDE DEF U
  <2> QED BY <1>1, SmallestSet
<1> DEFINE F(u) == CHOOSE g : Computes(f, u, g)
           G(u) == F(u)[u]
           g == [u \in SUBSET s |-> IF u # s THEN G(u)
                                    ELSE IF s = {} THEN 0 ELSE f[First(s)] + G(s \ {First(s)})]
<1>3. ASSUME NEW u \in SUBSET s, u # s PROVE Computes(f, u, F(u))
  BY <1>2, <1>3
<1>4. ASSUME NEW u \in SUBSET s, u # s, u # {}
      PROVE  G(u) = f[First(u)] + G(u \ {First(u)})
  <2> DEFINE v == u \ {First(u)}
  <2>1. First(u) \in u BY <1>4, FirstIn
  <2>2. v \in SUBSET s /\ v # s /\ v \subseteq u BY <2>1
  <2>3. Computes(f, u, F(u)) /\ Computes(f, v, F(v)) BY <1>3, <1>4, <2>2
  <2>4. IsFiniteSet(v) BY <1>2, <2>2, FS_Subset
  <2> HIDE DEF F
  <2>5. F(u)[u] = f[First(u)] + F(u)[v] BY <1>4, <2>3, ComputesAt
  <2> HIDE DEF v
  <2>6. F(u)[v] = F(v)[v] BY <2>2, <2>3, <2>4, ComputesUnique
  <2> QED BY <2>5, <2>6 DEF v
<1>5. ASSUME {} # s PROVE G({}) = 0
  <2>1. {} \in SUBSET s OBVIOUS
  <2>2. Computes(f, {}, F({})) BY <1>3, <1>5, <2>1
  <2> HIDE DEF F
  <2> QED BY <2>2, ComputesAt
<1> HIDE DEF G
<1>6. ASSUME NEW u \in SUBSET s
      PROVE  g[u] = IF u = {} THEN 0 ELSE f[First(u)] + g[u \ {First(u)}]
  <2>1. CASE u = {} BY <1>5, <2>1
  <2>2. CASE u # {}
    <3>1. First(u) \in u BY <2>2, FirstIn
    <3>2. u \ {First(u)} \in SUBSET s /\ u \ {First(u)} # s BY <3>1
    <3>3. g[u \ {First(u)}] = G(u \ {First(u)}) BY <3>2
    <3>4. g[u] = f[First(u)] + G(u \ {First(u)}) BY <1>4, <2>2
    <3> QED BY <2>2, <3>3, <3>4
  <2> QED BY <2>1, <2>2
<1>7. Computes(f, s, g)
  <2> DEFINE h == [u \in SUBSET s |-> IF u = {} THEN 0 ELSE f[First(u)] + g[u \ {First(u)}]]
  <2>1. g = [u \in SUBSET s |-> g[u]] OBVIOUS
  <2> HIDE DEF g
  <2>2. [u \in SUBSET s |-> g[u]] = h BY <1>6
  <2>3. g = h BY <2>1, <2>2
  <2> QED BY <2>3 DEF Computes
<1> HIDE DEF g
<1> QED BY <1>2, <1>7

\* The sum of the empty set, and of another one without the first element.
LEMMA SumFirst ==
    ASSUME NEW f, NEW S, IsFiniteSet(S)
    PROVE  Sum(f, S) = IF S = {} THEN 0 ELSE f[First(S)] + Sum(f, S \ {First(S)})
<1> DEFINE v == S \ {First(S)}
           F(u) == CHOOSE g : Computes(f, u, g)
<1>1. IsFiniteSet(v) /\ v \subseteq S BY FS_Subset
<1>2. Computes(f, S, F(S)) /\ Computes(f, v, F(v))
  <2> HIDE DEF v
  <2> QED BY <1>1, ComputesExists
<1>3. Sum(f, S) = F(S)[S] /\ Sum(f, v) = F(v)[v]
  <2> HIDE DEF v
  <2> QED BY DEF Sum
<1> HIDE DEF F
<1>4. F(S)[S] = IF S = {} THEN 0 ELSE f[First(S)] + F(S)[v]
  <2> DEFINE g == F(S)
  <2>1. Computes(f, S, g) BY <1>2
  <2> HIDE DEF g
  <2>2. \A s \in SUBSET S : g[s] = IF s = {} THEN 0 ELSE f[First(s)] + g[s \ {First(s)}]
    BY <2>1, ComputesAt
  <2>3. S \in SUBSET S OBVIOUS
  <2>4. g[S] = IF S = {} THEN 0 ELSE f[First(S)] + g[v] BY <2>2, <2>3
  <2> QED BY <2>4 DEF g
<1>5. F(S)[v] = F(v)[v]
  <2> HIDE DEF v
  <2> QED BY <1>1, <1>2, ComputesUnique
<1> QED BY <1>3, <1>4, <1>5


LEMMA SumType ==
    ASSUME NEW f, NEW S, IsFiniteSet(S), \A x \in S : f[x] \in Int
    PROVE  Sum(f, S) \in Int
<1> SUFFICES ASSUME Sum(f, S) \notin Int PROVE FALSE OBVIOUS
<1> DEFINE U == {u \in SUBSET S : Sum(f, u) \notin Int}
<1>1. U \subseteq SUBSET S /\ U # {} OBVIOUS
<1>2. PICK s \in U : \A v \in U : v \subseteq s => v = s
  <2> HIDE DEF U
  <2> QED BY <1>1, SmallestSet
<1> DEFINE v == s \ {First(s)}
<1>3. IsFiniteSet(s) BY <1>2, FS_Subset
<1>4. Sum(f, s) = IF s = {} THEN 0 ELSE f[First(s)] + Sum(f, v)
  BY <1>3, SumFirst
<1>5. s # {} BY <1>2, <1>4
<1>6. First(s) \in s BY <1>5, FirstIn
<1>7. Sum(f, v) \in Int BY <1>2, <1>6
<1>8. f[First(s)] \in Int BY <1>2, <1>6
<1> HIDE DEF v
<1> QED BY <1>2, <1>4, <1>5, <1>7, <1>8

\* Any element may be taken out of a sum.
LEMMA SumElement ==
    ASSUME NEW f, NEW S, IsFiniteSet(S), \A y \in S : f[y] \in Int, NEW x \in S
    PROVE  Sum(f, S) = f[x] + Sum(f, S \ {x})
<1> DEFINE sum(s) == Sum(f, s)
           U == {u \in SUBSET S : \E y \in u : sum(u) # f[y] + sum(u \ {y})}
<1> SUFFICES ASSUME sum(S) # f[x] + sum(S \ {x}) PROVE FALSE OBVIOUS
<1>1. U \subseteq SUBSET S /\ U # {} OBVIOUS
<1>2. PICK s \in U : \A v \in U : v \subseteq s => v = s
  <2> HIDE DEF U
  <2> QED BY <1>1, SmallestSet
<1>3. PICK y \in s : sum(s) # f[y] + sum(s \ {y}) BY <1>2
<1> DEFINE p == First(s)
           both == s \ {p, y}
<1>4. s \subseteq S /\ IsFiniteSet(s) BY <1>2, FS_Subset
<1>5. p \in s BY <1>3, FirstIn
<1>6. sum(s) = f[p] + sum(s \ {p}) BY <1>3, <1>4, SumFirst
<1>7. p # y BY <1>3, <1>6
<1>8. s \ {p} \in SUBSET S /\ s \ {p} \notin U /\ s \ {y} \in SUBSET S /\ s \ {y} \notin U
  <2> HIDE DEF U
  <2> QED BY <1>2, <1>3, <1>4, <1>5
<1>9. (s \ {p}) \ {y} = both /\ (s \ {y}) \ {p} = both OBVIOUS
<1>10. sum(s \ {p}) = f[y] + sum((s \ {p}) \ {y}) BY <1>3, <1>7, <1>8
<1>11. sum(s \ {y}) = f[p] + sum((s \ {y}) \ {p}) BY <1>5, <1>7, <1>8
<1>12. sum(both) \in Int
  <2>1. IsFiniteSet(both) /\ both \subseteq S BY <1>4, FS_Subset
  <2> HIDE DEF both
  <2> QED BY <2>1, SumType
<1>13. f[p] \in Int /\ f[y] \in Int BY <1>3, <1>4, <1>5
<1> HIDE DEF sum, p, both
<1>14. sum(s) = f[p] + (f[y] + sum(both)) BY <1>6, <1>9, <1>10
<1>15. f[y] + sum(s \ {y}) = f[y] + (f[p] + sum(both)) BY <1>9, <1>11
<1> QED BY <1>3, <1>12, <1>13, <1>14, <1>15

\* A sum of zeros.
LEMMA SumZero ==
    ASSUME NEW f, NEW S, IsFiniteSet(S), \A x \in S : f[x] = 0
    PROVE  Sum(f, S) = 0
<1> DEFINE sum(s) == Sum(f, s)
           U == {u \in SUBSET S : sum(u) # 0}
<1> SUFFICES ASSUME sum(S) # 0 PROVE FALSE OBVIOUS
<1>1. U \subseteq SUBSET S /\ U # {} OBVIOUS
<1>2. PICK s \in U : \A v \in U : v \subseteq s => v = s
  <2> HIDE DEF U
  <2> QED BY <1>1, SmallestSet
<1>3. IsFiniteSet(s) BY <1>2, FS_Subset
<1>4. sum(s) = IF s = {} THEN 0 ELSE f[First(s)] + sum(s \ {First(s)}) BY <1>3, SumFirst
<1>5. s # {} BY <1>2, <1>4
<1>6. First(s) \in s BY <1>5, FirstIn
<1>7. sum(s \ {First(s)}) = 0 BY <1>2, <1>6
<1>8. f[First(s)] = 0 BY <1>2, <1>6
<1> HIDE DEF sum
<1> QED BY <1>2, <1>4, <1>5, <1>7, <1>8

\* A sum may be taken over other indices, and zeros left out.
LEMMA SumReindexed ==
    ASSUME NEW f, NEW g, NEW h, NEW S, NEW T, IsFiniteSet(S), IsFiniteSet(T),
           \A x \in S : h[x] \in T /\ f[x] \in Int /\ g[h[x]] = f[x],
           \A x, y \in S : h[x] = h[y] => x = y,
           \A z \in T : (\A x \in S : h[x] # z) => g[z] = 0
    PROVE  Sum(f, S) = Sum(g, T)
<1> DEFINE fsum(s) == Sum(f, s)
           gsum(s) == Sum(g, s)
           left(s) == {z \in T : \A x \in S \ s : h[x] # z}
           U == {u \in SUBSET S : fsum(u) # gsum(left(u))}
<1>1. left(S) = T OBVIOUS
<1> SUFFICES ASSUME fsum(S) # gsum(left(S)) PROVE FALSE BY <1>1
<1>2. U \subseteq SUBSET S /\ U # {} OBVIOUS
<1>3. PICK s \in U : \A v \in U : v \subseteq s => v = s
  <2> HIDE DEF U
  <2> QED BY <1>2, SmallestSet
<1>4. s \subseteq S /\ IsFiniteSet(s) BY <1>3, FS_Subset
<1>5. left(s) \subseteq T /\ IsFiniteSet(left(s)) BY FS_Subset
<1>6. \A z \in left(s) : g[z] \in Int
  <2> SUFFICES ASSUME NEW z \in left(s) PROVE g[z] \in Int OBVIOUS
  <2>1. CASE \E x \in S : h[x] = z BY <2>1
  <2>2. CASE \A x \in S : h[x] # z BY <2>2
  <2> QED BY <2>1, <2>2
<1>7. CASE s = {}
  <2>1. \A z \in left(s) : g[z] = 0 BY <1>7
  <2>2. gsum(left(s)) = 0
    <3> HIDE DEF left
    <3> QED BY <1>5, <2>1, SumZero
  <2>3. fsum(s) = 0 BY <1>4, <1>7, SumFirst
  <2> QED BY <1>3, <2>2, <2>3
<1>8. CASE s # {}
  <2>1. PICK x \in s : TRUE BY <1>8
  <2>2. x \in S /\ h[x] \in left(s) BY <1>4, <2>1
  <2>3. left(s \ {x}) = left(s) \ {h[x]} BY <1>4, <2>1
  <2>4. fsum(s) = f[x] + fsum(s \ {x}) BY <1>4, <2>1, SumElement
  <2>5. gsum(left(s)) = g[h[x]] + gsum(left(s) \ {h[x]})
    <3> HIDE DEF left
    <3> QED BY <1>5, <1>6, <2>2, SumElement
  <2>6. fsum(s \ {x}) = gsum(left(s \ {x})) BY <1>3, <1>4, <2>1
  <2> HIDE DEF left, fsum, gsum
  <2>7. g[h[x]] = f[x] BY <2>2
  <2>8. fsum(s) = gsum(left(s)) BY <2>3, <2>4, <2>5, <2>6, <2>7
  <2> QED BY <1>3, <2>8 DEF fsum, gsum, left
<1> QED BY <1>7, <1>8

\* The sum depends on the values in the set only.
LEMMA SumSame ==
    ASSUME NEW f, NEW g, NEW S, IsFiniteSet(S), \A x \in S : f[x] \in Int /\ g[x] = f[x]
    PROVE  Sum(f, S) = Sum(g, S)
<1> DEFINE h == [x \in S |-> x]
<1>1. \A x \in S : h[x] = x OBVIOUS
<1> HIDE DEF h
<1>2. /\ \A x \in S : h[x] \in S /\ f[x] \in Int /\ g[h[x]] = f[x]
      /\ \A x, y \in S : h[x] = h[y] => x = y
      /\ \A z \in S : (\A x \in S : h[x] # z) => g[z] = 0
  BY <1>1
<1> QED BY <1>2, SumReindexed

\* A sum of two parts.
LEMMA SumParts ==
    ASSUME NEW f, NEW S, IsFiniteSet(S), \A x \in S : f[x] \in Int, NEW A, A \subseteq S
    PROVE  Sum(f, S) = Sum(f, A) + Sum(f, S \ A)
<1> DEFINE sum(s) == Sum(f, s)
           U == {u \in SUBSET A : sum(S) # sum(u) + sum(S \ u)}
<1> SUFFICES ASSUME sum(S) # sum(A) + sum(S \ A) PROVE FALSE OBVIOUS
<1>0. IsFiniteSet(A) BY FS_Subset
<1>1. U \subseteq SUBSET A /\ U # {} OBVIOUS
<1>2. PICK s \in U : \A v \in U : v \subseteq s => v = s
  <2> HIDE DEF U
  <2> QED BY <1>0, <1>1, SmallestSet
<1>3. s \subseteq S /\ IsFiniteSet(s) BY <1>2, FS_Subset
<1>4. \A u \in SUBSET S : sum(u) \in Int
  <2> SUFFICES ASSUME NEW u \in SUBSET S PROVE sum(u) \in Int OBVIOUS
  <2>1. IsFiniteSet(u) BY FS_Subset
  <2> QED BY <2>1, SumType
<1>5. CASE s = {}
  <2>1. sum(s) = 0 BY <1>3, <1>5, SumFirst
  <2>2. S \ s = S BY <1>5
  <2>3. sum(S) \in Int /\ sum(S \ s) = sum(S) BY <1>4, <2>2
  <2>4. sum(S) = sum(s) + sum(S \ s) BY <2>1, <2>3
  <2> QED BY <1>2, <2>4
<1>6. CASE s # {}
  <2>1. PICK x \in s : TRUE BY <1>6
  <2> DEFINE v == s \ {x}
  <2>2. sum(s) = f[x] + sum(v) BY <1>3, <2>1, SumElement
  <2>3. v \notin U /\ v \in SUBSET A
    <3>1. v \in SUBSET A BY <1>2
    <3>2. v \subseteq s /\ v # s BY <2>1
    <3> HIDE DEF U
    <3> QED BY <1>2, <3>1, <3>2
  <2>4. sum(S) = sum(v) + sum(S \ v) BY <2>3
  <2>5. x \in S \ v /\ (S \ v) \ {x} = S \ s BY <1>3, <2>1
  <2>6. IsFiniteSet(S \ v) BY FS_Subset
  <2>7. sum(S \ v) = f[x] + sum((S \ v) \ {x})
    <3> HIDE DEF v
    <3> QED BY <2>5, <2>6, SumElement
  <2>8. sum((S \ v) \ {x}) = sum(S \ s) BY <2>5
  <2>9. sum(v) \in Int /\ sum(S \ s) \in Int /\ f[x] \in Int BY <1>3, <1>4, <2>1
  <2>10. sum(S) = sum(s) + sum(S \ s) BY <2>2, <2>4, <2>7, <2>8, <2>9
  <2> QED BY <1>2, <2>10
<1> QED BY <1>5, <1>6

-----------------------------------------------------------------------------
(* The rate limiter *)

\* The seconds of the window.
Window == {t \in 0 .. MaxTime : t > last - Interval /\ t <= last}
Slots == 0 .. Interval - 1

\* The total is the sum of the buckets; each second of the window has its count in its bucket,
\* the buckets of no second are empty, and so are the seconds to come.
RateInv ==
    /\ last \in 0 .. MaxTime
    /\ buckets \in [Slots -> Int]
    /\ added \in [0 .. MaxTime -> Int]
    /\ count = Sum(buckets, Slots)
    /\ \A t \in Window : buckets[Rate!at(t)] = added[t]
    /\ \A i \in Slots : (\A t \in Window : Rate!at(t) # i) => buckets[i] = 0
    /\ \A t \in 0 .. MaxTime : t > last => added[t] = 0

LEMMA AtSlot ==
    ASSUME NEW t \in Int
    PROVE  Rate!at(t) \in Slots /\ Rate!at(t + Interval) = Rate!at(t)
<1> USE RateAssumption
<1>1. t % Interval \in Slots BY DivMod DEF Slots
<1> DEFINE q == t \div Interval
           r == t % Interval
<1>2. q \in Int /\ r \in 0 .. Interval - 1 /\ t = Interval * q + r BY DivMod
<1> HIDE DEF q, r
<1>3. t + Interval = Interval * (q + 1) + r BY <1>2
<1>4. q + 1 \in Int /\ t + Interval \in Int BY <1>2
<1>5. (t + Interval) % Interval = r BY <1>2, <1>3, <1>4, DivModIs
<1> QED BY <1>1, <1>5 DEF Rate!at, r

\* Two seconds less than a window apart have different buckets.
LEMMA AtDistinct ==
    ASSUME NEW t \in Int, NEW s \in Int, t # s, t - s < Interval, s - t < Interval
    PROVE  Rate!at(t) # Rate!at(s)
<1> USE RateAssumption
<1>1. CASE t < s
  <2>1. s < t + Interval BY <1>1
  <2> QED BY <1>1, <2>1, ModDistinct DEF Rate!at
<1>2. CASE s < t
  <2>1. t < s + Interval BY <1>2
  <2> QED BY <1>2, <2>1, ModDistinct DEF Rate!at
<1> QED BY <1>1, <1>2

LEMMA SlotsFinite == IsFiniteSet(Slots) /\ IsFiniteSet(Window)
<1>1. IsFiniteSet(Slots)
  <2>1. Interval - 1 \in Int BY RateAssumption
  <2> QED BY <2>1, FS_Interval DEF Slots
<1>2. IsFiniteSet(0 .. MaxTime) BY RateAssumption, FS_Interval
<1>3. Window \subseteq 0 .. MaxTime BY DEF Window
<1> QED BY <1>1, <1>2, <1>3, FS_Subset

\* The buckets are those of the seconds of the window, and so is their sum.
LEMMA RateInvSum ==
    ASSUME RateInv
    PROVE  Rate!RateIsWindowSum
<1> USE RateAssumption
<1> DEFINE h == [t \in Window |-> Rate!at(t)]
<1>1. \A t \in Window : t \in Int /\ t \in 0 .. MaxTime /\ h[t] = Rate!at(t) BY DEF Window
<1> HIDE DEF h
<1>2. \A t \in Window : h[t] \in Slots /\ added[t] \in Int /\ buckets[h[t]] = added[t]
  <2> SUFFICES ASSUME NEW t \in Window
               PROVE  h[t] \in Slots /\ added[t] \in Int /\ buckets[h[t]] = added[t]
    OBVIOUS
  <2>1. t \in Int /\ h[t] = Rate!at(t) /\ t \in 0 .. MaxTime BY <1>1
  <2>2. Rate!at(t) \in Slots BY <2>1, AtSlot
  <2> QED BY <2>1, <2>2 DEF RateInv
<1>3. \A t, s \in Window : h[t] = h[s] => t = s
  <2> SUFFICES ASSUME NEW t \in Window, NEW s \in Window, t # s PROVE h[t] # h[s] OBVIOUS
  <2>1. t \in Int /\ s \in Int /\ t - s < Interval /\ s - t < Interval BY DEF Window, RateInv
  <2> QED BY <1>1, <2>1, AtDistinct
<1>4. \A i \in Slots : (\A t \in Window : h[t] # i) => buckets[i] = 0 BY <1>1 DEF RateInv
<1>5. Sum(added, Window) = Sum(buckets, Slots)
  BY <1>2, <1>3, <1>4, SlotsFinite, SumReindexed
<1> QED BY <1>5, SumIs DEF RateInv, Rate!RateIsWindowSum, Window

\* What a new count of the second t needs: the times go on, and the seconds to come are empty.
LEMMA RateTypes ==
    ASSUME RateInv, NEW t \in last .. MaxTime, NEW n \in Counts, Rate!add(t, n)
    PROVE  /\ last \in Int /\ t \in Int /\ t \in 0 .. MaxTime /\ n \in Int /\ last' = t
           /\ Rate!at(t) \in Slots
           /\ added' \in [0 .. MaxTime -> Int]
           /\ added'[t] = added[t] + n /\ \A s \in 0 .. MaxTime : s # t => added'[s] = added[s]
           /\ \A s \in 0 .. MaxTime : s > t => added'[s] = 0
           /\ t > last => added'[t] = n
<1> USE RateAssumption
<1>1. last \in Int /\ t \in Int /\ t \in 0 .. MaxTime /\ n \in Int /\ last' = t /\ last <= t
  BY DEF RateInv, Rate!add
<1>2. Rate!at(t) \in Slots BY <1>1, AtSlot
<1>3. added' = [added EXCEPT ![t] = @ + n] /\ added \in [0 .. MaxTime -> Int]
  BY DEF RateInv, Rate!add
<1>4. /\ added' \in [0 .. MaxTime -> Int] /\ added'[t] = added[t] + n
      /\ \A s \in 0 .. MaxTime : s # t => added'[s] = added[s]
  BY <1>1, <1>3
<1>5. \A s \in 0 .. MaxTime : s > last => added[s] = 0 BY DEF RateInv
<1>6. \A s \in 0 .. MaxTime : s > t => added'[s] = 0 BY <1>1, <1>4, <1>5
<1>7. t > last => added'[t] = n BY <1>1, <1>4, <1>5
<1> QED BY <1>1, <1>2, <1>4, <1>6, <1>7

\* Another count in the same second.
LEMMA SameSecond ==
    ASSUME RateInv, NEW t \in last .. MaxTime, NEW n \in Counts, Rate!add(t, n), t = last
    PROVE  RateInv'
<1> USE RateAssumption
<1> DEFINE k == Rate!at(t)
           rest == Slots \ {k}
<1>1. /\ last \in Int /\ t \in Int /\ t \in 0 .. MaxTime /\ n \in Int /\ last' = t
      /\ k \in Slots /\ added' \in [0 .. MaxTime -> Int]
      /\ added'[t] = added[t] + n /\ \A s \in 0 .. MaxTime : s # t => added'[s] = added[s]
      /\ \A s \in 0 .. MaxTime : s > t => added'[s] = 0
  BY RateTypes
<1>2. count' = count + n /\ buckets' = [buckets EXCEPT ![k] = @ + n] BY DEF Rate!add
<1>3. buckets \in [Slots -> Int] BY DEF RateInv
<1> HIDE DEF k
<1>4. /\ buckets' \in [Slots -> Int] /\ buckets'[k] = buckets[k] + n
      /\ \A i \in Slots : i # k => buckets'[i] = buckets[i]
  BY <1>1, <1>2, <1>3
<1>5. Window' = Window BY <1>1 DEF Window
<1>6. count' = Sum(buckets', Slots)
  <2>1. Sum(buckets, Slots) = buckets[k] + Sum(buckets, rest)
    BY <1>1, <1>3, SlotsFinite, SumElement
  <2>2. Sum(buckets', Slots) = buckets'[k] + Sum(buckets', rest)
    BY <1>1, <1>4, SlotsFinite, SumElement
  <2>3. IsFiniteSet(rest) /\ \A i \in rest : buckets[i] \in Int /\ buckets'[i] = buckets[i]
    BY <1>3, <1>4, SlotsFinite, FS_Subset
  <2> HIDE DEF rest
  <2>4. Sum(buckets, rest) = Sum(buckets', rest)
    BY <2>3, SumSame
  <2>5. Sum(buckets, rest) \in Int BY <2>3, SumType
  <2>6. buckets[k] \in Int BY <1>1, <1>3
  <2>7. count = Sum(buckets, Slots) BY DEF RateInv
  <2> QED BY <1>1, <1>2, <1>4, <2>1, <2>2, <2>4, <2>5, <2>6, <2>7
<1>7. t \in Window BY <1>1 DEF Window
<1>8. ASSUME NEW s \in Window PROVE buckets'[Rate!at(s)] = added'[s]
  <2>1. s \in Int /\ s \in 0 .. MaxTime /\ t - s < Interval /\ s - t < Interval BY <1>1 DEF Window
  <2>2. Rate!at(s) \in Slots BY <2>1, AtSlot
  <2>3. buckets[Rate!at(s)] = added[s] BY DEF RateInv
  <2>4. CASE s = t BY <1>1, <1>4, <2>3, <2>4 DEF k
  <2>5. CASE s # t
    <3>1. Rate!at(s) # k BY <1>1, <2>1, <2>5, AtDistinct DEF k
    <3> QED BY <1>1, <1>4, <2>1, <2>2, <2>3, <2>5, <3>1
  <2> QED BY <2>4, <2>5
<1>9. ASSUME NEW i \in Slots, \A s \in Window : Rate!at(s) # i PROVE buckets'[i] = 0
  BY <1>4, <1>7, <1>9 DEF k, RateInv
<1> QED BY <1>1, <1>4, <1>5, <1>6, <1>8, <1>9 DEF RateInv, Slots

\* The first count after a whole window without any.
LEMMA LaterWindow ==
    ASSUME RateInv, NEW t \in last .. MaxTime, NEW n \in Counts, Rate!add(t, n),
           t - last >= Interval
    PROVE  RateInv'
<1> USE RateAssumption
<1> DEFINE k == Rate!at(t)
           rest == Slots \ {k}
<1>1. /\ last \in Int /\ t \in Int /\ t \in 0 .. MaxTime /\ n \in Int /\ last' = t
      /\ k \in Slots /\ added' \in [0 .. MaxTime -> Int]
      /\ \A s \in 0 .. MaxTime : s # t => added'[s] = added[s]
      /\ \A s \in 0 .. MaxTime : s > t => added'[s] = 0
      /\ t > last => added'[t] = n
  BY RateTypes
<1>2. t > last BY <1>1
<1>3. count' = n /\ buckets' = [i \in DOMAIN buckets |-> IF i = k THEN n ELSE 0]
  BY <1>1, <1>2 DEF Rate!add
<1> HIDE DEF k
<1>4. buckets' \in [Slots -> Int] /\ \A i \in Slots : buckets'[i] = IF i = k THEN n ELSE 0
  BY <1>1, <1>3 DEF RateInv
<1>5. count' = Sum(buckets', Slots)
  <2>1. Sum(buckets', Slots) = buckets'[k] + Sum(buckets', rest)
    BY <1>1, <1>4, SlotsFinite, SumElement
  <2>2. IsFiniteSet(rest) /\ \A i \in rest : buckets'[i] = 0
    BY <1>4, SlotsFinite, FS_Subset
  <2> HIDE DEF rest
  <2>3. Sum(buckets', rest) = 0 BY <2>2, SumZero
  <2> QED BY <1>1, <1>3, <1>4, <2>1, <2>3
<1>6. ASSUME NEW s \in Window' PROVE buckets'[Rate!at(s)] = added'[s]
  <2>1. s \in Int /\ s \in 0 .. MaxTime /\ t - s < Interval /\ s <= t /\ s > last
    BY <1>1 DEF Window
  <2>2. Rate!at(s) \in Slots BY <2>1, AtSlot
  <2>3. CASE s = t BY <1>1, <1>2, <1>4, <2>3 DEF k
  <2>4. CASE s # t
    <3>1. Rate!at(s) # k BY <1>1, <2>1, <2>4, AtDistinct DEF k
    <3>2. added[s] = 0 BY <2>1 DEF RateInv
    <3> QED BY <1>1, <1>4, <2>1, <2>2, <2>4, <3>1, <3>2
  <2> QED BY <2>3, <2>4
<1>7. t \in Window' BY <1>1 DEF Window
<1>8. ASSUME NEW i \in Slots, \A s \in Window' : Rate!at(s) # i PROVE buckets'[i] = 0
  BY <1>4, <1>7, <1>8 DEF k
<1> QED BY <1>1, <1>4, <1>5, <1>6, <1>8 DEF RateInv, Slots

\* A count less than a window later: the buckets of the seconds that were skipped are emptied.
LEMMA SameWindow ==
    ASSUME RateInv, NEW t \in last .. MaxTime, NEW n \in Counts, Rate!add(t, n),
           t > last, t - last < Interval
    PROVE  RateInv'
<1> USE RateAssumption
<1> DEFINE k == Rate!at(t)
           skipped == {Rate!at(s) : s \in last + 1 .. t - 1}
           others == Slots \ {k}
           rest == others \ skipped
<1>1. /\ last \in Int /\ t \in Int /\ t \in 0 .. MaxTime /\ n \in Int /\ last' = t
      /\ k \in Slots /\ added' \in [0 .. MaxTime -> Int]
      /\ \A s \in 0 .. MaxTime : s # t => added'[s] = added[s]
      /\ \A s \in 0 .. MaxTime : s > t => added'[s] = 0
      /\ added'[t] = n
  BY RateTypes
<1>2. /\ count' = count + n - buckets[k] - Sum(buckets, skipped)
      /\ buckets' = [i \in DOMAIN buckets |->
                        IF i = k THEN n ELSE IF i \in skipped THEN 0 ELSE buckets[i]]
  <2>1. Rate!Advance(t, n) BY <1>1 DEF Rate!add
  <2>2. Rate!SumFunctionOnSet(buckets, skipped) = Sum(buckets, skipped) BY SumIs
  <2> QED BY <2>1, <2>2 DEF Rate!Advance
<1>3. buckets \in [Slots -> Int] /\ last >= 0 BY DEF RateInv
<1>4. skipped \subseteq others
  <2> SUFFICES ASSUME NEW s \in last + 1 .. t - 1 PROVE Rate!at(s) \in Slots /\ Rate!at(s) # k
    OBVIOUS
  <2>1. s \in Int /\ s # t /\ s - t < Interval /\ t - s < Interval BY <1>1
  <2> QED BY <1>1, <2>1, AtSlot, AtDistinct
<1>5. \A s \in last + 1 .. t - 1 : Rate!at(s) \in skipped OBVIOUS
<1>6. \A i \in skipped : \E s \in last + 1 .. t - 1 : i = Rate!at(s) OBVIOUS
<1> HIDE DEF k, skipped
<1>7. /\ buckets' \in [Slots -> Int]
      /\ \A i \in Slots : buckets'[i] = IF i = k THEN n ELSE IF i \in skipped THEN 0 ELSE buckets[i]
  BY <1>1, <1>2, <1>3
<1>8. count' = Sum(buckets', Slots)
  <2>1. /\ IsFiniteSet(others) /\ IsFiniteSet(skipped) /\ IsFiniteSet(rest)
        /\ \A i \in others : buckets[i] \in Int /\ buckets'[i] \in Int
        /\ \A i \in skipped : buckets[i] \in Int /\ buckets'[i] = 0
        /\ \A i \in rest : buckets[i] \in Int /\ buckets'[i] = buckets[i]
    <3>1. IsFiniteSet(others) BY SlotsFinite, FS_Subset
    <3>2. IsFiniteSet(skipped) /\ IsFiniteSet(rest)
      <4> HIDE DEF others
      <4> QED BY <1>4, <3>1, FS_Subset
    <3> QED BY <1>3, <1>4, <1>7, <3>1, <3>2
  <2>2. Sum(buckets, Slots) = buckets[k] + Sum(buckets, others)
    BY <1>1, <1>3, SlotsFinite, SumElement
  <2>3. Sum(buckets', Slots) = buckets'[k] + Sum(buckets', others)
    BY <1>1, <1>7, SlotsFinite, SumElement
  <2> HIDE DEF others
  <2>4. Sum(buckets, others)
          = Sum(buckets, skipped) + Sum(buckets, rest)
    BY <1>4, <2>1, SumParts
  <2>5. Sum(buckets', others)
          = Sum(buckets', skipped) + Sum(buckets', rest)
    BY <1>4, <2>1, SumParts
  <2> HIDE DEF rest
  <2>6. Sum(buckets', skipped) = 0 BY <2>1, SumZero
  <2>7. Sum(buckets, rest) = Sum(buckets', rest)
    BY <2>1, SumSame
  <2>8. Sum(buckets, rest) \in Int /\ Sum(buckets, skipped) \in Int
    BY <2>1, SumType
  <2>9. buckets[k] \in Int /\ buckets'[k] = n BY <1>1, <1>3, <1>7
  <2>10. count = Sum(buckets, Slots) BY DEF RateInv
  <2> QED BY <1>1, <1>2, <2>2, <2>3, <2>4, <2>5, <2>6, <2>7, <2>8, <2>9, <2>10
<1>9. ASSUME NEW s \in Window' PROVE buckets'[Rate!at(s)] = added'[s]
  <2>1. s \in Int /\ s \in 0 .. MaxTime /\ t - s < Interval /\ s <= t BY <1>1 DEF Window
  <2>2. Rate!at(s) \in Slots BY <2>1, AtSlot
  <2>3. CASE s = t BY <1>1, <1>7, <2>3 DEF k
  <2>4. s # t => Rate!at(s) # k BY <1>1, <2>1, AtDistinct DEF k
  <2>5. CASE s # t /\ s > last
    <3>1. added'[s] = 0 BY <1>1, <2>1, <2>5 DEF RateInv
    <3>2. Rate!at(s) \in skipped BY <1>1, <1>5, <2>1, <2>5
    <3> QED BY <1>7, <2>2, <2>4, <2>5, <3>1, <3>2
  <2>6. CASE s <= last
    <3>1. s # t /\ s \in Window BY <1>1, <2>1, <2>6 DEF Window
    <3>2. Rate!at(s) \notin skipped
      <4> SUFFICES ASSUME NEW r \in last + 1 .. t - 1 PROVE Rate!at(s) # Rate!at(r) BY <1>6
      <4>1. r \in Int /\ s # r /\ s - r < Interval /\ r - s < Interval BY <1>1, <2>1, <2>6
      <4> QED BY <2>1, <4>1, AtDistinct
    <3>3. buckets[Rate!at(s)] = added[s] BY <3>1 DEF RateInv
    <3> QED BY <1>1, <1>7, <2>1, <2>2, <2>4, <3>1, <3>2, <3>3
  <2> QED BY <1>1, <2>1, <2>3, <2>5, <2>6
<1>10. t \in Window' /\ \A s \in last + 1 .. t - 1 : s \in Window' BY <1>1, <1>3 DEF Window
<1>11. ASSUME NEW i \in Slots, \A s \in Window' : Rate!at(s) # i PROVE buckets'[i] = 0
  <2>1. i # k /\ i \notin skipped BY <1>6, <1>10, <1>11 DEF k
  <2>2. \A s \in Window : Rate!at(s) # i
    <3> SUFFICES ASSUME NEW s \in Window, Rate!at(s) = i PROVE FALSE OBVIOUS
    <3>1. s \in Int /\ s \in 0 .. MaxTime /\ s > last - Interval /\ s <= last /\ s \notin Window'
      BY <1>11 DEF Window
    <3>2. s <= t - Interval BY <1>1, <3>1 DEF Window
    <3>3. s + Interval \in last + 1 .. t BY <1>1, <3>1, <3>2
    <3>4. Rate!at(s + Interval) = i BY <3>1, AtSlot
    <3>5. s + Interval \in Window' BY <1>1, <1>10, <3>3
    <3> QED BY <1>11, <3>4, <3>5
  <2> QED BY <1>7, <2>1, <2>2 DEF RateInv
<1> QED BY <1>1, <1>7, <1>8, <1>9, <1>11 DEF RateInv, Slots

\* count() is the number of the events in the window of the last Interval seconds, for every
\* length of the window, whatever counts come when, and however many seconds are skipped.
THEOREM RateCountsWindow == Spec => []RateIsWindowSum
<1> USE RateAssumption
<1>1. Init => RateInv
  <2> SUFFICES ASSUME Init PROVE RateInv OBVIOUS
  <2>1. /\ buckets = [i \in Slots |-> 0] /\ count = 0 /\ last = 0
        /\ added = [t \in 0 .. MaxTime |-> 0]
    BY DEF Init, Rate!Init, Slots
  <2>2. buckets \in [Slots -> Int] /\ \A i \in Slots : buckets[i] = 0 BY <2>1
  <2>3. added \in [0 .. MaxTime -> Int] /\ \A t \in 0 .. MaxTime : added[t] = 0 BY <2>1
  <2>4. Sum(buckets, Slots) = 0 BY <2>2, SlotsFinite, SumZero
  <2>5. ASSUME NEW t \in Window PROVE buckets[Rate!at(t)] = added[t]
    <3>1. t \in 0 .. MaxTime /\ t \in Int BY DEF Window
    <3>2. Rate!at(t) \in Slots BY <3>1, AtSlot
    <3> QED BY <2>2, <2>3, <3>1, <3>2
  <2> QED BY <2>1, <2>2, <2>3, <2>4, <2>5 DEF RateInv
<1>2. RateInv /\ [Next]_vars => RateInv'
  <2> SUFFICES ASSUME RateInv, [Next]_vars PROVE RateInv' OBVIOUS
  <2>1. [Rate!Next]_(Rate!vars) BY StepsOfComponents
  <2>2. CASE UNCHANGED Rate!vars BY <2>2 DEF Rate!vars, RateInv, Window, Slots
  <2>3. CASE Rate!Next
    <3>1. PICK t \in last .. MaxTime, n \in Counts : Rate!add(t, n) BY <2>3 DEF Rate!Next
    <3>2. CASE t = last BY <3>1, <3>2, SameSecond
    <3>3. CASE t > last /\ t - last < Interval BY <3>1, <3>3, SameWindow
    <3>4. CASE t > last /\ t - last >= Interval BY <3>1, <3>4, LaterWindow
    <3> QED BY <3>1, <3>2, <3>3, <3>4 DEF Rate!add
  <2> QED BY <2>1, <2>2, <2>3
<1>3. RateInv => RateIsWindowSum BY RateInvSum DEF RateIsWindowSum
<1> QED BY <1>1, <1>2, <1>3, PTL DEF Spec

-----------------------------------------------------------------------------
(* Induction over numbers *)

\* Of the numbers with a property one is the least.
LEMMA LeastNumber ==
    ASSUME NEW T, T \subseteq Nat, T # {}
    PROVE  \E x \in T : \A y \in T : x <= y
<1> DEFINE R == {ss \in Nat \X Nat : ss[1] < ss[2]}
<1>1. IsWellFoundedOn(R, Nat) BY NatLessThanWellFounded DEF OpToRel
<1>2. PICK x \in T : \A y \in T : <<y, x>> \notin R
  <2> HIDE DEF R
  <2> QED BY <1>1, WFMin
<1>3. ASSUME NEW y \in T PROVE x <= y
  <2>1. x \in Nat /\ y \in Nat /\ <<y, x>> \notin R BY <1>2
  <2>2. <<y, x>> \in Nat \X Nat /\ <<y, x>>[1] = y /\ <<y, x>>[2] = x BY <2>1
  <2>3. ~(y < x) BY <2>1, <2>2
  <2> QED BY <2>1, <2>3
<1> QED BY <1>3

-----------------------------------------------------------------------------
(* Frames *)

\* A length is found again from the bytes of its header.
LEMMA LengthFound ==
    ASSUME NEW len \in Nat, len < Base * Base * Base * Base
    PROVE  /\ Frame!put_length(len) \in Seq(Nat) /\ Len(Frame!put_length(len)) = 4
           /\ Frame!get_length(Frame!put_length(len)) = len
<1> USE FrameAssumption
<1> DEFINE a == len \div Base
           b == a \div Base
           c == b \div Base
<1>1. a \in Int /\ len % Base \in 0 .. Base - 1 /\ len = Base * a + (len % Base) BY DivMod
<1>2. a \in Nat BY <1>1
<1> HIDE DEF a
<1>3. b \in Int /\ a % Base \in 0 .. Base - 1 /\ a = Base * b + (a % Base) BY <1>2, DivMod
<1>4. b \in Nat BY <1>2, <1>3
<1> HIDE DEF b
<1>5. c \in Int /\ b % Base \in 0 .. Base - 1 /\ b = Base * c + (b % Base) BY <1>4, DivMod
<1>6. c \in Nat BY <1>4, <1>5
<1> HIDE DEF c
<1>7. c < Base
  <2>1. len >= Base * a /\ a >= Base * b /\ b >= Base * c BY <1>1, <1>2, <1>3, <1>4, <1>5, <1>6
  <2> SUFFICES ASSUME c >= Base PROVE FALSE BY <1>6
  <2> DEFINE sq == Base * Base
             cube == Base * sq
  <2>2. Base * c >= sq /\ Base * b \in Nat /\ Base * a \in Nat BY <1>2, <1>4, <1>6
  <2>3. b >= sq /\ sq \in Nat BY <1>4, <1>6, <2>1, <2>2
  <2>4. Base * cube = Base * Base * Base * Base OBVIOUS
  <2> HIDE DEF sq
  <2>5. Base * b >= cube /\ cube \in Nat BY <1>4, <2>3
  <2> HIDE DEF cube
  <2>6. a >= cube BY <1>2, <2>1, <2>2, <2>5
  <2>7. Base * a >= Base * cube /\ Base * cube \in Nat BY <1>2, <2>5, <2>6
  <2> QED BY <1>2, <2>1, <2>2, <2>4, <2>7
<1>8. c % Base = c BY <1>6, <1>7
<1> DEFINE h == Frame!put_length(len)
<1>9. h = <<len % Base, a % Base, b % Base, c % Base>> BY DEF Frame!put_length, a, b, c
<1> HIDE DEF h
<1>10. h \in Seq(Nat) /\ Len(h) = 4 BY <1>1, <1>3, <1>5, <1>6, <1>8, <1>9
<1>11. Frame!get_length(h) = (len % Base) + Base * ((a % Base) + Base * ((b % Base) + Base * c))
  BY <1>8, <1>9 DEF Frame!get_length
<1>12. (b % Base) + Base * c = b BY <1>5, <1>6
<1>13. (a % Base) + Base * b = a BY <1>2, <1>3, <1>4
<1>14. (len % Base) + Base * a = len BY <1>1, <1>2
<1>15. Frame!get_length(h) = len BY <1>11, <1>12, <1>13, <1>14
<1> QED BY <1>10, <1>15 DEF h

\* The function by which FlattenSeq() joins the first n sequences.
Joins(seqs, n, g) == g = [i \in 1 .. n |-> IF i = 1 THEN seqs[i] ELSE g[i - 1] \o seqs[i]]

LEMMA FlattenIsJoin ==
    ASSUME NEW seqs, Len(seqs) # 0
    PROVE  Frame!FlattenSeq(seqs) = (CHOOSE g : Joins(seqs, Len(seqs), g))[Len(seqs)]
BY DEF Frame!FlattenSeq, Joins

LEMMA JoinsAt ==
    ASSUME NEW seqs, NEW n, NEW g, Joins(seqs, n, g), NEW i \in 1 .. n
    PROVE  g[i] = IF i = 1 THEN seqs[i] ELSE g[i - 1] \o seqs[i]
<1> DEFINE h == [j \in 1 .. n |-> IF j = 1 THEN seqs[j] ELSE g[j - 1] \o seqs[j]]
<1>1. g = h BY DEF Joins
<1>2. h[i] = IF i = 1 THEN seqs[i] ELSE g[i - 1] \o seqs[i] OBVIOUS
<1> HIDE DEF h
<1> QED BY <1>1, <1>2

LEMMA JoinsUnique ==
    ASSUME NEW s, NEW t, NEW m \in Nat, NEW n \in Nat, NEW g, NEW h,
           Joins(s, m, g), Joins(t, n, h), NEW k \in Nat \ {0}, k <= m, k <= n,
           \A i \in 1 .. k : s[i] = t[i]
    PROVE  g[k] = h[k]
<1> SUFFICES ASSUME g[k] # h[k] PROVE FALSE OBVIOUS
<1> DEFINE U == {i \in 1 .. k : g[i] # h[i]}
<1>1. U \subseteq Nat /\ U # {} OBVIOUS
<1>2. PICK i \in U : \A j \in U : i <= j
  <2> HIDE DEF U
  <2> QED BY <1>1, LeastNumber
<1>3. i \in 1 .. m /\ i \in 1 .. n /\ i \in 1 .. k BY <1>2
<1>4. /\ g[i] = IF i = 1 THEN s[i] ELSE g[i - 1] \o s[i]
      /\ h[i] = IF i = 1 THEN t[i] ELSE h[i - 1] \o t[i]
  BY <1>3, JoinsAt
<1>5. i # 1 => g[i - 1] = h[i - 1] BY <1>2, <1>3
<1> QED BY <1>2, <1>3, <1>4, <1>5

LEMMA JoinsExists ==
    ASSUME NEW seqs, NEW n \in Nat
    PROVE  \E g : Joins(seqs, n, g)
<1> SUFFICES ASSUME ~ \E g : Joins(seqs, n, g) PROVE FALSE OBVIOUS
<1> DEFINE U == {m \in Nat : ~ \E g : Joins(seqs, m, g)}
<1>1. U \subseteq Nat /\ U # {} OBVIOUS
<1>2. PICK m \in U : \A j \in U : m <= j
  <2> HIDE DEF U
  <2> QED BY <1>1, LeastNumber
<1>3. m # 0
  <2>1. Joins(seqs, 0, [i \in 1 .. 0 |-> seqs[i]]) BY DEF Joins
  <2> QED BY <1>2, <2>1
<1>4. PICK h : Joins(seqs, m - 1, h)
  <2>1. m - 1 \in Nat /\ ~(m <= m - 1) BY <1>2, <1>3
  <2> QED BY <1>2, <2>1
<1> DEFINE g == [i \in 1 .. m |-> IF i # m THEN h[i]
                                  ELSE IF i = 1 THEN seqs[i] ELSE h[i - 1] \o seqs[i]]
<1>5. ASSUME NEW i \in 1 .. m PROVE g[i] = IF i = 1 THEN seqs[i] ELSE g[i - 1] \o seqs[i]
  <2>1. i # 1 => i - 1 \in 1 .. m /\ g[i - 1] = h[i - 1] BY <1>2
  <2>2. CASE i = m BY <2>1, <2>2
  <2>3. CASE i # m
    <3>1. i \in 1 .. m - 1 BY <1>2, <2>3
    <3>2. h[i] = IF i = 1 THEN seqs[i] ELSE h[i - 1] \o seqs[i] BY <1>4, <3>1, JoinsAt
    <3> QED BY <2>1, <2>3, <3>2
  <2> QED BY <2>2, <2>3
<1>6. Joins(seqs, m, g)
  <2> DEFINE f == [i \in 1 .. m |-> IF i = 1 THEN seqs[i] ELSE g[i - 1] \o seqs[i]]
  <2>1. g = [i \in 1 .. m |-> g[i]] OBVIOUS
  <2> HIDE DEF g
  <2>2. [i \in 1 .. m |-> g[i]] = f BY <1>5
  <2>3. g = f BY <2>1, <2>2
  <2> QED BY <2>3 DEF Joins
<1> HIDE DEF g
<1> QED BY <1>2, <1>6

\* The bytes of a message, of the first m messages, and their number.
FrameOf(i) == Frame!put_length(Lengths[i]) \o Frame!Body(i)
Flat(m) == Frame!FlattenSeq([i \in 1 .. m |-> FrameOf(i)])
EndOf(m) == Len(Flat(m))
Sent == Len(Lengths)

LEMMA FlatStep ==
    ASSUME NEW m \in Nat \ {0}
    PROVE  Flat(m) = IF m = 1 THEN FrameOf(1) ELSE Flat(m - 1) \o FrameOf(m)
<1> DEFINE s == [i \in 1 .. m |-> FrameOf(i)]
           t == [i \in 1 .. m - 1 |-> FrameOf(i)]
           F(u) == CHOOSE g : Joins(u, Len(u), g)
<1>1. Len(s) = m /\ \A i \in 1 .. m : s[i] = FrameOf(i) OBVIOUS
<1>2. Len(t) = m - 1 /\ \A i \in 1 .. m - 1 : t[i] = FrameOf(i) OBVIOUS
<1> HIDE DEF s, t
<1>3. Joins(s, m, F(s)) /\ Joins(t, m - 1, F(t))
  <2>1. m - 1 \in Nat OBVIOUS
  <2> QED BY <1>1, <1>2, <2>1, JoinsExists
<1>4. Flat(m) = F(s)[m] /\ (m # 1 => Flat(m - 1) = F(t)[m - 1])
  <2>1. Flat(m) = F(s)[m] BY <1>1, FlattenIsJoin DEF Flat, s
  <2>2. ASSUME m # 1 PROVE Flat(m - 1) = F(t)[m - 1]
    <3>1. Flat(m - 1) = Frame!FlattenSeq(t) BY DEF Flat, t
    <3>2. Len(t) # 0 BY <1>2, <2>2
    <3>3. Frame!FlattenSeq(t) = F(t)[Len(t)] BY <3>2, FlattenIsJoin
    <3> QED BY <1>2, <3>1, <3>3
  <2> QED BY <2>1, <2>2
<1> HIDE DEF F
<1> DEFINE g == F(s)
           h == F(t)
<1>5. Joins(s, m, g) /\ Joins(t, m - 1, h) BY <1>3
<1>6. Flat(m) = g[m] /\ (m # 1 => Flat(m - 1) = h[m - 1]) BY <1>4
<1> HIDE DEF g, h
<1>7. g[m] = IF m = 1 THEN s[m] ELSE g[m - 1] \o s[m]
  <2>1. m \in 1 .. m OBVIOUS
  <2> QED BY <1>5, <2>1, JoinsAt
<1>8. ASSUME m # 1 PROVE g[m - 1] = h[m - 1]
  <2>1. m - 1 \in Nat \ {0} /\ m - 1 \in Nat /\ m - 1 <= m BY <1>8
  <2>2. \A i \in 1 .. m - 1 : s[i] = t[i] BY <1>1, <1>2
  <2> QED BY <1>5, <2>1, <2>2, JoinsUnique
<1> QED BY <1>1, <1>6, <1>7, <1>8

LEMMA FrameOfType ==
    ASSUME NEW m \in 1 .. Sent
    PROVE  /\ Lengths[m] \in Nat
           /\ Frame!Body(m) \in Seq(Nat) /\ Len(Frame!Body(m)) = Lengths[m]
           /\ FrameOf(m) \in Seq(Nat) /\ Len(FrameOf(m)) = 4 + Lengths[m]
           /\ \A i \in 1 .. 4 : FrameOf(m)[i] = Frame!put_length(Lengths[m])[i]
           /\ \A i \in 1 .. Lengths[m] : FrameOf(m)[4 + i] = Frame!Body(m)[i]
<1> USE FrameAssumption
<1>1. Lengths[m] \in Nat /\ Lengths[m] < Base * Base * Base * Base BY DEF Sent
<1> DEFINE b == Frame!Body(m)
           h == Frame!put_length(Lengths[m])
           len == Lengths[m]
<1>2. h \in Seq(Nat) /\ Len(h) = 4 BY <1>1, LengthFound
<1>3. b = [k \in 1 .. len |-> Base + 100 * m + k] BY DEF Frame!Body
<1> HIDE DEF b, h, len
<1>4. len \in Nat BY <1>1 DEF len
<1>5. \A k \in 1 .. len : Base + 100 * m + k \in Nat BY <1>4 DEF Sent
<1>6. b \in Seq(Nat) /\ Len(b) = len BY <1>3, <1>4, <1>5
<1>7. /\ h \o b \in Seq(Nat) /\ Len(h \o b) = 4 + len
      /\ \A i \in 1 .. 4 + len : (h \o b)[i] = IF i <= 4 THEN h[i] ELSE b[i - 4]
  <2>1. /\ h \o b \in Seq(Nat) /\ Len(h \o b) = Len(h) + Len(b)
        /\ \A i \in 1 .. Len(h) + Len(b) : (h \o b)[i] = IF i <= Len(h) THEN h[i] ELSE b[i - Len(h)]
    BY <1>2, <1>6, ConcatProperties
  <2> QED BY <1>2, <1>6, <2>1
<1>8. ASSUME NEW i \in 1 .. 4 PROVE (h \o b)[i] = h[i]
  <2>1. i \in 1 .. 4 + len /\ i <= 4 BY <1>4
  <2> QED BY <1>7, <2>1
<1>9. ASSUME NEW i \in 1 .. len PROVE (h \o b)[4 + i] = b[i]
  <2>1. 4 + i \in 1 .. 4 + len /\ ~(4 + i <= 4) /\ (4 + i) - 4 = i BY <1>4
  <2> QED BY <1>7, <2>1
<1> QED BY <1>4, <1>6, <1>7, <1>8, <1>9 DEF FrameOf, b, h, len

LEMMA FlatEmpty == Flat(0) = <<>> /\ EndOf(0) = 0
<1> DEFINE s == [i \in 1 .. 0 |-> FrameOf(i)]
<1>1. s = <<>> OBVIOUS
<1>2. Flat(0) = s BY <1>1 DEF Flat, Frame!FlattenSeq
<1> QED BY <1>1, <1>2 DEF EndOf

LEMMA FlatType ==
    ASSUME NEW m \in 0 .. Sent
    PROVE  Flat(m) \in Seq(Nat) /\ EndOf(m) \in Nat
<1> SUFFICES Flat(m) \in Seq(Nat) BY LenProperties DEF EndOf
<1> SUFFICES ASSUME Flat(m) \notin Seq(Nat) PROVE FALSE OBVIOUS
<1>0. Sent \in Nat BY FrameAssumption DEF Sent
<1> DEFINE U == {i \in 0 .. Sent : Flat(i) \notin Seq(Nat)}
<1>1. U \subseteq Nat /\ U # {} OBVIOUS
<1>2. PICK i \in U : \A j \in U : i <= j
  <2> HIDE DEF U
  <2> QED BY <1>1, LeastNumber
<1>3. i \in 0 .. Sent BY <1>2
<1>4. i # 0
  <2>1. Flat(0) \in Seq(Nat) BY FlatEmpty, EmptySeq
  <2> QED BY <1>2, <2>1
<1>5. i - 1 \in 0 .. Sent /\ i \in 1 .. Sent /\ i \in Nat \ {0} /\ ~(i <= i - 1) BY <1>0, <1>3, <1>4
<1>6. Flat(i - 1) \in Seq(Nat) BY <1>2, <1>5
<1>7. FrameOf(i) \in Seq(Nat) BY <1>5, FrameOfType
<1>8. Flat(i - 1) \o FrameOf(i) \in Seq(Nat) BY <1>6, <1>7
<1>9. Flat(i) = IF i = 1 THEN FrameOf(1) ELSE Flat(i - 1) \o FrameOf(i) BY <1>5, FlatStep
<1> QED BY <1>2, <1>7, <1>8, <1>9

\* Each message follows the one before.
LEMMA FlatNext ==
    ASSUME NEW m \in 1 .. Sent
    PROVE  /\ EndOf(m - 1) \in Nat /\ EndOf(m) = EndOf(m - 1) + 4 + Lengths[m]
           /\ \A i \in 1 .. EndOf(m - 1) : Flat(m)[i] = Flat(m - 1)[i]
           /\ \A i \in 1 .. 4 + Lengths[m] : Flat(m)[EndOf(m - 1) + i] = FrameOf(m)[i]
<1> DEFINE s == Flat(m - 1)
           t == FrameOf(m)
<1>0. Sent \in Nat BY FrameAssumption DEF Sent
<1>1. m - 1 \in 0 .. Sent /\ m \in Nat \ {0} BY <1>0
<1>2. s \in Seq(Nat) BY <1>1, FlatType
<1>3. t \in Seq(Nat) /\ Len(t) = 4 + Lengths[m] /\ Lengths[m] \in Nat BY FrameOfType
<1>4. Flat(m) = s \o t
  <2>1. CASE m = 1
    <3>1. s = <<>> BY <2>1, FlatEmpty
    <3>2. Flat(m) = t BY <1>1, <2>1, FlatStep
    <3> QED BY <1>3, <3>1, <3>2, ConcatEmptySeq
  <2>2. CASE m # 1 BY <1>1, <2>2, FlatStep
  <2> QED BY <2>1, <2>2
<1>5. EndOf(m - 1) = Len(s) BY DEF EndOf
<1> HIDE DEF s, t
<1>6. /\ Len(s \o t) = Len(s) + Len(t) /\ Len(s) \in Nat
      /\ \A i \in 1 .. Len(s) + Len(t) : (s \o t)[i] = IF i <= Len(s) THEN s[i] ELSE t[i - Len(s)]
  BY <1>2, <1>3, ConcatProperties, LenProperties
<1>7. EndOf(m) = Len(s) + Len(t) BY <1>4, <1>6 DEF EndOf
<1>8. \A i \in 1 .. Len(s) : Flat(m)[i] = s[i] BY <1>3, <1>4, <1>6
<1>9. ASSUME NEW i \in 1 .. Len(t) PROVE Flat(m)[Len(s) + i] = t[i]
  <2> DEFINE a == Len(s)
             c == Len(t)
  <2>1. a \in Nat /\ c \in Nat BY <1>3, <1>6
  <2> HIDE DEF a, c
  <2>2. i \in 1 .. c BY DEF c
  <2>3. a + i \in 1 .. a + c /\ ~(a + i <= a) /\ (a + i) - a = i BY <2>1, <2>2
  <2> QED BY <1>4, <1>6, <2>3 DEF a, c
<1>10. EndOf(m - 1) \in Nat /\ EndOf(m) = EndOf(m - 1) + 4 + Lengths[m]
  <2> DEFINE e == EndOf(m - 1)
             f == EndOf(m)
             a == Len(s)
             b == Len(t)
             c == Lengths[m]
  <2>1. e = a /\ a \in Nat /\ f = a + b /\ b = 4 + c /\ c \in Nat BY <1>3, <1>5, <1>6, <1>7
  <2> HIDE DEF a, b, c, e, f
  <2>2. e \in Nat /\ f = e + 4 + c BY <2>1
  <2> QED BY <2>2 DEF e, f, c
<1>11. \A i \in 1 .. EndOf(m - 1) : Flat(m)[i] = s[i] BY <1>5, <1>8
<1>12. \A i \in 1 .. 4 + Lengths[m] : Flat(m)[EndOf(m - 1) + i] = t[i] BY <1>3, <1>5, <1>9
<1> QED BY <1>10, <1>11, <1>12 DEF s, t

\* The stream begins with the first m messages, whatever m is.
LEMMA FlatPrefix ==
    ASSUME NEW m \in 0 .. Sent
    PROVE  \A n \in m .. Sent : EndOf(m) <= EndOf(n) /\ \A i \in 1 .. EndOf(m) : Flat(n)[i] = Flat(m)[i]
<1> DEFINE P(n) == EndOf(m) <= EndOf(n) /\ \A i \in 1 .. EndOf(m) : Flat(n)[i] = Flat(m)[i]
           U == {n \in m .. Sent : ~P(n)}
<1> SUFFICES ASSUME U # {} PROVE FALSE OBVIOUS
<1>0. Sent \in Nat BY FrameAssumption DEF Sent
<1>1. U \subseteq Nat BY <1>0
<1>2. PICK n \in U : \A j \in U : n <= j
  <2> HIDE DEF U
  <2> QED BY <1>1, LeastNumber
<1>3. n \in m .. Sent /\ ~P(n) BY <1>2
<1>4. EndOf(m) \in Nat BY FlatType
<1>5. n # m BY <1>3, <1>4
<1>6. n - 1 \in m .. Sent /\ n \in 1 .. Sent /\ ~(n <= n - 1) BY <1>0, <1>3, <1>5
<1>7. P(n - 1)
  <2> HIDE DEF P
  <2> QED BY <1>2, <1>6
<1>8. /\ EndOf(n - 1) \in Nat /\ EndOf(n) = EndOf(n - 1) + 4 + Lengths[n]
      /\ \A i \in 1 .. EndOf(n - 1) : Flat(n)[i] = Flat(n - 1)[i]
      /\ Lengths[n] \in Nat
  BY <1>6, FlatNext, FrameOfType
<1>9. EndOf(m) <= EndOf(n - 1) /\ \A i \in 1 .. EndOf(m) : Flat(n - 1)[i] = Flat(m)[i] BY <1>7
<1>10. EndOf(m) <= EndOf(n) BY <1>4, <1>8, <1>9
<1>11. \A i \in 1 .. EndOf(m) : Flat(n)[i] = Flat(m)[i] BY <1>4, <1>8, <1>9
<1> QED BY <1>3, <1>10, <1>11

\* Where the bytes of message m are in the stream.
LEMMA StreamAt ==
    ASSUME NEW m \in 1 .. Sent
    PROVE  /\ EndOf(m - 1) \in Nat /\ EndOf(m) = EndOf(m - 1) + 4 + Lengths[m]
           /\ EndOf(m) <= Len(Frame!Stream)
           /\ \A i \in 1 .. 4 : Frame!Stream[EndOf(m - 1) + i] = Frame!put_length(Lengths[m])[i]
           /\ \A i \in 1 .. Lengths[m] : Frame!Stream[EndOf(m - 1) + 4 + i] = Frame!Body(m)[i]
<1>0. Sent \in Nat /\ DOMAIN Lengths = 1 .. Sent BY FrameAssumption DEF Sent
<1>1. Frame!Stream = Flat(Sent) BY <1>0 DEF Frame!Stream, Flat, FrameOf
<1>2. Sent \in m .. Sent /\ m \in 0 .. Sent BY <1>0
<1>3. EndOf(m) <= EndOf(Sent) /\ \A i \in 1 .. EndOf(m) : Flat(Sent)[i] = Flat(m)[i]
  BY <1>2, FlatPrefix
<1>4. /\ EndOf(m - 1) \in Nat /\ EndOf(m) = EndOf(m - 1) + 4 + Lengths[m] /\ Lengths[m] \in Nat
      /\ \A i \in 1 .. 4 + Lengths[m] : Flat(m)[EndOf(m - 1) + i] = FrameOf(m)[i]
  BY FlatNext, FrameOfType
<1>5. \A i \in 1 .. 4 + Lengths[m] : Frame!Stream[EndOf(m - 1) + i] = FrameOf(m)[i]
  BY <1>1, <1>3, <1>4
<1>6. \A i \in 1 .. 4 : Frame!Stream[EndOf(m - 1) + i] = Frame!put_length(Lengths[m])[i]
  <2>1. \A i \in 1 .. 4 : FrameOf(m)[i] = Frame!put_length(Lengths[m])[i] BY FrameOfType
  <2> QED BY <1>4, <1>5, <2>1
<1>7. \A i \in 1 .. Lengths[m] : Frame!Stream[EndOf(m - 1) + 4 + i] = Frame!Body(m)[i]
  <2> SUFFICES ASSUME NEW i \in 1 .. Lengths[m]
               PROVE  Frame!Stream[EndOf(m - 1) + 4 + i] = Frame!Body(m)[i]
    OBVIOUS
  <2>1. 4 + i \in 1 .. 4 + Lengths[m] /\ EndOf(m - 1) + (4 + i) = EndOf(m - 1) + 4 + i BY <1>4
  <2>2. FrameOf(m)[4 + i] = Frame!Body(m)[i] BY FrameOfType
  <2> QED BY <1>5, <2>1, <2>2
<1>8. EndOf(m) <= Len(Frame!Stream) BY <1>1, <1>3 DEF EndOf
<1> QED BY <1>4, <1>6, <1>7, <1>8

-----------------------------------------------------------------------------
(* parse_frame() *)

\* The bytes of the message at offset p of data, and what parse_frame() finds from there on
\* if g is what it finds further on.
TotalAt(data, p) == 4 + Frame!get_length(SubSeq(data, p + 1, p + 4))
FoundAt(data, g, p) ==
    IF Len(data) - p < 4 \/ Len(data) - p < TotalAt(data, p)
    THEN [messages |-> <<>>, consumed |-> p]
    ELSE [g[p + TotalAt(data, p)] EXCEPT
             !.messages = <<SubSeq(data, p + 4 + 1, p + TotalAt(data, p))>> \o @]
Parses(data, l, g) == g = [p \in l .. Len(data) |-> FoundAt(data, g, p)]

LEMMA ParseIs ==
    ASSUME NEW data
    PROVE  Frame!parse_frame(data) = (CHOOSE g : Parses(data, 0, g))[0]
BY DEF Frame!parse_frame, Frame!HeaderSize, Parses, FoundAt, TotalAt

LEMMA ParsesAt ==
    ASSUME NEW data, NEW l, NEW g, Parses(data, l, g), NEW p \in l .. Len(data)
    PROVE  g[p] = FoundAt(data, g, p)
<1> DEFINE h == [q \in l .. Len(data) |-> FoundAt(data, g, q)]
<1>1. g = h BY DEF Parses
<1>2. h[p] = FoundAt(data, g, p) OBVIOUS
<1> HIDE DEF h
<1> QED BY <1>1, <1>2

\* A digit of a length and the digits above it.
LEMMA SumIsNat ==
    ASSUME NEW c \in Nat, NEW b \in Nat, NEW d \in Nat
    PROVE  c + b * d \in Nat
<1>1. b * d \in Nat BY SMT
<1> DEFINE u == b * d
<1>2. u \in Nat BY <1>1
<1> HIDE DEF u
<1>3. c + u \in Nat BY <1>2
<1> QED BY <1>3 DEF u

\* The bytes of a header at place p of L bytes that begin at place e.
LEMMA HeaderBytes ==
    ASSUME NEW p \in Nat, NEW L \in Nat, NEW e \in Nat, p + 4 <= L
    PROVE  \A i \in 1 .. 4 : p + i \in 1 .. L /\ e + (p + i) = e + p + i
OBVIOUS

\* The places of a sequence of l elements that follow place m.
LEMMA PlacesAfter ==
    ASSUME NEW m \in Nat, NEW l \in Nat, NEW j \in 1 .. l
    PROVE  m + j \in Nat
OBVIOUS

\* A message is at least as long as its header.
LEMMA TotalType ==
    ASSUME NEW data \in Seq(Nat), NEW p \in Nat, Len(data) - p >= 4
    PROVE  TotalAt(data, p) \in Nat /\ TotalAt(data, p) >= 4
<1>0. Base \in Nat BY FrameAssumption
<1> DEFINE h == SubSeq(data, p + 1, p + 4)
<1>1. Len(data) \in Nat /\ \A i \in p + 1 .. p + 4 : data[i] \in Nat BY ElementOfSeq
<1>2. h[1] \in Nat /\ h[2] \in Nat /\ h[3] \in Nat /\ h[4] \in Nat BY <1>1
<1> HIDE DEF h
<1> DEFINE x == h[3] + Base * h[4]
           y == h[2] + Base * x
           z == h[1] + Base * y
<1>3. Frame!get_length(h) = z BY DEF Frame!get_length
<1>4. x \in Nat
  <2> DEFINE c == h[3]
             d == h[4]
  <2>1. c \in Nat /\ d \in Nat BY <1>2
  <2> HIDE DEF c, d
  <2>2. c + Base * d \in Nat BY <1>0, <2>1, SumIsNat, Zenon
  <2> QED BY <2>2 DEF c, d
<1> HIDE DEF x
<1>5. y \in Nat
  <2> DEFINE u == Base * x
  <2>1. u \in Nat BY <1>0, <1>4
  <2> HIDE DEF u
  <2>2. h[2] + u \in Nat
    <3> DEFINE d == h[2]
    <3>1. d \in Nat BY <1>2
    <3> HIDE DEF d
    <3>2. d + u \in Nat BY <2>1, <3>1
    <3> QED BY <3>2 DEF d
  <2> QED BY <2>2 DEF u
<1> HIDE DEF y
<1>6. z \in Nat
  <2> DEFINE u == Base * y
  <2>1. u \in Nat BY <1>0, <1>5
  <2> HIDE DEF u
  <2>2. h[1] + u \in Nat
    <3> DEFINE d == h[1]
    <3>1. d \in Nat BY <1>2
    <3> HIDE DEF d
    <3>2. d + u \in Nat BY <2>1, <3>1
    <3> QED BY <3>2 DEF d
  <2> QED BY <2>2 DEF u
<1> HIDE DEF z
<1>8. Frame!get_length(h) \in Nat BY <1>3, <1>6
<1> QED BY <1>8 DEF TotalAt, h

LEMMA ParsesExists ==
    ASSUME NEW data \in Seq(Nat)
    PROVE  \E g : Parses(data, 0, g)
<1> DEFINE L == Len(data)
           U == {d \in 0 .. L + 1 : ~ \E g : Parses(data, L + 1 - d, g)}
<1>0. L \in Nat OBVIOUS
<1> SUFFICES ASSUME ~ \E g : Parses(data, 0, g) PROVE FALSE OBVIOUS
<1> HIDE DEF L
<1>1. U \subseteq Nat /\ U # {}
  <2>1. L + 1 \in 0 .. L + 1 /\ L + 1 - (L + 1) = 0 BY <1>0
  <2>2. ~ \E g : Parses(data, L + 1 - (L + 1), g) BY <2>1
  <2>3. L + 1 \in U BY <2>1, <2>2
  <2>4. U \subseteq Nat BY <1>0
  <2> HIDE DEF U
  <2> QED BY <2>3, <2>4
<1>2. PICK d \in U : \A j \in U : d <= j
  <2> HIDE DEF U
  <2> QED BY <1>1, LeastNumber
<1> DEFINE l == L + 1 - d
<1>3. d \in 0 .. L + 1 /\ l \in Nat /\ l <= L + 1 /\ ~ \E g : Parses(data, l, g) BY <1>0, <1>2
<1>4. d # 0
  <2> SUFFICES ASSUME d = 0 PROVE FALSE OBVIOUS
  <2> DEFINE g == [p \in l .. L |-> 0]
  <2>1. l .. L = {} BY <1>0
  <2>2. Parses(data, l, g) BY <2>1 DEF Parses, L
  <2> HIDE DEF g
  <2> QED BY <1>3, <2>2
<1>5. PICK h : Parses(data, l + 1, h)
  <2>1. d - 1 \in 0 .. L + 1 /\ ~(d <= d - 1) /\ L + 1 - (d - 1) = l + 1 BY <1>0, <1>3, <1>4
  <2> QED BY <1>2, <2>1
<1>6. l <= L BY <1>0, <1>3, <1>4
<1> HIDE DEF l
<1> DEFINE g == [p \in l .. L |-> IF p = l THEN FoundAt(data, h, p) ELSE h[p]]
<1>7. ASSUME NEW p \in l .. L PROVE g[p] = FoundAt(data, g, p)
  <2> DEFINE q == p + TotalAt(data, p)
  <2>1. g[p] = FoundAt(data, h, p)
    <3>1. CASE p = l BY <3>1
    <3>2. CASE p # l
      <4>1. p \in l + 1 .. L BY <1>0, <1>3, <3>2
      <4>2. h[p] = FoundAt(data, h, p) BY <1>5, <4>1, ParsesAt DEF L
      <4> QED BY <3>2, <4>2
    <3> QED BY <3>1, <3>2
  <2>2. CASE L - p < 4 \/ L - p < TotalAt(data, p)
    <3>1. FoundAt(data, h, p) = FoundAt(data, g, p)
      <4> HIDE DEF g
      <4> QED BY <2>2 DEF FoundAt, L
    <3> QED BY <2>1, <3>1
  <2>3. CASE ~(L - p < 4 \/ L - p < TotalAt(data, p))
    <3>1. p \in Nat BY <1>3
    <3>2. L - p >= 4 BY <1>0, <2>3, <3>1
    <3>3. TotalAt(data, p) \in Nat /\ TotalAt(data, p) >= 4 BY <3>1, <3>2, TotalType DEF L
    <3>4. q \in l .. L /\ q # l BY <1>0, <1>3, <2>3, <3>1, <3>3
    <3>5. g[q] = h[q] BY <3>4
    <3>6. FoundAt(data, h, p) = FoundAt(data, g, p)
      <4> HIDE DEF g
      <4> QED BY <2>3, <3>5 DEF FoundAt, L
    <3> QED BY <2>1, <3>6
  <2> QED BY <2>2, <2>3
<1>8. Parses(data, l, g)
  <2> DEFINE f == [p \in l .. L |-> FoundAt(data, g, p)]
  <2>1. g = [p \in l .. L |-> g[p]] OBVIOUS
  <2> HIDE DEF g
  <2>2. [p \in l .. L |-> g[p]] = f BY <1>7
  <2>3. g = f BY <2>1, <2>2
  <2> QED BY <2>3 DEF Parses, L
<1> HIDE DEF g
<1> QED BY <1>3, <1>8

LEMMA EndIncreases ==
    ASSUME NEW m \in 0 .. Sent, NEW n \in m .. Sent
    PROVE  EndOf(m) \in Nat /\ EndOf(n) \in Nat /\ EndOf(m) <= EndOf(n)
<1>1. n \in 0 .. Sent BY FrameAssumption DEF Sent
<1> QED BY <1>1, FlatPrefix, FlatType

\* parse_frame() of the bytes from the end of message k on passes on the messages that are
\* complete, up to message c, and consumes their bytes.
LEMMA ParseResult ==
    ASSUME NEW k \in 0 .. Sent, NEW r \in Nat, r <= Len(Frame!Stream),
           NEW data \in Seq(Nat), EndOf(k) + Len(data) = r,
           \A i \in 1 .. Len(data) : data[i] = Frame!Stream[EndOf(k) + i],
           NEW c \in k .. Sent, EndOf(c) <= r, c < Sent => r < EndOf(c + 1)
    PROVE  Frame!parse_frame(data)
             = [messages |-> [j \in 1 .. c - k |-> Frame!Body(k + j)],
                consumed |-> EndOf(c) - EndOf(k)]
<1>0. Sent \in Nat /\ k \in Nat /\ c \in Nat /\ k <= c /\ c <= Sent /\ c \in 0 .. Sent
  BY FrameAssumption DEF Sent
<1> DEFINE L == Len(data)
           e == EndOf(k)
           g == CHOOSE f : Parses(data, 0, f)
           Found(m) == [messages |-> [j \in 1 .. c - m |-> Frame!Body(m + j)],
                        consumed |-> EndOf(c) - e]
           U == {d \in 0 .. c - k : g[EndOf(c - d) - e] # Found(c - d)}
<1>1. Parses(data, 0, g) BY ParsesExists
<1>2. Frame!parse_frame(data) = g[0] BY ParseIs
<1> HIDE DEF g
<1>3. L \in Nat /\ e \in Nat /\ e + L = r BY FlatType
<1>4. ASSUME NEW m \in k .. c
      PROVE  /\ m \in 0 .. Sent /\ EndOf(m) \in Nat /\ EndOf(m) - e \in 0 .. L
             /\ EndOf(m) <= EndOf(c) /\ EndOf(c) \in Nat
  <2>1. m \in 0 .. Sent /\ m \in k .. Sent /\ c \in m .. Sent BY <1>0
  <2>2. EndOf(m) \in Nat /\ e <= EndOf(m) BY <2>1, EndIncreases
  <2>3. EndOf(m) <= EndOf(c) /\ EndOf(c) \in Nat BY <2>1, EndIncreases
  <2> HIDE DEF e, L
  <2> QED BY <1>3, <2>1, <2>2, <2>3
<1>5. ASSUME NEW m \in 0 .. Sent - 1, m >= k, EndOf(m) - e \in 0 .. L, L - (EndOf(m) - e) >= 4
      PROVE  TotalAt(data, EndOf(m) - e) = 4 + Lengths[m + 1]
  <2> DEFINE p == EndOf(m) - e
             h == SubSeq(data, p + 1, p + 4)
             t == Frame!put_length(Lengths[m + 1])
  <2>1. m + 1 \in 1 .. Sent /\ (m + 1) - 1 = m /\ m \in 0 .. Sent BY <1>0
  <2>2. EndOf(m) \in Nat BY <2>1, FlatType
  <2>3. \A i \in 1 .. 4 : Frame!Stream[EndOf((m + 1) - 1) + i] = t[i] BY <2>1, StreamAt
  <2>4. Lengths[m + 1] \in Nat /\ Lengths[m + 1] < Base * Base * Base * Base
    <3>1. Lengths \in Seq(Nat) /\ m + 1 \in 1 .. Len(Lengths) BY <2>1, FrameAssumption DEF Sent
    <3>2. Lengths[m + 1] \in Nat BY <3>1, ElementOfSeq
    <3>3. m + 1 \in DOMAIN Lengths BY <3>1
    <3> QED BY <3>2, <3>3, FrameAssumption, Zenon
  <2>5. t \in Seq(Nat) /\ Len(t) = 4 /\ Frame!get_length(t) = Lengths[m + 1] BY <2>4, LengthFound
  <2>6. p \in 0 .. L /\ L - p >= 4 BY <1>5
  <2> HIDE DEF e, t, L
  <2>7. EndOf(m) = e + p /\ p \in Nat /\ p + 4 <= L BY <1>3, <2>2, <2>6
  <2> HIDE DEF p
  <2>8. \A i \in 1 .. 4 : data[p + i] = t[i]
    <3>0. \A i \in 1 .. 4 : p + i \in 1 .. L /\ e + (p + i) = e + p + i
      <4>1. p \in Nat /\ L \in Nat /\ e \in Nat /\ p + 4 <= L BY <1>3, <2>7
      <4> QED BY <4>1, HeaderBytes
    <3> SUFFICES ASSUME NEW i \in 1 .. 4 PROVE data[p + i] = t[i] OBVIOUS
    <3>1. p + i \in 1 .. L /\ e + (p + i) = e + p + i BY <3>0
    <3>2. data[p + i] = Frame!Stream[e + (p + i)] BY <3>1 DEF e, L
    <3>3. Frame!Stream[EndOf(m) + i] = t[i] BY <2>1, <2>3
    <3> QED BY <2>7, <3>1, <3>2, <3>3
  <2>9. h \in Seq(Nat) /\ Len(h) = 4 /\ \A i \in 1 .. 4 : h[i] = data[p + i]
    <3> DEFINE a == p + 1
               z == p + 4
    <3>1. /\ a \in Int /\ z \in Int /\ a <= z /\ z - a + 1 = 4 /\ a .. z \subseteq 1 .. L
          /\ \A i \in 1 .. 4 : a + i - 1 = p + i
      BY <1>3, <2>7
    <3>2. h = SubSeq(data, a, z) OBVIOUS
    <3> HIDE DEF a, z, h
    <3>3. \A i \in a .. z : data[i] \in Nat BY <3>1, ElementOfSeq DEF L
    <3>4. /\ h \in Seq(Nat) /\ Len(h) = IF a <= z THEN z - a + 1 ELSE 0
          /\ \A i \in 1 .. z - a + 1 : h[i] = data[a + i - 1]
      <4>1. a \in Int /\ z \in Int BY <3>1
      <4> QED BY <3>2, <3>3, <4>1, SubSeqProperties
    <3> QED BY <3>1, <3>4
  <2> HIDE DEF h
  <2>10. \A i \in 1 .. Len(h) : h[i] = t[i] BY <2>8, <2>9
  <2>11. h = t BY <2>5, <2>9, <2>10, SeqEqual
  <2> QED BY <2>5, <2>11 DEF TotalAt, h, p
<1>6. ASSUME NEW m \in k .. c, m < c, g[EndOf(m + 1) - e] = Found(m + 1)
      PROVE  g[EndOf(m) - e] = Found(m)
  <2> DEFINE p == EndOf(m) - e
             q == EndOf(m + 1) - e
             len == Lengths[m + 1]
             body == SubSeq(data, p + 4 + 1, p + (4 + len))
             b == Frame!Body(m + 1)
  <2>1. /\ m + 1 \in k .. c /\ m + 1 \in 1 .. Sent /\ (m + 1) - 1 = m /\ m \in 0 .. Sent - 1 /\ m >= k
        /\ m \in Nat
    BY <1>0, <1>6
  <2>2. EndOf(m) \in Nat /\ p \in 0 .. L /\ EndOf(m + 1) \in Nat /\ q \in 0 .. L BY <1>4, <2>1
  <2>3. /\ EndOf(m + 1) = EndOf(m) + 4 + len
        /\ \A i \in 1 .. len : Frame!Stream[EndOf(m) + 4 + i] = b[i]
    BY <2>1, StreamAt
  <2>4. len \in Nat /\ b \in Seq(Nat) /\ Len(b) = len BY <2>1, FrameOfType
  <2> HIDE DEF e, b, len, L
  <2>5. /\ q = p + (4 + len) /\ L - p >= 4 + len /\ L - p >= 4 /\ p \in Nat
        /\ EndOf(m) = e + p
    <3> DEFINE E1 == EndOf(m)
               E2 == EndOf(m + 1)
    <3>1. E1 \in Nat /\ E2 \in Nat /\ E2 = E1 + 4 + len /\ p = E1 - e /\ q = E2 - e BY <2>2, <2>3
    <3> HIDE DEF E1, E2, p, q
    <3>2. q = p + (4 + len) /\ E1 = e + p BY <1>3, <2>4, <3>1
    <3>3. p \in Nat /\ q <= L /\ L \in Nat BY <1>3, <2>2
    <3>4. L - p >= 4 + len /\ L - p >= 4 BY <2>4, <3>2, <3>3
    <3> QED BY <3>2, <3>3, <3>4 DEF E1
  <2>6. TotalAt(data, p) = 4 + len BY <1>5, <2>1, <2>2, <2>5 DEF len
  <2>7. g[p] = FoundAt(data, g, p) BY <1>1, <2>2, ParsesAt DEF L
  <2>8. \A i \in 1 .. len : data[p + 4 + i] = b[i]
    <3> SUFFICES ASSUME NEW i \in 1 .. len PROVE data[p + 4 + i] = b[i] OBVIOUS
    <3> HIDE DEF p
    <3>1. p + 4 + i \in 1 .. L /\ e + (p + 4 + i) = e + p + 4 + i BY <1>3, <2>4, <2>5
    <3>2. data[p + 4 + i] = Frame!Stream[e + (p + 4 + i)] BY <3>1 DEF e, L
    <3>3. Frame!Stream[EndOf(m) + 4 + i] = b[i] BY <2>3
    <3> QED BY <2>5, <3>1, <3>2, <3>3
  <2>9. body = b
    <3> HIDE DEF p, q
    <3> DEFINE lo == p + 4 + 1
               hi == p + (4 + len)
    <3>1. lo \in Int /\ hi \in Int /\ lo .. hi \subseteq 1 .. L /\ hi - lo + 1 = len BY <1>3, <2>4, <2>5
    <3>2. (IF lo <= hi THEN hi - lo + 1 ELSE 0) = len BY <2>4, <2>5
    <3>3. \A i \in 1 .. len : lo + i - 1 = p + 4 + i BY <2>4, <2>5
    <3>4. body = SubSeq(data, lo, hi) OBVIOUS
    <3> HIDE DEF lo, hi, body
    <3>5. \A i \in lo .. hi : data[i] \in Nat BY <3>1, ElementOfSeq DEF L
    <3>6. /\ body \in Seq(Nat) /\ Len(body) = IF lo <= hi THEN hi - lo + 1 ELSE 0
          /\ \A i \in 1 .. hi - lo + 1 : body[i] = data[lo + i - 1]
      BY <3>1, <3>4, <3>5, SubSeqProperties
    <3>7. Len(body) = len /\ \A i \in 1 .. len : body[i] = data[lo + i - 1] BY <3>1, <3>2, <3>6
    <3>8. \A i \in 1 .. Len(body) : body[i] = b[i] BY <2>8, <3>3, <3>7
    <3> QED BY <2>4, <3>6, <3>7, <3>8, SeqEqual
  <2>10. g[p] = [Found(m + 1) EXCEPT !.messages = <<b>> \o @]
    <3>1. ~(Len(data) - p < 4 \/ Len(data) - p < TotalAt(data, p)) /\ p + TotalAt(data, p) = q
      <4> HIDE DEF p, q
      <4> QED BY <2>4, <2>5, <2>6 DEF L
    <3> HIDE DEF p, q, body, Found
    <3>2. g[p] = [g[q] EXCEPT !.messages = <<body>> \o @]
      BY <2>6, <2>7, <3>1 DEF FoundAt, body
    <3>3. g[q] = Found(m + 1) BY <1>6 DEF q
    <3> QED BY <2>9, <3>2, <3>3
  <2>11. <<b>> \o [j \in 1 .. c - (m + 1) |-> Frame!Body(m + 1 + j)]
           = [j \in 1 .. c - m |-> Frame!Body(m + j)]
    <3> DEFINE T == {Frame!Body(j) : j \in Nat}
               x == [j \in 1 .. c - (m + 1) |-> Frame!Body(m + 1 + j)]
               y == [j \in 1 .. c - m |-> Frame!Body(m + j)]
               n == c - (m + 1)
    <3>1. n \in Nat /\ c - m = 1 + n BY <1>0, <1>6, <2>1
    <3>2. \A j \in Nat : Frame!Body(j) \in T OBVIOUS
    <3> HIDE DEF T, n
    <3>3. x \in Seq(T) /\ Len(x) = n /\ \A j \in 1 .. n : x[j] = Frame!Body(m + 1 + j)
      <4>1. x = [j \in 1 .. n |-> Frame!Body(m + 1 + j)] BY DEF n
      <4>2. \A j \in 1 .. n : Frame!Body(m + 1 + j) \in T BY <2>1, <3>1, <3>2
      <4>3. n \in Nat BY <3>1
      <4> HIDE DEF x
      <4> QED BY <4>1, <4>2, <4>3
    <3>4. y \in Seq(T) /\ Len(y) = 1 + n /\ \A j \in 1 .. 1 + n : y[j] = Frame!Body(m + j)
      <4> DEFINE l == 1 + n
      <4>1. y = [j \in 1 .. l |-> Frame!Body(m + j)] BY <3>1
      <4>2. l \in Nat BY <3>1
      <4> HIDE DEF y, l
      <4>3. \A j \in 1 .. l : Frame!Body(m + j) \in T
        <5>1. m \in Nat BY <2>1
        <5> QED BY <3>2, <4>2, <5>1, PlacesAfter, Zenon
      <4>4. y \in Seq(T) /\ Len(y) = l /\ \A j \in 1 .. l : y[j] = Frame!Body(m + j)
        BY <4>1, <4>2, <4>3
      <4> QED BY <4>4 DEF l
    <3>5. <<b>> \in Seq(T) /\ Len(<<b>>) = 1 /\ <<b>>[1] = b
      <4>1. b \in T BY <2>1, <3>2 DEF b
      <4> QED BY <4>1
    <3> DEFINE one == <<b>>
    <3>6. one \in Seq(T) /\ Len(one) = 1 /\ one[1] = b BY <3>5
    <3> HIDE DEF x, y, one
    <3>7. /\ one \o x \in Seq(T) /\ Len(one \o x) = 1 + n
          /\ \A j \in 1 .. 1 + n : (one \o x)[j] = IF j <= 1 THEN one[j] ELSE x[j - 1]
      <4>1. /\ one \o x \in Seq(T) /\ Len(one \o x) = Len(one) + Len(x)
            /\ \A j \in 1 .. Len(one) + Len(x) :
                  (one \o x)[j] = IF j <= Len(one) THEN one[j] ELSE x[j - Len(one)]
        <5>1. one \in Seq(T) /\ x \in Seq(T) BY <3>3, <3>6
        <5> QED BY <5>1, ConcatProperties
      <4> QED BY <3>3, <3>6, <4>1
    <3>8. \A j \in 1 .. 1 + n : (one \o x)[j] = y[j]
      <4> SUFFICES ASSUME NEW j \in 1 .. 1 + n PROVE (one \o x)[j] = y[j] OBVIOUS
      <4>1. CASE j = 1 BY <3>4, <3>6, <3>7, <4>1 DEF b
      <4>2. CASE j # 1
        <5>1. j - 1 \in 1 .. n /\ m + 1 + (j - 1) = m + j /\ ~(j <= 1) BY <2>1, <3>1, <4>2
        <5>2. (one \o x)[j] = x[j - 1] BY <3>7, <5>1
        <5>3. x[j - 1] = Frame!Body(m + j) BY <3>3, <5>1
        <5> QED BY <3>4, <5>2, <5>3
      <4> QED BY <4>1, <4>2
    <3>9. one \o x = y BY <3>4, <3>7, <3>8, SeqEqual
    <3> QED BY <3>9 DEF one, x, y
  <2> HIDE DEF p
  <2>12. [Found(m + 1) EXCEPT !.messages = <<b>> \o @] = Found(m)
    <3> DEFINE x == [j \in 1 .. c - (m + 1) |-> Frame!Body(m + 1 + j)]
               y == [j \in 1 .. c - m |-> Frame!Body(m + j)]
               z == EndOf(c) - e
    <3>1. Found(m + 1) = [messages |-> x, consumed |-> z] OBVIOUS
    <3>2. Found(m) = [messages |-> y, consumed |-> z] OBVIOUS
    <3>3. <<b>> \o x = y BY <2>11
    <3> HIDE DEF x, y, z, Found
    <3> DEFINE v == [messages |-> x, consumed |-> z]
               w == <<b>> \o v.messages
    <3>4. v.messages = x OBVIOUS
    <3> HIDE DEF v
    <3>5. w = y BY <3>3, <3>4
    <3>6. [v EXCEPT !.messages = <<b>> \o @] = [v EXCEPT !.messages = w] OBVIOUS
    <3> HIDE DEF w
    <3>7. [v EXCEPT !.messages = w] = [messages |-> w, consumed |-> z] BY DEF v
    <3>8. Found(m + 1) = v BY <3>1 DEF v
    <3> QED BY <3>2, <3>5, <3>6, <3>7, <3>8
  <2> QED BY <2>10, <2>12 DEF p
<1>7. g[EndOf(c) - e] = Found(c)
  <2> DEFINE p == EndOf(c) - e
  <2>1. c \in k .. c BY <1>0
  <2>2. p \in 0 .. L /\ EndOf(c) \in Nat BY <1>4, <2>1
  <2>3. L - p < 4 \/ L - p < TotalAt(data, p)
    <3>1. CASE c = Sent
      <4>1. DOMAIN Lengths = 1 .. Sent BY FrameAssumption DEF Sent
      <4>2. Len(Frame!Stream) = EndOf(Sent) BY <4>1 DEF Frame!Stream, EndOf, Flat, FrameOf
      <4> HIDE DEF e, L
      <4> QED BY <1>3, <2>2, <3>1, <4>2
    <3>2. CASE c < Sent
      <4>1. c \in 0 .. Sent - 1 /\ c >= k /\ c + 1 \in 1 .. Sent /\ (c + 1) - 1 = c BY <1>0, <3>2
      <4>2. EndOf(c + 1) = EndOf(c) + 4 + Lengths[c + 1] BY <4>1, StreamAt
      <4>3. Lengths[c + 1] \in Nat BY <4>1, FrameOfType
      <4>4. r < EndOf(c + 1) BY <3>2
      <4>5. CASE L - p < 4 BY <4>5
      <4>6. CASE L - p >= 4
        <5>1. TotalAt(data, p) = 4 + Lengths[c + 1] BY <1>5, <2>2, <4>1, <4>6
        <5>2. L - p < 4 + Lengths[c + 1]
          <6> DEFINE E1 == EndOf(c)
                     E2 == EndOf(c + 1)
                     len == Lengths[c + 1]
          <6>1. E1 \in Nat /\ E2 = E1 + 4 + len /\ len \in Nat /\ p = E1 - e /\ r < E2
            BY <2>2, <4>2, <4>3, <4>4
          <6> HIDE DEF E1, E2, len, p, e, L
          <6>2. L - p < 4 + len BY <1>3, <6>1
          <6> QED BY <6>2 DEF len
        <5> QED BY <5>1, <5>2
      <4>7. p \in Int /\ L \in Int BY <1>3, <2>2
      <4> QED BY <4>5, <4>6, <4>7
    <3> QED BY <1>0, <3>1, <3>2
  <2>4. g[p] = FoundAt(data, g, p) BY <1>1, <2>2, ParsesAt
  <2>5. g[p] = [messages |-> <<>>, consumed |-> p] BY <2>3, <2>4 DEF FoundAt
  <2>6. [j \in 1 .. c - c |-> Frame!Body(c + j)] = <<>> BY <1>0
  <2> QED BY <2>5, <2>6
<1>8. U = {}
  <2> SUFFICES ASSUME U # {} PROVE FALSE OBVIOUS
  <2>1. U \subseteq Nat BY <1>0
  <2>2. PICK d \in U : \A j \in U : d <= j
    <3> HIDE DEF U
    <3> QED BY <2>1, LeastNumber
  <2>3. d \in 0 .. c - k /\ g[EndOf(c - d) - e] # Found(c - d) BY <2>2
  <2> HIDE DEF Found, e
  <2>4. d # 0
    <3>1. c - 0 = c BY <1>0
    <3> QED BY <1>7, <2>3, <3>1
  <2>5. d - 1 \in 0 .. c - k /\ ~(d <= d - 1) /\ c - (d - 1) = c - d + 1 BY <1>0, <2>3, <2>4
  <2>6. g[EndOf(c - (d - 1)) - e] = Found(c - (d - 1)) BY <2>2, <2>5
  <2>7. c - d \in k .. c /\ c - d < c BY <1>0, <2>3, <2>4
  <2> QED BY <1>6, <2>3, <2>5, <2>6, <2>7
<1>9. g[EndOf(k) - e] = Found(k)
  <2>1. c - k \in 0 .. c - k /\ c - (c - k) = k BY <1>0
  <2>2. c - k \notin U BY <1>8
  <2> HIDE DEF Found, e
  <2> QED BY <2>1, <2>2
<1>10. EndOf(k) - e = 0 BY <1>3
<1> QED BY <1>2, <1>9, <1>10

-----------------------------------------------------------------------------
(* The buffer of a stream of frames *)

\* The first k messages were passed on, and the unread part of the buffer has the bytes received
\* since; once they have been parsed, message k + 1 is not complete.
FramesPassed(k) ==
    /\ delivered = [j \in 1 .. k |-> Frame!Body(j)]
    /\ bytes \in Seq(Nat) /\ rbyte \in Nat /\ wbyte \in Nat
    /\ rbyte <= wbyte /\ wbyte <= Len(bytes)
    /\ received \in Nat /\ received <= Len(Frame!Stream)
    /\ EndOf(k) + (wbyte - rbyte) = received
    /\ \A i \in 1 .. wbyte - rbyte : bytes[rbyte + i] = Frame!Stream[EndOf(k) + i]
    /\ parsed /\ k < Sent => received < EndOf(k + 1)
FrameInv == \E k \in 0 .. Sent : FramesPassed(k)

LEMMA StreamType ==
    /\ Sent \in Nat /\ DOMAIN Lengths = 1 .. Sent
    /\ Frame!Stream \in Seq(Nat) /\ Len(Frame!Stream) = EndOf(Sent)
<1>1. Sent \in Nat /\ DOMAIN Lengths = 1 .. Sent BY FrameAssumption DEF Sent
<1>2. Frame!Stream = Flat(Sent) BY <1>1 DEF Frame!Stream, Flat, FrameOf
<1>3. Sent \in 0 .. Sent BY <1>1
<1> QED BY <1>1, <1>2, <1>3, FlatType DEF EndOf

\* Nothing is received yet.
LEMMA PassedNothing ==
    /\ <<>> \in Seq(Nat) /\ Len(<<>>) = 0 /\ [j \in 1 .. 0 |-> Frame!Body(j)] = <<>>
    /\ EndOf(0) = 0 /\ 0 <= Len(Frame!Stream) /\ (0 < Sent => 0 < EndOf(0 + 1))
<1>1. EndOf(0) = 0 BY FlatEmpty
<1>2. Sent \in Nat /\ Len(Frame!Stream) = EndOf(Sent) BY StreamType
<1>3. Sent \in 0 .. Sent BY <1>2
<1>4. EndOf(Sent) \in Nat BY <1>3, FlatType
<1>5. ASSUME 0 < Sent PROVE 0 < EndOf(0 + 1)
  <2>1. 1 \in 1 .. Sent /\ 1 - 1 = 0 /\ 0 + 1 = 1 BY <1>2, <1>5
  <2>2. EndOf(1) = EndOf(1 - 1) + 4 + Lengths[1] BY <2>1, StreamAt
  <2>3. Lengths[1] \in Nat BY <2>1, FrameOfType
  <2> QED BY <1>1, <2>1, <2>2, <2>3
<1> QED BY <1>1, <1>2, <1>4, <1>5

LEMMA PassedIsDelivered ==
    ASSUME NEW k \in 0 .. Sent, FramesPassed(k)
    PROVE  Frame!MessagesDelivered
<1> SUFFICES ASSUME parsed
             PROVE  delivered = [m \in 1 .. Frame!Cardinality(Frame!Complete) |-> Frame!Body(m)]
  BY DEF Frame!MessagesDelivered
<1>1. Frame!Complete = {m \in DOMAIN Lengths : EndOf(m) <= received}
  BY DEF Frame!Complete, EndOf, Flat, FrameOf
<1>2. ASSUME NEW m \in DOMAIN Lengths PROVE EndOf(m) <= received <=> m <= k
  <2>1. Sent \in Nat /\ m \in 1 .. Sent /\ m \in 0 .. Sent BY StreamType
  <2>2. received \in Nat /\ EndOf(k) \in Nat /\ EndOf(k) <= received
    <3>1. EndOf(k) \in Nat BY FlatType
    <3> QED BY <3>1 DEF FramesPassed
  <2>3. CASE m <= k
    <3>1. k \in m .. Sent BY <2>1, <2>3
    <3>2. EndOf(m) \in Nat /\ EndOf(m) <= EndOf(k) BY <2>1, <3>1, EndIncreases
    <3> QED BY <2>2, <2>3, <3>2
  <2>4. CASE m > k
    <3>1. k + 1 \in 0 .. Sent /\ m \in k + 1 .. Sent /\ k < Sent BY <2>1, <2>4
    <3>2. EndOf(k + 1) \in Nat /\ EndOf(m) \in Nat /\ EndOf(k + 1) <= EndOf(m)
      BY <3>1, EndIncreases
    <3>3. received < EndOf(k + 1) BY <3>1 DEF FramesPassed
    <3> QED BY <2>1, <2>2, <2>4, <3>2, <3>3
  <2> QED BY <2>1, <2>3, <2>4
<1>3. Frame!Complete = 1 .. k
  <2>1. Sent \in Nat /\ DOMAIN Lengths = 1 .. Sent /\ 1 .. k \subseteq 1 .. Sent BY StreamType
  <2>2. \A m : m \in Frame!Complete <=> m \in DOMAIN Lengths /\ EndOf(m) <= received BY <1>1
  <2>3. ASSUME NEW m PROVE m \in Frame!Complete <=> m \in 1 .. k
    <3>1. CASE m \in DOMAIN Lengths
      <4>1. m \in Nat /\ m >= 1 /\ (EndOf(m) <= received <=> m <= k) BY <1>2, <2>1, <3>1
      <4>2. m \in 1 .. k <=> m <= k BY <4>1
      <4> QED BY <2>2, <3>1, <4>1, <4>2
    <3>2. CASE m \notin DOMAIN Lengths
      <4>1. m \notin 1 .. k BY <2>1, <3>2
      <4> QED BY <2>2, <3>2, <4>1
    <3> QED BY <3>1, <3>2
  <2> QED BY <2>3
<1>4. Frame!Cardinality(Frame!Complete) = k
  <2>1. Cardinality(1 .. k) = k BY FS_Interval
  <2> QED BY <1>3, <2>1 DEF Frame!Cardinality, Cardinality
<1> QED BY <1>4 DEF FramesPassed

\* Bytes are received behind those that are there.
LEMMA ReceiveStep ==
    ASSUME NEW k \in 0 .. Sent, FramesPassed(k), NEW size \in Portions,
           NEW n \in 1 .. Len(Frame!prepare(size)) - wbyte, Frame!Receive(size, n)
    PROVE  FramesPassed(k)'
<1> DEFINE P == Frame!prepare(size)
           new(i) == IF i \in wbyte + 1 .. wbyte + n THEN Frame!Stream[received + i - wbyte] ELSE P[i]
<1>1. /\ delivered = [j \in 1 .. k |-> Frame!Body(j)]
      /\ bytes \in Seq(Nat) /\ rbyte \in Nat /\ wbyte \in Nat
      /\ rbyte <= wbyte /\ wbyte <= Len(bytes)
      /\ received \in Nat /\ EndOf(k) + (wbyte - rbyte) = received
      /\ \A i \in 1 .. wbyte - rbyte : bytes[rbyte + i] = Frame!Stream[EndOf(k) + i]
  BY DEF FramesPassed
<1>2. EndOf(k) \in Nat BY FlatType
<1>3. P \in Seq(Nat) /\ Len(P) >= Len(bytes) /\ \A i \in 1 .. Len(bytes) : P[i] = bytes[i]
  <2>1. size \in Nat /\ Len(bytes) \in Nat BY <1>1, FrameAssumption
  <2>2. CASE size > Len(bytes) - wbyte
    <3> DEFINE z == size - (Len(bytes) - wbyte)
               zeros == [i \in 1 .. z |-> 0]
    <3>1. z \in Nat BY <1>1, <2>1, <2>2
    <3>2. P = bytes \o zeros BY <2>2 DEF Frame!prepare
    <3> HIDE DEF z, P
    <3>3. zeros \in Seq(Nat) /\ Len(zeros) = z BY <3>1
    <3> HIDE DEF zeros
    <3>4. /\ P \in Seq(Nat) /\ Len(P) = Len(bytes) + Len(zeros)
          /\ \A i \in 1 .. Len(bytes) + Len(zeros) :
                P[i] = IF i <= Len(bytes) THEN bytes[i] ELSE zeros[i - Len(bytes)]
      BY <1>1, <3>2, <3>3, ConcatProperties
    <3>5. Len(P) >= Len(bytes)
      <4>1. Len(P) = Len(bytes) + z BY <3>3, <3>4
      <4> QED BY <2>1, <3>1, <4>1
    <3>6. \A i \in 1 .. Len(bytes) : P[i] = bytes[i]
      <4> SUFFICES ASSUME NEW i \in 1 .. Len(bytes) PROVE P[i] = bytes[i] OBVIOUS
      <4>1. i \in 1 .. Len(bytes) + z /\ i <= Len(bytes) BY <2>1, <3>1
      <4> QED BY <3>3, <3>4, <4>1
    <3> QED BY <3>4, <3>5, <3>6
  <2>3. CASE ~(size > Len(bytes) - wbyte)
    <3>1. P = bytes BY <2>3 DEF Frame!prepare
    <3> HIDE DEF P
    <3> QED BY <1>1, <2>1, <3>1
  <2> QED BY <2>2, <2>3
<1>4. /\ n <= Len(P) - wbyte /\ received + n <= Len(Frame!Stream)
      /\ bytes' = [i \in DOMAIN P |-> new(i)]
      /\ wbyte' = wbyte + n /\ received' = received + n /\ parsed' = FALSE
      /\ rbyte' = rbyte /\ delivered' = delivered
  BY DEF Frame!Receive
<1>5. n \in 1 .. Len(P) - wbyte OBVIOUS
<1> HIDE DEF P
<1>6. Len(P) \in Nat /\ DOMAIN P = 1 .. Len(P) /\ n \in Nat BY <1>1, <1>3, <1>5, LenProperties
<1>7. Frame!Stream \in Seq(Nat) BY StreamType
<1>8. ASSUME NEW i \in 1 .. Len(P) PROVE new(i) \in Nat
  <2>1. CASE i \in wbyte + 1 .. wbyte + n
    <3>1. received + i - wbyte \in 1 .. Len(Frame!Stream)
      <4> DEFINE l == Len(Frame!Stream)
      <4>1. /\ received \in Nat /\ wbyte \in Nat /\ n \in Nat /\ l \in Nat /\ received + n <= l
        BY <1>1, <1>4, <1>6, <1>7, LenProperties
      <4> HIDE DEF l
      <4>2. received + i - wbyte \in 1 .. l BY <2>1, <4>1
      <4> QED BY <4>2 DEF l
    <3>2. Frame!Stream[received + i - wbyte] \in Nat BY <1>7, <3>1, ElementOfSeq
    <3> QED BY <2>1, <3>2
  <2>2. CASE i \notin wbyte + 1 .. wbyte + n
    <3>1. P[i] \in Nat BY <1>3, ElementOfSeq
    <3> QED BY <2>2, <3>1
  <2> QED BY <2>1, <2>2
<1>9. bytes' \in Seq(Nat) /\ Len(bytes') = Len(P) /\ \A i \in 1 .. Len(P) : bytes'[i] = new(i)
  <2>1. bytes' = [i \in 1 .. Len(P) |-> new(i)] BY <1>4, <1>6
  <2> HIDE DEF new
  <2> QED BY <1>6, <1>8, <2>1
<1> DEFINE lenP == Len(P)
           lenB == Len(bytes)
<1>13. /\ rbyte \in Nat /\ wbyte \in Nat /\ rbyte <= wbyte /\ n \in Nat /\ lenP \in Nat /\ lenB \in Nat
       /\ wbyte + n <= lenP /\ wbyte <= lenB
  <2>1. lenP \in Nat /\ lenB \in Nat /\ n \in Nat BY <1>1, <1>6, LenProperties
  <2>2. n <= lenP - wbyte /\ rbyte \in Nat /\ wbyte \in Nat /\ rbyte <= wbyte /\ wbyte <= lenB
    BY <1>1, <1>4
  <2> HIDE DEF lenP, lenB
  <2> QED BY <2>1, <2>2
<1> HIDE DEF lenP, lenB
<1>10. ASSUME NEW i \in 1 .. wbyte + n - rbyte
       PROVE  bytes'[rbyte + i] = Frame!Stream[EndOf(k) + i]
  <2>1. rbyte + i \in 1 .. lenP BY <1>13
  <2>2. bytes'[rbyte + i] = new(rbyte + i) BY <1>9, <2>1 DEF lenP
  <2>3. CASE rbyte + i > wbyte
    <3>1. rbyte + i \in wbyte + 1 .. wbyte + n BY <1>1, <1>6, <2>3
    <3>2. received + (rbyte + i) - wbyte = EndOf(k) + i
      <4> DEFINE e == EndOf(k)
      <4>1. e \in Nat /\ e + (wbyte - rbyte) = received BY <1>1, <1>2
      <4> HIDE DEF e
      <4>2. received + (rbyte + i) - wbyte = e + i BY <1>1, <1>6, <4>1
      <4> QED BY <4>2 DEF e
    <3> QED BY <2>2, <3>1, <3>2
  <2>4. CASE rbyte + i <= wbyte
    <3>1. /\ rbyte + i \notin wbyte + 1 .. wbyte + n /\ i \in 1 .. wbyte - rbyte
          /\ rbyte + i \in 1 .. lenB
      BY <1>13, <2>4
    <3>2. new(rbyte + i) = bytes[rbyte + i] BY <1>3, <3>1 DEF lenB
    <3> QED BY <1>1, <2>2, <3>1, <3>2
  <2>5. rbyte + i \in Int BY <1>1, <1>6
  <2> QED BY <1>1, <2>3, <2>4, <2>5
<1>11. /\ rbyte' \in Nat /\ wbyte' \in Nat /\ rbyte' <= wbyte' /\ wbyte' <= Len(bytes')
       /\ received' \in Nat /\ EndOf(k) + (wbyte' - rbyte') = received'
  <2> DEFINE e == EndOf(k)
             w == Len(P)
  <2>1. e \in Nat /\ e + (wbyte - rbyte) = received /\ w \in Nat BY <1>1, <1>2, <1>6
  <2>2. n <= w - wbyte /\ Len(bytes') = w BY <1>4, <1>9
  <2> HIDE DEF e, w
  <2>3. /\ rbyte \in Nat /\ wbyte \in Nat /\ received \in Nat /\ n \in Nat /\ rbyte <= wbyte
        /\ wbyte' = wbyte + n /\ rbyte' = rbyte /\ received' = received + n
    BY <1>1, <1>4, <1>6
  <2>4. e + (wbyte' - rbyte') = received' BY <2>1, <2>3
  <2>5. rbyte' \in Nat /\ wbyte' \in Nat /\ rbyte' <= wbyte' /\ received' \in Nat BY <2>3
  <2>6. wbyte' <= w BY <2>1, <2>2, <2>3
  <2> QED BY <2>2, <2>4, <2>5, <2>6 DEF e
<1> HIDE DEF new
<1>12. \A i \in 1 .. wbyte' - rbyte' : bytes'[rbyte' + i] = Frame!Stream[EndOf(k) + i]
  <2> SUFFICES ASSUME NEW i \in 1 .. wbyte' - rbyte'
               PROVE  bytes'[rbyte' + i] = Frame!Stream[EndOf(k) + i]
    OBVIOUS
  <2>1. rbyte' = rbyte /\ wbyte' = wbyte + n BY <1>4
  <2>2. i \in 1 .. wbyte + n - rbyte
    <3>1. wbyte' - rbyte' = wbyte + n - rbyte BY <1>13, <2>1
    <3> QED BY <3>1, Zenon
  <2> QED BY <1>10, <2>1, <2>2
<1> QED BY <1>1, <1>4, <1>9, <1>11, <1>12 DEF FramesPassed, Frame!Stream, EndOf, Flat, FrameOf, Sent

\* Consumed bytes are dropped, and the others stay, wherever they are moved to.
LEMMA ConsumeStep ==
    ASSUME bytes \in Seq(Nat), rbyte \in Nat, wbyte \in Nat, rbyte <= wbyte, wbyte <= Len(bytes),
           NEW n \in 0 .. wbyte - rbyte, Frame!consume(n)
    PROVE  /\ bytes' \in Seq(Nat) /\ rbyte' \in Nat /\ wbyte' \in Nat
           /\ rbyte' <= wbyte' /\ wbyte' <= Len(bytes')
           /\ wbyte' - rbyte' = wbyte - rbyte - n
           /\ \A i \in 1 .. wbyte - rbyte - n : bytes'[rbyte' + i] = bytes[rbyte + n + i]
<1> DEFINE u == wbyte - rbyte - n
<1>1. u \in Nat /\ rbyte + n + u = wbyte /\ Len(bytes) \in Nat /\ n \in Nat BY LenProperties
<1>2. CASE Frame!Shrinks(n)
  <2> DEFINE lo == rbyte + n + 1
             lo2 == wbyte - rbyte - n + 1
             s == SubSeq(bytes, lo, wbyte)
             t == SubSeq(bytes, lo2, Len(bytes))
  <2>1. bytes' = s \o t /\ rbyte' = 0 /\ wbyte' = u BY <1>2 DEF Frame!consume, Frame!Moved
  <2>2. /\ lo \in Int /\ lo2 \in Int /\ lo .. wbyte \subseteq 1 .. Len(bytes)
        /\ lo2 .. Len(bytes) \subseteq 1 .. Len(bytes) /\ wbyte - lo + 1 = u
        /\ (IF lo <= wbyte THEN wbyte - lo + 1 ELSE 0) = u
        /\ (IF lo2 <= Len(bytes) THEN Len(bytes) - lo2 + 1 ELSE 0) = Len(bytes) - u
        /\ \A i \in 1 .. u : lo + i - 1 = rbyte + n + i
        /\ u <= Len(bytes)
    BY <1>1
  <2> HIDE DEF lo, lo2
  <2>3. \A i \in 1 .. Len(bytes) : bytes[i] \in Nat BY ElementOfSeq
  <2>4. /\ s \in Seq(Nat) /\ Len(s) = IF lo <= wbyte THEN wbyte - lo + 1 ELSE 0
        /\ \A i \in 1 .. wbyte - lo + 1 : s[i] = bytes[lo + i - 1]
    <3>1. \A i \in lo .. wbyte : bytes[i] \in Nat BY <2>2, <2>3
    <3>2. s = SubSeq(bytes, lo, wbyte) /\ lo \in Int /\ wbyte \in Int BY <2>2
    <3> HIDE DEF s
    <3> QED BY <3>1, <3>2, SubSeqProperties
  <2>5. t \in Seq(Nat) /\ Len(t) = IF lo2 <= Len(bytes) THEN Len(bytes) - lo2 + 1 ELSE 0
    <3>1. \A i \in lo2 .. Len(bytes) : bytes[i] \in Nat BY <2>2, <2>3
    <3> QED BY <1>1, <2>2, <3>1, SubSeqProperties
  <2> HIDE DEF s, t, u
  <2>6. Len(s) = u /\ Len(t) = Len(bytes) - u /\ \A i \in 1 .. u : s[i] = bytes[lo + i - 1]
    BY <2>2, <2>4, <2>5
  <2>7. /\ s \o t \in Seq(Nat) /\ Len(s \o t) = Len(s) + Len(t)
        /\ \A i \in 1 .. Len(s) + Len(t) : (s \o t)[i] = IF i <= Len(s) THEN s[i] ELSE t[i - Len(s)]
    BY <2>4, <2>5, ConcatProperties
  <2>8. Len(s \o t) = Len(bytes) /\ \A i \in 1 .. u : (s \o t)[i] = s[i]
    BY <1>1, <2>2, <2>6, <2>7
  <2>9. \A i \in 1 .. u : bytes'[0 + i] = bytes[rbyte + n + i]
    <3> SUFFICES ASSUME NEW i \in 1 .. u PROVE bytes'[0 + i] = bytes[rbyte + n + i] OBVIOUS
    <3>1. 0 + i = i BY <1>1
    <3> QED BY <2>1, <2>2, <2>6, <2>8, <3>1
  <2>10. bytes' \in Seq(Nat) /\ Len(bytes') = Len(bytes) /\ wbyte' - rbyte' = u
    BY <1>1, <2>1, <2>7, <2>8
  <2>11. rbyte' \in Nat /\ wbyte' \in Nat /\ rbyte' <= wbyte' /\ wbyte' <= Len(bytes')
    BY <1>1, <2>1, <2>2, <2>10
  <2>12. \A i \in 1 .. u : bytes'[rbyte' + i] = bytes[rbyte + n + i] BY <2>1, <2>9
  <2> QED BY <2>10, <2>11, <2>12 DEF u
<1>3. CASE ~Frame!Shrinks(n)
  <2>1. bytes' = bytes /\ rbyte' = rbyte + n /\ wbyte' = wbyte BY <1>3 DEF Frame!consume
  <2> QED BY <1>1, <2>1
<1> QED BY <1>2, <1>3

\* The last of the messages that are complete.
LEMMA LastComplete ==
    ASSUME NEW k \in 0 .. Sent, NEW r \in Nat, EndOf(k) <= r
    PROVE  \E c \in k .. Sent : EndOf(c) <= r /\ (c < Sent => r < EndOf(c + 1))
<1>0. Sent \in Nat BY StreamType
<1> DEFINE U == {d \in 0 .. Sent - k : EndOf(Sent - d) <= r}
<1>1. U \subseteq Nat /\ U # {}
  <2>1. Sent - k \in 0 .. Sent - k /\ Sent - (Sent - k) = k BY <1>0
  <2>2. Sent - k \in U BY <2>1
  <2>3. U \subseteq Nat BY <1>0
  <2> HIDE DEF U
  <2> QED BY <2>2, <2>3
<1>2. PICK d \in U : \A j \in U : d <= j
  <2> HIDE DEF U
  <2> QED BY <1>1, LeastNumber
<1>3. d \in 0 .. Sent - k /\ EndOf(Sent - d) <= r BY <1>2
<1> DEFINE c == Sent - d
<1>4. c \in k .. Sent BY <1>0, <1>3
<1>5. ASSUME c < Sent PROVE r < EndOf(c + 1)
  <2>1. d - 1 \in 0 .. Sent - k /\ ~(d <= d - 1) /\ Sent - (d - 1) = c + 1 /\ c + 1 \in 0 .. Sent
    BY <1>0, <1>3, <1>5
  <2>2. ~(EndOf(c + 1) <= r)
    <3>1. d - 1 \notin U
      <4> HIDE DEF U
      <4> QED BY <1>2, <2>1
    <3> QED BY <2>1, <3>1
  <2>3. EndOf(c + 1) \in Nat BY <2>1, FlatType
  <2> QED BY <2>2, <2>3
<1> QED BY <1>3, <1>4, <1>5

\* The messages that are complete are passed on, and no others.
LEMMA ParseStep ==
    ASSUME NEW k \in 0 .. Sent, FramesPassed(k), Frame!Parse
    PROVE  \E c \in 0 .. Sent : FramesPassed(c)'
<1>1. /\ delivered = [j \in 1 .. k |-> Frame!Body(j)]
      /\ bytes \in Seq(Nat) /\ rbyte \in Nat /\ wbyte \in Nat
      /\ rbyte <= wbyte /\ wbyte <= Len(bytes)
      /\ received \in Nat /\ received <= Len(Frame!Stream) /\ EndOf(k) + (wbyte - rbyte) = received
      /\ \A i \in 1 .. wbyte - rbyte : bytes[rbyte + i] = Frame!Stream[EndOf(k) + i]
  BY DEF FramesPassed
<1>2. EndOf(k) \in Nat /\ Sent \in Nat /\ k \in Nat BY FlatType, StreamType
<1>3. EndOf(k) <= received BY <1>1, <1>2
<1>4. PICK c \in k .. Sent : EndOf(c) <= received /\ (c < Sent => received < EndOf(c + 1))
  BY <1>1, <1>3, LastComplete
<1>5. c \in 0 .. Sent /\ EndOf(c) \in Nat /\ EndOf(k) <= EndOf(c) /\ c \in Nat /\ k <= c
  <2>1. c \in 0 .. Sent BY <1>2
  <2> QED BY <1>2, <2>1, EndIncreases
<1> DEFINE data == Frame!buffer
           u == wbyte - rbyte
           n == EndOf(c) - EndOf(k)
           ms == [j \in 1 .. c - k |-> Frame!Body(k + j)]
<1>6. data \in Seq(Nat) /\ Len(data) = u /\ \A i \in 1 .. u : data[i] = bytes[rbyte + i]
  <2> DEFINE lo == rbyte + 1
  <2>1. data = SubSeq(bytes, lo, wbyte) BY DEF Frame!buffer
  <2>2. /\ lo \in Int /\ lo .. wbyte \subseteq 1 .. Len(bytes) /\ wbyte - lo + 1 = u
        /\ (IF lo <= wbyte THEN wbyte - lo + 1 ELSE 0) = u
        /\ \A i \in 1 .. u : lo + i - 1 = rbyte + i
    BY <1>1
  <2> HIDE DEF lo, data
  <2>3. \A i \in lo .. wbyte : bytes[i] \in Nat BY <1>1, <2>2, ElementOfSeq
  <2>4. /\ data \in Seq(Nat) /\ Len(data) = IF lo <= wbyte THEN wbyte - lo + 1 ELSE 0
        /\ \A i \in 1 .. wbyte - lo + 1 : data[i] = bytes[lo + i - 1]
    <3>1. /\ SubSeq(bytes, lo, wbyte) \in Seq(Nat)
          /\ Len(SubSeq(bytes, lo, wbyte)) = IF lo <= wbyte THEN wbyte - lo + 1 ELSE 0
          /\ \A i \in 1 .. wbyte - lo + 1 : SubSeq(bytes, lo, wbyte)[i] = bytes[lo + i - 1]
      <4>1. lo \in Int /\ wbyte \in Int BY <1>1, <2>2
      <4> QED BY <2>3, <4>1, SubSeqProperties
    <3> QED BY <2>1, <3>1
  <2> QED BY <2>2, <2>4
<1> HIDE DEF data
<1>7. Frame!parse_frame(data) = [messages |-> ms, consumed |-> n]
  <2>1. \A i \in 1 .. Len(data) : data[i] = Frame!Stream[EndOf(k) + i] BY <1>1, <1>6
  <2>2. EndOf(k) + Len(data) = received BY <1>1, <1>6
  <2> QED BY <1>1, <1>4, <1>6, <2>1, <2>2, ParseResult
<1>8. /\ delivered' = delivered \o ms /\ Frame!consume(n) /\ parsed' = TRUE /\ received' = received
  <2>1. Frame!parse_frame(data).messages = ms /\ Frame!parse_frame(data).consumed = n
    <3> HIDE DEF ms, n
    <3> QED BY <1>7
  <2> HIDE DEF ms, n
  <2> QED BY <2>1 DEF Frame!Parse, data
<1> DEFINE e == EndOf(k)
           f == EndOf(c)
<1>9. /\ e \in Nat /\ f \in Nat /\ e <= f /\ f <= received /\ e + u = received /\ n = f - e
  BY <1>1, <1>2, <1>4, <1>5
<1>10. u \in Nat BY <1>1
<1> HIDE DEF e, f, n, u
<1>11. n \in 0 .. u /\ n \in Nat /\ f + (u - n) = received /\ \A i \in Int : e + (n + i) = f + i
  <2>1. received \in Nat BY <1>1
  <2>2. n \in 0 .. u /\ n \in Nat /\ f + (u - n) = received BY <1>9, <1>10, <2>1
  <2>3. \A i \in Int : e + (n + i) = f + i BY <1>9, <1>10
  <2> QED BY <2>2, <2>3
<1>12. /\ bytes' \in Seq(Nat) /\ rbyte' \in Nat /\ wbyte' \in Nat
       /\ rbyte' <= wbyte' /\ wbyte' <= Len(bytes')
       /\ wbyte' - rbyte' = wbyte - rbyte - n
       /\ \A i \in 1 .. wbyte - rbyte - n : bytes'[rbyte' + i] = bytes[rbyte + n + i]
  <2>1. n \in 0 .. wbyte - rbyte BY <1>11 DEF u
  <2> QED BY <1>1, <1>8, <2>1, ConsumeStep
<1>13. EndOf(c) + (wbyte' - rbyte') = received'
  BY <1>8, <1>11, <1>12 DEF u, f
<1>14. \A i \in 1 .. wbyte' - rbyte' : bytes'[rbyte' + i] = Frame!Stream[EndOf(c) + i]
  <2> SUFFICES ASSUME NEW i \in 1 .. u - n PROVE bytes'[rbyte' + i] = Frame!Stream[f + i]
    BY <1>12 DEF u, f
  <2>1. n + i \in 1 .. u /\ rbyte + n + i = rbyte + (n + i) /\ i \in Int
    <3>1. n \in Nat /\ n <= u /\ u \in Nat /\ rbyte \in Nat BY <1>1, <1>10, <1>11
    <3> QED BY <3>1
  <2>2. bytes'[rbyte' + i] = bytes[rbyte + n + i] BY <1>12 DEF u
  <2>3. bytes[rbyte + (n + i)] = Frame!Stream[e + (n + i)] BY <1>1, <2>1 DEF u, e
  <2> QED BY <1>11, <2>1, <2>2, <2>3
<1>15. delivered' = [j \in 1 .. c |-> Frame!Body(j)]
  <2> DEFINE T == {Frame!Body(j) : j \in Nat}
             x == [j \in 1 .. k |-> Frame!Body(j)]
             y == [j \in 1 .. c |-> Frame!Body(j)]
             d == c - k
  <2>1. \A j \in Nat : Frame!Body(j) \in T OBVIOUS
  <2>2. d \in Nat /\ c = k + d BY <1>2, <1>5
  <2>3. ms = [j \in 1 .. d |-> Frame!Body(k + j)] OBVIOUS
  <2> HIDE DEF T, d, ms
  <2>4. x \in Seq(T) /\ Len(x) = k /\ \A j \in 1 .. k : x[j] = Frame!Body(j)
    <3>1. \A j \in 1 .. k : Frame!Body(j) \in T BY <1>2, <2>1
    <3> QED BY <1>2, <3>1
  <2>5. y \in Seq(T) /\ Len(y) = c /\ \A j \in 1 .. c : y[j] = Frame!Body(j)
    <3>1. \A j \in 1 .. c : Frame!Body(j) \in T BY <1>5, <2>1
    <3> QED BY <1>5, <3>1
  <2>6. ms \in Seq(T) /\ Len(ms) = d /\ \A j \in 1 .. d : ms[j] = Frame!Body(k + j)
    <3>1. \A j \in 1 .. d : Frame!Body(k + j) \in T BY <1>2, <2>1, <2>2
    <3>2. d \in Nat BY <2>2
    <3> QED BY <2>3, <3>1, <3>2
  <2>7. delivered' = x \o ms BY <1>1, <1>8
  <2> HIDE DEF x, y
  <2>8. /\ x \o ms \in Seq(T) /\ Len(x \o ms) = Len(x) + Len(ms)
        /\ \A j \in 1 .. Len(x) + Len(ms) :
              (x \o ms)[j] = IF j <= Len(x) THEN x[j] ELSE ms[j - Len(x)]
    <3>1. x \in Seq(T) /\ ms \in Seq(T) BY <2>4, <2>6
    <3> QED BY <3>1, ConcatProperties
  <2>9. Len(x \o ms) = c /\ \A j \in 1 .. c : (x \o ms)[j] = IF j <= k THEN x[j] ELSE ms[j - k]
    BY <2>2, <2>4, <2>6, <2>8
  <2>10. \A j \in 1 .. c : (x \o ms)[j] = y[j]
    <3> SUFFICES ASSUME NEW j \in 1 .. c PROVE (x \o ms)[j] = y[j] OBVIOUS
    <3>1. CASE j <= k
      <4>1. j \in 1 .. k BY <1>2, <1>5, <3>1
      <4> QED BY <2>4, <2>5, <2>9, <3>1, <4>1
    <3>2. CASE ~(j <= k)
      <4>1. j - k \in 1 .. d /\ k + (j - k) = j BY <1>2, <1>5, <2>2, <3>2
      <4>2. ms[j - k] = Frame!Body(j) BY <2>6, <4>1
      <4> QED BY <2>5, <2>9, <3>2, <4>2
    <3> QED BY <3>1, <3>2
  <2>11. x \o ms = y BY <2>5, <2>8, <2>9, <2>10, SeqEqual
  <2> QED BY <2>7, <2>11 DEF y
<1>16. FramesPassed(c)'
  BY <1>1, <1>4, <1>8, <1>12, <1>13, <1>14, <1>15
    DEF FramesPassed, Frame!Stream, EndOf, Flat, FrameOf, Sent
<1> QED BY <1>5, <1>16 DEF Sent

\* However the stream is cut into portions, and wherever consume() moves the unread bytes, the
\* messages that are passed on are those received completely, intact, in order, each once: for
\* every sequence of messages whose lengths fit a header, and every threshold.
THEOREM FramesAreDelivered == Spec => []MessagesDelivered
<1>1. Init => FrameInv
  <2> SUFFICES ASSUME Init PROVE FrameInv OBVIOUS
  <2>1. /\ bytes = <<>> /\ rbyte = 0 /\ wbyte = 0
        /\ received = 0 /\ delivered = <<>> /\ parsed = TRUE
    BY DEF Init, Frame!Init
  <2>2. FramesPassed(0) BY <2>1, PassedNothing DEF FramesPassed
  <2>3. 0 \in 0 .. Sent BY StreamType
  <2> QED BY <2>2, <2>3 DEF FrameInv
<1>2. FrameInv /\ [Next]_vars => FrameInv'
  <2> SUFFICES ASSUME FrameInv, [Next]_vars PROVE \E k \in 0 .. Sent : FramesPassed(k)'
    BY DEF FrameInv, Sent
  <2>1. [Frame!Next]_(Frame!vars) BY StepsOfComponents
  <2>2. PICK k \in 0 .. Sent : FramesPassed(k) BY DEF FrameInv
  <2>3. ASSUME NEW size \in Portions, NEW n \in 1 .. Len(Frame!prepare(size)) - wbyte,
               Frame!Receive(size, n)
        PROVE  \E j \in 0 .. Sent : FramesPassed(j)'
    BY <2>2, <2>3, ReceiveStep
  <2>4. CASE Frame!Parse BY <2>2, <2>4, ParseStep
  <2>5. CASE Frame!clear
    <3>1. /\ bytes' = <<>> /\ rbyte' = 0 /\ wbyte' = 0
          /\ received' = 0 /\ delivered' = <<>> /\ parsed' = TRUE
      BY <2>5 DEF Frame!clear
    <3>2. FramesPassed(0)' BY <3>1, PassedNothing DEF FramesPassed, Frame!Stream, EndOf, Flat, FrameOf, Sent
    <3>3. 0 \in 0 .. Sent BY StreamType
    <3> QED BY <3>2, <3>3
  <2>6. CASE UNCHANGED Frame!vars
    BY <2>2, <2>6 DEF Frame!vars, FramesPassed, Frame!Stream, EndOf, Flat, FrameOf, Sent
  <2> QED BY <2>1, <2>3, <2>4, <2>5, <2>6 DEF Frame!Next
<1>3. FrameInv => MessagesDelivered
  BY PassedIsDelivered DEF FrameInv, MessagesDelivered
<1> QED BY <1>1, <1>2, <1>3, PTL DEF Spec

-----------------------------------------------------------------------------
(* Powers of two *)

\* The first powers.
Doubles(n, g) == g = [k \in 0 .. n |-> IF k = 0 THEN 1 ELSE 2 * g[k - 1]]

LEMMA DoublesAt ==
    ASSUME NEW n, NEW g, Doubles(n, g), NEW k \in 0 .. n
    PROVE  g[k] = IF k = 0 THEN 1 ELSE 2 * g[k - 1]
<1> DEFINE h == [i \in 0 .. n |-> IF i = 0 THEN 1 ELSE 2 * g[i - 1]]
<1>1. g = h BY DEF Doubles
<1>2. h[k] = IF k = 0 THEN 1 ELSE 2 * g[k - 1] OBVIOUS
<1> HIDE DEF h
<1> QED BY <1>1, <1>2

LEMMA DoublesUnique ==
    ASSUME NEW m \in Nat, NEW n \in Nat, NEW g, NEW h, Doubles(m, g), Doubles(n, h),
           NEW k \in Nat, k <= m, k <= n
    PROVE  g[k] = h[k]
<1> SUFFICES ASSUME g[k] # h[k] PROVE FALSE OBVIOUS
<1> DEFINE U == {i \in 0 .. k : g[i] # h[i]}
<1>1. U \subseteq Nat /\ U # {} OBVIOUS
<1>2. PICK i \in U : \A j \in U : i <= j
  <2> HIDE DEF U
  <2> QED BY <1>1, LeastNumber
<1>3. i \in 0 .. m /\ i \in 0 .. n /\ i \in 0 .. k BY <1>2
<1>4. /\ g[i] = IF i = 0 THEN 1 ELSE 2 * g[i - 1]
      /\ h[i] = IF i = 0 THEN 1 ELSE 2 * h[i - 1]
  BY <1>3, DoublesAt
<1>5. i # 0 => g[i - 1] = h[i - 1] BY <1>2, <1>3
<1> QED BY <1>2, <1>3, <1>4, <1>5

LEMMA DoublesExists ==
    ASSUME NEW n \in Nat
    PROVE  \E g : Doubles(n, g)
<1> SUFFICES ASSUME ~ \E g : Doubles(n, g) PROVE FALSE OBVIOUS
<1> DEFINE U == {m \in Nat : ~ \E g : Doubles(m, g)}
<1>1. U \subseteq Nat /\ U # {} OBVIOUS
<1>2. PICK m \in U : \A j \in U : m <= j
  <2> HIDE DEF U
  <2> QED BY <1>1, LeastNumber
<1>3. m # 0
  <2> DEFINE one == [k \in 0 .. 0 |-> 1]
  <2>1. one = [k \in 0 .. 0 |-> IF k = 0 THEN 1 ELSE 2 * one[k - 1]] OBVIOUS
  <2>2. Doubles(0, one) BY <2>1 DEF Doubles
  <2> QED BY <1>2, <2>2
<1>4. PICK h : Doubles(m - 1, h)
  <2>1. m - 1 \in Nat /\ ~(m <= m - 1) BY <1>2, <1>3
  <2> QED BY <1>2, <2>1
<1> DEFINE g == [k \in 0 .. m |-> IF k = m THEN 2 * h[m - 1] ELSE h[k]]
<1>5. ASSUME NEW k \in 0 .. m PROVE g[k] = IF k = 0 THEN 1 ELSE 2 * g[k - 1]
  <2>1. k # 0 => k - 1 \in 0 .. m /\ g[k - 1] = h[k - 1] BY <1>2
  <2>2. CASE k = m BY <1>3, <2>1, <2>2
  <2>3. CASE k # m
    <3>1. k \in 0 .. m - 1 BY <1>2, <2>3
    <3>2. h[k] = IF k = 0 THEN 1 ELSE 2 * h[k - 1] BY <1>4, <3>1, DoublesAt
    <3> QED BY <2>1, <2>3, <3>2
  <2> QED BY <2>2, <2>3
<1>6. Doubles(m, g)
  <2> DEFINE f == [k \in 0 .. m |-> IF k = 0 THEN 1 ELSE 2 * g[k - 1]]
  <2>1. g = [k \in 0 .. m |-> g[k]] OBVIOUS
  <2> HIDE DEF g
  <2>2. [k \in 0 .. m |-> g[k]] = f BY <1>5
  <2>3. g = f BY <2>1, <2>2
  <2> QED BY <2>3 DEF Doubles
<1> HIDE DEF g
<1> QED BY <1>2, <1>6

\* pow2 is what its definition says.
LEMMA Pow2Defined ==
    Histo!pow2 = [k \in Nat |-> IF k = 0 THEN 1 ELSE 2 * Histo!pow2[k - 1]]
<1> DEFINE D(n) == CHOOSE g : Doubles(n, g)
           p == [n \in Nat |-> D(n)[n]]
<1>1. \A n \in Nat : Doubles(n, D(n))
  <2> TAKE n \in Nat
  <2>1. \E g : Doubles(n, g) BY DoublesExists
  <2> QED BY <2>1
<1> HIDE DEF D
<1>2. ASSUME NEW k \in Nat PROVE p[k] = IF k = 0 THEN 1 ELSE 2 * p[k - 1]
  <2>1. D(k)[k] = IF k = 0 THEN 1 ELSE 2 * D(k)[k - 1]
    <3>1. k \in 0 .. k OBVIOUS
    <3> QED BY <1>1, <3>1, DoublesAt
  <2>2. CASE k = 0 BY <2>1, <2>2
  <2>3. CASE k # 0
    <3>1. k - 1 \in Nat /\ k - 1 <= k /\ k - 1 <= k - 1 BY <2>3
    <3>2. Doubles(k, D(k)) /\ Doubles(k - 1, D(k - 1)) BY <1>1, <3>1
    <3>3. D(k)[k - 1] = D(k - 1)[k - 1] BY <3>1, <3>2, DoublesUnique
    <3> QED BY <2>1, <2>3, <3>1, <3>3
  <2> QED BY <2>2, <2>3
<1>3. p = [k \in Nat |-> p[k]] OBVIOUS
<1> HIDE DEF p
<1>4. p = [k \in Nat |-> IF k = 0 THEN 1 ELSE 2 * p[k - 1]] BY <1>2, <1>3
<1> QED BY <1>4 DEF Histo!pow2

\* 1 << k
Pow2(k) == Histo!pow2[k]

LEMMA Pow2Step ==
    /\ Pow2(0) = 1
    /\ \A k \in Nat : Pow2(k) \in Nat \ {0} /\ Pow2(k + 1) = 2 * Pow2(k)
<1> DEFINE f == [k \in Nat |-> IF k = 0 THEN 1 ELSE 2 * Histo!pow2[k - 1]]
<1>1. Histo!pow2 = f BY Pow2Defined
<1>2. f[0] = 1 /\ \A k \in Nat : k + 1 \in Nat /\ f[k + 1] = 2 * Histo!pow2[(k + 1) - 1] OBVIOUS
<1>3. \A k \in Nat : (k + 1) - 1 = k OBVIOUS
<1> HIDE DEF f
<1>4. Pow2(0) = 1 /\ \A k \in Nat : Pow2(k + 1) = 2 * Pow2(k) BY <1>1, <1>2, <1>3 DEF Pow2
<1>5. ASSUME NEW n \in Nat, ~(Pow2(n) \in Nat \ {0}) PROVE FALSE
  <2> DEFINE U == {k \in Nat : ~(Pow2(k) \in Nat \ {0})}
  <2>1. U \subseteq Nat /\ U # {} BY <1>5
  <2>2. PICK k \in U : \A j \in U : k <= j
    <3> HIDE DEF U
    <3> QED BY <2>1, LeastNumber
  <2>3. k # 0 BY <1>4, <2>2
  <2>4. k - 1 \in Nat /\ ~(k <= k - 1) /\ (k - 1) + 1 = k BY <2>2, <2>3
  <2>5. Pow2(k - 1) \in Nat \ {0} BY <2>2, <2>4
  <2>6. Pow2(k) = 2 * Pow2(k - 1) BY <1>4, <2>4
  <2> QED BY <2>2, <2>5, <2>6
<1> QED BY <1>4, <1>5

\* A greater exponent gives a greater power.
LEMMA Pow2Grows ==
    ASSUME NEW j \in Nat, NEW k \in Nat, j < k
    PROVE  2 * Pow2(j) <= Pow2(k)
<1> SUFFICES ASSUME ~(2 * Pow2(j) <= Pow2(k)) PROVE FALSE OBVIOUS
<1> DEFINE U == {i \in Nat : j < i /\ ~(2 * Pow2(j) <= Pow2(i))}
<1>1. U \subseteq Nat /\ U # {} OBVIOUS
<1>2. PICK i \in U : \A l \in U : i <= l
  <2> HIDE DEF U
  <2> QED BY <1>1, LeastNumber
<1>3. /\ i - 1 \in Nat /\ ~(i <= i - 1) /\ (i - 1) + 1 = i BY <1>2
<1>4. Pow2(i) = 2 * Pow2(i - 1) /\ Pow2(i - 1) \in Nat /\ Pow2(j) \in Nat BY <1>3, Pow2Step
<1>5. i - 1 # j BY <1>2, <1>4
<1>6. j < i - 1 BY <1>2, <1>3, <1>5
<1>7. 2 * Pow2(j) <= Pow2(i - 1) BY <1>2, <1>3, <1>6
<1> QED BY <1>2, <1>4, <1>7

\* A product of powers.
LEMMA Pow2Sum ==
    ASSUME NEW j \in Nat, NEW k \in Nat
    PROVE  Pow2(j + k) = Pow2(j) * Pow2(k)
<1> SUFFICES ASSUME Pow2(j + k) # Pow2(j) * Pow2(k) PROVE FALSE OBVIOUS
<1> DEFINE U == {i \in Nat : Pow2(j + i) # Pow2(j) * Pow2(i)}
<1>1. U \subseteq Nat /\ U # {} OBVIOUS
<1>2. PICK i \in U : \A l \in U : i <= l
  <2> HIDE DEF U
  <2> QED BY <1>1, LeastNumber
<1>3. Pow2(j) \in Nat BY Pow2Step
<1>4. i # 0
  <2>1. j + 0 = j /\ Pow2(j) * 1 = Pow2(j) BY <1>3
  <2> QED BY <1>2, <2>1, Pow2Step
<1>5. /\ i - 1 \in Nat /\ ~(i <= i - 1) /\ (i - 1) + 1 = i
      /\ j + (i - 1) \in Nat /\ (j + (i - 1)) + 1 = j + i
  BY <1>2, <1>4
<1>6. Pow2(j + (i - 1)) = Pow2(j) * Pow2(i - 1) BY <1>2, <1>5
<1>7. Pow2(i) = 2 * Pow2(i - 1) /\ Pow2(i - 1) \in Nat BY <1>5, Pow2Step
<1>8. Pow2(j + i) = 2 * Pow2(j + (i - 1)) BY <1>5, Pow2Step
<1>9. Pow2(j + i) = Pow2(j) * Pow2(i)
  <2> DEFINE a == Pow2(j)
             b == Pow2(i - 1)
  <2>1. a \in Nat /\ b \in Nat BY <1>3, <1>7
  <2>2. Pow2(j + i) = 2 * (a * b) /\ Pow2(i) = 2 * b BY <1>6, <1>7, <1>8
  <2> HIDE DEF a, b
  <2>3. 2 * (a * b) = a * (2 * b) BY <2>1
  <2> QED BY <2>2, <2>3 DEF a
<1> QED BY <1>2, <1>9

-----------------------------------------------------------------------------
(* Buckets of the histogram *)

LEMMA Pow2Exceeds ==
    ASSUME NEW n \in Nat
    PROVE  n < Pow2(n)
<1> SUFFICES ASSUME ~(n < Pow2(n)) PROVE FALSE OBVIOUS
<1> DEFINE U == {k \in Nat : ~(k < Pow2(k))}
<1>1. U \subseteq Nat /\ U # {} OBVIOUS
<1>2. PICK k \in U : \A j \in U : k <= j
  <2> HIDE DEF U
  <2> QED BY <1>1, LeastNumber
<1>3. k # 0 BY <1>2, Pow2Step
<1>4. k - 1 \in Nat /\ ~(k <= k - 1) /\ (k - 1) + 1 = k BY <1>2, <1>3
<1>5. Pow2(k) = 2 * Pow2(k - 1) /\ Pow2(k - 1) \in Nat BY <1>4, Pow2Step
<1>6. k - 1 < Pow2(k - 1) BY <1>2, <1>4
<1> QED BY <1>2, <1>4, <1>5, <1>6

LEMMA BitLengthIs ==
    ASSUME NEW n \in Nat
    PROVE  /\ Histo!BitLength(n) \in Nat
           /\ n < Pow2(Histo!BitLength(n))
           /\ Histo!BitLength(n) = 0 \/ n >= Pow2(Histo!BitLength(n) - 1)
<1> DEFINE U == {k \in 0 .. n : n < Pow2(k)}
<1>1. U \subseteq Nat /\ U # {} BY Pow2Exceeds
<1>2. PICK k \in U : \A j \in U : k <= j
  <2> HIDE DEF U
  <2> QED BY <1>1, LeastNumber
<1>3. k = 0 \/ n >= Pow2(k - 1)
  <2> SUFFICES ASSUME k # 0 PROVE n >= Pow2(k - 1) OBVIOUS
  <2>1. k - 1 \in 0 .. n /\ ~(k <= k - 1) /\ k - 1 \in Nat BY <1>2
  <2>2. Pow2(k - 1) \in Nat BY <2>1, Pow2Step
  <2>3. ~(n < Pow2(k - 1)) BY <1>2, <2>1
  <2> QED BY <2>2, <2>3
<1>4. \E i \in 0 .. n : n < Pow2(i) /\ (i = 0 \/ n >= Pow2(i - 1)) BY <1>2, <1>3
<1> DEFINE m == Histo!BitLength(n)
<1>5. m \in 0 .. n /\ n < Pow2(m) /\ (m = 0 \/ n >= Pow2(m - 1))
  BY <1>4 DEF Histo!BitLength, Pow2
<1> QED BY <1>5

\* The length says below which powers a number is.
LEMMA BitLengthBelow ==
    ASSUME NEW n \in Nat, NEW k \in Nat
    PROVE  n < Pow2(k) <=> Histo!BitLength(n) <= k
<1> DEFINE b == Histo!BitLength(n)
<1>1. b \in Nat /\ n < Pow2(b) /\ (b = 0 \/ n >= Pow2(b - 1)) BY BitLengthIs
<1> HIDE DEF b
<1>3. Pow2(k) \in Nat /\ Pow2(b) \in Nat BY <1>1, Pow2Step
<1>4. CASE b < k
  <2>1. 2 * Pow2(b) <= Pow2(k) BY <1>1, <1>4, Pow2Grows
  <2> QED BY <1>1, <1>3, <1>4, <2>1 DEF b
<1>5. CASE b = k BY <1>1, <1>5 DEF b
<1>6. CASE k < b
  <2>1. b - 1 \in Nat /\ Pow2(b - 1) \in Nat BY <1>1, <1>6, Pow2Step
  <2>2. Pow2(k) <= Pow2(b - 1)
    <3>1. CASE k = b - 1 BY <1>3, <3>1
    <3>2. CASE k < b - 1
      <4>1. 2 * Pow2(k) <= Pow2(b - 1) BY <2>1, <3>2, Pow2Grows
      <4> QED BY <1>3, <2>1, <4>1
    <3> QED BY <1>1, <1>6, <3>1, <3>2
  <2> QED BY <1>1, <1>3, <1>6, <2>1, <2>2 DEF b
<1> QED BY <1>1, <1>4, <1>5, <1>6

\* The configuration: the unit is no greater than the lowest value, and a bucket has at least
\* as many sub-buckets in its upper half as the figures tell apart.
Unit == Histo!unit_magnitude
HalfBits == Histo!sub_bucket_half_count_magnitude
Half == Histo!sub_bucket_half_count

LEMMA ConfigIs ==
    ASSUME config \in Configs
    PROVE  /\ Unit \in Nat /\ HalfBits \in Nat
           /\ Pow2(Unit) <= config.lowest
           /\ 10 ^ config.figures \in Nat /\ 10 ^ config.figures <= Pow2(HalfBits)
           /\ Half = Pow2(HalfBits) /\ Half \in Nat \ {0}
           /\ config.lowest \in Nat \ {0} /\ config.highest \in Nat
<1>1. /\ config.lowest \in Nat \ {0} /\ config.figures \in 1 .. 5 /\ config.highest \in Nat
  BY HistogramAssumption
<1>5. Unit \in Nat /\ Pow2(Unit) <= config.lowest
  <2> DEFINE b == Histo!BitLength(config.lowest)
  <2>1. b \in Nat /\ config.lowest < Pow2(b) /\ (b = 0 \/ config.lowest >= Pow2(b - 1))
    BY <1>1, BitLengthIs
  <2>2. Unit = b - 1 BY DEF Unit, Histo!unit_magnitude
  <2> HIDE DEF b
  <2>3. b # 0 BY <1>1, <2>1, Pow2Step
  <2>4. b - 1 \in Nat BY <2>1, <2>3
  <2>5. Pow2(b - 1) \in Nat BY <2>4, Pow2Step
  <2> QED BY <1>1, <2>1, <2>2, <2>3, <2>4, <2>5
<1> DEFINE t == 10 ^ config.figures
<1>6. t \in {10, 100, 1000, 10000, 100000}
  <2>1. config.figures \in {1, 2, 3, 4, 5} BY <1>1
  <2>2. \A f, g : f = g => 10 ^ f = 10 ^ g BY Zenon
  <2>3. \/ t = 10 ^ 1 \/ t = 10 ^ 2 \/ t = 10 ^ 3 \/ t = 10 ^ 4 \/ t = 10 ^ 5 BY <2>1, <2>2, Zenon
  <2>4. /\ 10 ^ 1 = 10 /\ 10 ^ 2 = 100 /\ 10 ^ 3 = 1000 /\ 10 ^ 4 = 10000 /\ 10 ^ 5 = 100000
    BY SMT
  <2> HIDE DEF t
  <2> QED BY <2>3, <2>4, SMT
<1>7. HalfBits = Histo!BitLength(2 * t - 1) - 1
  BY DEF HalfBits, Histo!sub_bucket_half_count_magnitude
<1> HIDE DEF t
<1>8. t \in Nat \ {0} BY <1>6, SMT
<1>10. HalfBits \in Nat /\ t <= Pow2(HalfBits)
  <2> DEFINE b == Histo!BitLength(2 * t - 1)
  <2>0. 2 * t - 1 \in Nat BY <1>8
  <2>1. b \in Nat /\ 2 * t - 1 < Pow2(b) BY <2>0, BitLengthIs
  <2>2. HalfBits = b - 1 BY <1>7
  <2> HIDE DEF b
  <2>3. b # 0 BY <1>8, <2>1, Pow2Step
  <2>4. b - 1 \in Nat /\ (b - 1) + 1 = b BY <2>1, <2>3
  <2>5. Pow2(b - 1) \in Nat /\ Pow2(b) = 2 * Pow2(b - 1) BY <2>4, Pow2Step
  <2> QED BY <1>8, <2>1, <2>2, <2>4, <2>5
<1>11. Half = Pow2(HalfBits) BY DEF Half, HalfBits, Pow2, Histo!sub_bucket_half_count
<1>12. Half \in Nat \ {0} BY <1>10, <1>11, Pow2Step
<1> QED BY <1>1, <1>5, <1>8, <1>10, <1>11, <1>12 DEF t

\* v lies in sub-bucket s of bucket b; the lower half of a bucket after the first is not used.
InBucket(v, b, s) ==
    /\ b \in Nat /\ s \in Nat
    /\ s * Pow2(b + Unit) <= v /\ v < (s + 1) * Pow2(b + Unit)
    /\ s < 2 * Half /\ (b = 0 \/ s >= Half)

LEMMA MaxOfTwo ==
    ASSUME NEW a \in Int, NEW b \in Int
    PROVE  Histo!Max({a, b}) = IF a >= b THEN a ELSE b
<1>1. \E x \in {a, b} : \A y \in {a, b} : x >= y OBVIOUS
<1> DEFINE m == CHOOSE x \in {a, b} : \A y \in {a, b} : x >= y
<1>2. m \in {a, b} /\ \A y \in {a, b} : m >= y BY <1>1
<1>3. Histo!Max({a, b}) = m BY DEF Histo!Max
<1> HIDE DEF m
<1> QED BY <1>2, <1>3

\* The widths of the buckets.
LEMMA Widths ==
    ASSUME config \in Configs, NEW b \in Nat
    PROVE  /\ Pow2(b + Unit) \in Nat \ {0}
           /\ Pow2((b + Unit) + HalfBits) = Half * Pow2(b + Unit)
           /\ Pow2(((b + Unit) + HalfBits) + 1) = 2 * Half * Pow2(b + Unit)
<1>1. Unit \in Nat /\ HalfBits \in Nat /\ Half = Pow2(HalfBits) /\ Half \in Nat BY ConfigIs
<1>2. b + Unit \in Nat /\ (b + Unit) + HalfBits \in Nat BY <1>1
<1> DEFINE w == Pow2(b + Unit)
<1>3. w \in Nat \ {0} BY <1>2, Pow2Step
<1>4. Pow2((b + Unit) + HalfBits) = w * Half BY <1>1, <1>2, Pow2Sum
<1>5. Pow2(((b + Unit) + HalfBits) + 1) = 2 * Pow2((b + Unit) + HalfBits) BY <1>2, Pow2Step
<1> HIDE DEF w
<1>6. w * Half = Half * w /\ 2 * (w * Half) = 2 * Half * w BY <1>1, <1>3
<1> QED BY <1>3, <1>4, <1>5, <1>6 DEF w

\* A product grows with its first factor.
LEMMA ProductOrder ==
    ASSUME NEW a \in Nat, NEW b \in Nat, NEW w \in Nat \ {0}
    PROVE  /\ a <= b => a * w <= b * w
           /\ a * w < b * w => a < b
           /\ a * w \in Nat
<1>1. a * w \in Nat /\ b * w \in Nat OBVIOUS
<1>2. ASSUME NEW x \in Nat, NEW y \in Nat, x <= y PROVE x * w <= y * w
  <2>1. y - x \in Nat /\ y = x + (y - x) BY <1>2
  <2> DEFINE d == y - x
  <2>2. d * w \in Nat BY <2>1
  <2> HIDE DEF d
  <2>3. (x + d) * w = x * w + d * w BY <2>1 DEF d
  <2>4. y = x + d BY <2>1 DEF d
  <2>5. y * w = x * w + d * w BY <2>3, <2>4
  <2>6. x * w \in Nat OBVIOUS
  <2> QED BY <2>2, <2>5, <2>6
<1>3. a <= b => a * w <= b * w BY <1>2
<1>4. b <= a => b * w <= a * w BY <1>2
<1>5. a * w < b * w => a < b BY <1>1, <1>4
<1> QED BY <1>1, <1>3, <1>5

LEMMA BucketIs ==
    ASSUME config \in Configs, NEW v \in Nat
    PROVE  InBucket(v, Histo!get_bucket_index(v), Histo!get_sub_bucket_index(v))
<1>1. /\ Unit \in Nat /\ HalfBits \in Nat /\ Half \in Nat \ {0} /\ Half = Pow2(HalfBits)
  BY ConfigIs
<1> DEFINE n == Histo!BitLength(v)
           b == Histo!get_bucket_index(v)
           w == Pow2(b + Unit)
           s == Histo!get_sub_bucket_index(v)
<1>2. n \in Nat BY BitLengthIs
<1>3. b = Histo!Max({n, Unit + HalfBits + 1}) - Unit - (HalfBits + 1)
  BY DEF Histo!get_bucket_index, Unit, HalfBits
<1>4. Histo!Max({n, Unit + HalfBits + 1}) = IF n >= Unit + HalfBits + 1 THEN n ELSE Unit + HalfBits + 1
  BY <1>1, <1>2, MaxOfTwo
<1>5. /\ b \in Nat /\ n <= ((b + Unit) + HalfBits) + 1
      /\ b = 0 \/ ~(n <= (b + Unit) + HalfBits)
  <2> HIDE DEF n, b
  <2> QED BY <1>1, <1>2, <1>3, <1>4
<1>6. s = v \div w BY DEF Histo!get_sub_bucket_index, Pow2, Unit
<1> HIDE DEF b
<1>7. /\ w \in Nat \ {0} /\ Pow2((b + Unit) + HalfBits) = Half * w
      /\ Pow2(((b + Unit) + HalfBits) + 1) = 2 * Half * w
  BY <1>5, Widths
<1>8. (b + Unit) + HalfBits \in Nat /\ ((b + Unit) + HalfBits) + 1 \in Nat BY <1>1, <1>5
<1>9. v < 2 * Half * w BY <1>5, <1>7, <1>8, BitLengthBelow
<1>10. b = 0 \/ Half * w <= v
  <2>1. b = 0 \/ ~(v < Half * w) BY <1>5, <1>7, <1>8, BitLengthBelow
  <2>2. Half * w \in Nat BY <1>1, <1>7
  <2> QED BY <1>1, <2>1, <2>2
<1> HIDE DEF n, w, s
<1>11. s \in Nat /\ s * w <= v /\ v < (s + 1) * w
  <2>1. s \in Int /\ v % w \in 0 .. w - 1 /\ v = w * s + (v % w) 
    <3>1. v \in Int /\ w \in Nat \ {0} BY <1>1, <1>7
    <3> QED BY <1>6, <3>1, DivMod
  <2> DEFINE r == v % w
  <2>2. r \in Nat /\ r < w /\ v = w * s + r BY <1>7, <2>1
  <2> HIDE DEF r
  <2>3. s \in Nat
    <3> SUFFICES ASSUME s < 0 PROVE FALSE BY <2>1
    <3>1. w * s <= w * (-1) BY <1>7, <2>1
    <3> QED BY <1>1, <1>7, <2>1, <2>2, <3>1
  <2>4. w * s = s * w /\ (s + 1) * w = s * w + w /\ s * w \in Nat BY <1>7, <2>3
  <2> QED BY <1>7, <2>2, <2>3, <2>4
<1>12. s < 2 * Half
  <2>1. 2 * Half \in Nat /\ s * w \in Nat /\ 2 * Half * w \in Nat BY <1>1, <1>7, <1>11
  <2>2. s * w < 2 * Half * w BY <1>1, <1>9, <1>11, <2>1
  <2> QED BY <1>7, <1>11, <2>1, <2>2, ProductOrder
<1>13. b = 0 \/ s >= Half
  <2> SUFFICES ASSUME b # 0 PROVE s >= Half OBVIOUS
  <2>1. s + 1 \in Nat /\ (s + 1) * w \in Nat /\ Half * w \in Nat BY <1>1, <1>7, <1>11
  <2>2. Half * w < (s + 1) * w BY <1>1, <1>10, <1>11, <2>1
  <2>3. Half < s + 1 BY <1>1, <1>7, <2>1, <2>2, ProductOrder
  <2> QED BY <1>1, <1>11, <2>3
<1> QED BY <1>5, <1>11, <1>12, <1>13 DEF InBucket, b, w, s

LEMMA BucketUnique ==
    ASSUME config \in Configs, NEW v \in Nat, NEW b, NEW s, InBucket(v, b, s)
    PROVE  Histo!get_bucket_index(v) = b /\ Histo!get_sub_bucket_index(v) = s
<1>1. /\ Unit \in Nat /\ HalfBits \in Nat /\ Half \in Nat \ {0}
  BY ConfigIs
<1>2. /\ b \in Nat /\ s \in Nat /\ s < 2 * Half /\ (b = 0 \/ s >= Half) BY DEF InBucket
<1> DEFINE n == Histo!BitLength(v)
           w == Pow2(b + Unit)
<1>3. s * w <= v /\ v < (s + 1) * w BY DEF InBucket
<1>4. n \in Nat BY BitLengthIs
<1>5. /\ w \in Nat \ {0} /\ Pow2((b + Unit) + HalfBits) = Half * w
      /\ Pow2(((b + Unit) + HalfBits) + 1) = 2 * Half * w
  BY <1>2, Widths
<1>6. (b + Unit) + HalfBits \in Nat /\ ((b + Unit) + HalfBits) + 1 \in Nat BY <1>1, <1>2
<1>7. v < Half * w <=> n <= (b + Unit) + HalfBits BY <1>5, <1>6, BitLengthBelow
<1>8. v < 2 * Half * w <=> n <= ((b + Unit) + HalfBits) + 1 BY <1>5, <1>6, BitLengthBelow
<1> HIDE DEF n, w
<1>9. n <= ((b + Unit) + HalfBits) + 1
  <2>1. s + 1 \in Nat /\ s + 1 <= 2 * Half /\ 2 * Half \in Nat BY <1>1, <1>2
  <2>2. (s + 1) * w <= 2 * Half * w /\ (s + 1) * w \in Nat /\ 2 * Half * w \in Nat
    BY <1>5, <2>1, ProductOrder
  <2> QED BY <1>1, <1>3, <1>8, <2>2
<1>10. b = 0 \/ ~(n <= (b + Unit) + HalfBits)
  <2> SUFFICES ASSUME b # 0 PROVE ~(v < Half * w) BY <1>7
  <2>1. Half * w <= s * w /\ Half * w \in Nat /\ s * w \in Nat BY <1>1, <1>2, <1>5, ProductOrder
  <2> QED BY <1>1, <1>3, <2>1
<1>11. Histo!get_bucket_index(v) = Histo!Max({n, Unit + HalfBits + 1}) - Unit - (HalfBits + 1)
  BY DEF Histo!get_bucket_index, Unit, HalfBits, n
<1>12. Histo!Max({n, Unit + HalfBits + 1}) = IF n >= Unit + HalfBits + 1 THEN n ELSE Unit + HalfBits + 1
  BY <1>1, <1>4, MaxOfTwo
<1>13. Histo!get_bucket_index(v) = b BY <1>1, <1>2, <1>4, <1>9, <1>10, <1>11, <1>12
<1>14. Histo!get_sub_bucket_index(v) = v \div w
  BY <1>13 DEF Histo!get_sub_bucket_index, Pow2, Unit, w
<1>15. v \div w = s
  <2> DEFINE r == v - s * w
  <2>1. s * w \in Nat /\ (s + 1) * w = s * w + w /\ s * w = w * s BY <1>2, <1>5
  <2>2. r \in 0 .. w - 1 /\ v = w * s + r BY <1>1, <1>3, <1>5, <2>1
  <2> HIDE DEF r
  <2>3. v \in Int /\ s \in Int BY <1>1, <1>2
  <2>4. v \div w = s /\ v % w = r BY <1>5, <2>2, <2>3, DivModIs
  <2> QED BY <2>4
<1> QED BY <1>13, <1>14, <1>15

\* Bucket and sub-bucket of a value, and the first value of the next sub-bucket.
BucketOf(v) == Histo!get_bucket_index(v)
SubOf(v) == Histo!get_sub_bucket_index(v)
WidthOf(v) == Pow2(BucketOf(v) + Unit)
IndexOf(v) == Histo!counts_index_for(v)

\* The value at the index of a sub-bucket.
LEMMA ValueAt ==
    ASSUME config \in Configs, NEW b \in Nat, NEW s \in Nat, s < 2 * Half, b = 0 \/ s >= Half
    PROVE  Histo!value_at_index(b * Half + s) = s * Pow2(b + Unit)
<1>1. Half \in Nat \ {0} /\ Unit \in Nat BY ConfigIs
<1> DEFINE i == b * Half + s
<1>2. Histo!value_at_index(i) =
          IF i \div Half - 1 < 0 THEN Histo!value_from_index(0, i % Half)
          ELSE Histo!value_from_index(i \div Half - 1, (i % Half) + Half)
  BY DEF Histo!value_at_index, Half
<1>3. \A x, y : Histo!value_from_index(x, y) = y * Pow2(x + Unit)
  BY DEF Histo!value_from_index, Pow2, Unit
<1>4. CASE s < Half
  <2>1. b = 0 BY <1>1, <1>4
  <2>2. b * Half = 0 BY <1>1, <2>1
  <2>3. i = Half * 0 + s /\ s \in 0 .. Half - 1 /\ i \in Int /\ 0 \in Int BY <1>1, <1>4, <2>2
  <2> HIDE DEF i
  <2>4. i \div Half = 0 /\ i % Half = s BY <1>1, <2>3, DivModIs
  <2>5. Histo!value_at_index(i) = s * Pow2(0 + Unit) BY <1>2, <1>3, <2>4
  <2> QED BY <2>1, <2>5 DEF i
<1>5. CASE s >= Half
  <2> DEFINE r == s - Half
  <2>1. b * Half \in Nat /\ Half * (b + 1) = b * Half + Half BY <1>1
  <2>2. i = Half * (b + 1) + r /\ r \in 0 .. Half - 1 /\ i \in Int /\ b + 1 \in Int
    BY <1>1, <1>5, <2>1
  <2>3. r + Half = s /\ (b + 1) - 1 = b /\ ~(b < 0) BY <1>1
  <2> HIDE DEF i, r
  <2>4. i \div Half = b + 1 /\ i % Half = r BY <1>1, <2>2, DivModIs
  <2>5. Histo!value_at_index(i) = Histo!value_from_index(b, s) BY <1>2, <2>3, <2>4
  <2> QED BY <1>3, <2>5 DEF i
<1> QED BY <1>1, <1>4, <1>5

\* Index, lowest value and width of the sub-bucket of a value.
LEMMA ValueIs ==
    ASSUME config \in Configs, NEW v \in Nat
    PROVE  /\ IndexOf(v) = BucketOf(v) * Half + SubOf(v) /\ IndexOf(v) \in Nat
           /\ WidthOf(v) \in Nat \ {0} /\ SubOf(v) * WidthOf(v) \in Nat
           /\ Histo!lowest_equivalent_value(v) = SubOf(v) * WidthOf(v)
           /\ Histo!size_of_equivalent_value_range(v) = WidthOf(v)
           /\ Histo!highest_equivalent_value(v) = SubOf(v) * WidthOf(v) + WidthOf(v) - 1
           /\ Histo!value_at_index(IndexOf(v)) = Histo!lowest_equivalent_value(v)
           /\ InBucket(v, BucketOf(v), SubOf(v))
<1> DEFINE b == BucketOf(v)
           s == SubOf(v)
           w == WidthOf(v)
<1>1. Half \in Nat \ {0} /\ Unit \in Nat BY ConfigIs
<1>2. InBucket(v, b, s) BY BucketIs DEF BucketOf, SubOf
<1>3. b \in Nat /\ s \in Nat /\ s < 2 * Half /\ (b = 0 \/ s >= Half) BY <1>2 DEF InBucket
<1>4. w = Pow2(b + Unit) /\ w \in Nat \ {0} BY <1>3, Widths DEF WidthOf
<1>5. IndexOf(v) = (b + 1) * Half + s - Half
  BY DEF IndexOf, BucketOf, SubOf, Half, Histo!counts_index_for
<1>6. Histo!lowest_equivalent_value(v) = s * w
  BY DEF BucketOf, SubOf, WidthOf, Unit, Pow2, Histo!lowest_equivalent_value, Histo!value_from_index
<1>7. Histo!size_of_equivalent_value_range(v) =
          Pow2(Unit + b + IF s >= 2 * Half THEN 1 ELSE 0)
  BY DEF BucketOf, SubOf, Unit, Half, Pow2, Histo!size_of_equivalent_value_range,
         Histo!sub_bucket_count
<1>8. Histo!highest_equivalent_value(v) =
          Histo!lowest_equivalent_value(v) + Histo!size_of_equivalent_value_range(v) - 1
  BY DEF Histo!highest_equivalent_value
<1> HIDE DEF b, s, w
<1>9. IndexOf(v) = b * Half + s /\ IndexOf(v) \in Nat
  <2>1. (b + 1) * Half = b * Half + Half /\ b * Half \in Nat BY <1>1, <1>3
  <2> QED BY <1>1, <1>3, <1>5, <2>1
<1>10. Histo!size_of_equivalent_value_range(v) = w
  <2>1. ~(s >= 2 * Half) BY <1>1, <1>3
  <2>2. Unit + b + 0 = b + Unit BY <1>1, <1>3
  <2> QED BY <1>4, <1>7, <2>1, <2>2
<1>11. Histo!value_at_index(b * Half + s) = s * Pow2(b + Unit) BY <1>3, ValueAt
<1>12. s * w \in Nat BY <1>3, <1>4
<1> QED BY <1>2, <1>4, <1>6, <1>8, <1>9, <1>10, <1>11, <1>12 DEF b, s, w

\* A value is between the ends of its sub-bucket.
LEMMA ValueBetween ==
    ASSUME config \in Configs, NEW v \in Nat
    PROVE  v \in Histo!lowest_equivalent_value(v) .. Histo!highest_equivalent_value(v)
<1> DEFINE b == BucketOf(v)
           s == SubOf(v)
           w == WidthOf(v)
<1>1. /\ w \in Nat \ {0} /\ s * w \in Nat /\ InBucket(v, b, s)
      /\ Histo!lowest_equivalent_value(v) = s * w
      /\ Histo!highest_equivalent_value(v) = s * w + w - 1
  BY ValueIs
<1>2. s \in Nat /\ s * w <= v /\ v < (s + 1) * w BY <1>1 DEF InBucket, WidthOf
<1> HIDE DEF s, w
<1>4. (s + 1) * w = s * w + w BY <1>1, <1>2
<1> QED BY <1>1, <1>2, <1>4

\* The next value is in the same sub-bucket, or it is the lowest of the next one.
LEMMA NextValue ==
    ASSUME config \in Configs, NEW v \in Nat
    PROVE  /\ v < Histo!highest_equivalent_value(v) => IndexOf(v + 1) = IndexOf(v)
           /\ v = Histo!highest_equivalent_value(v) => IndexOf(v + 1) = IndexOf(v) + 1
<1> DEFINE b == BucketOf(v)
           s == SubOf(v)
           w == WidthOf(v)
<1>1. /\ w \in Nat \ {0} /\ s * w \in Nat /\ InBucket(v, b, s)
      /\ Histo!highest_equivalent_value(v) = s * w + w - 1
      /\ IndexOf(v) = b * Half + s
  BY ValueIs
<1>2. /\ b \in Nat /\ s \in Nat /\ s * w <= v /\ v < (s + 1) * w
      /\ s < 2 * Half /\ (b = 0 \/ s >= Half)
  BY <1>1 DEF InBucket, WidthOf
<1>3. w = Pow2(b + Unit) /\ Unit \in Nat /\ Half \in Nat \ {0}
  BY ConfigIs DEF WidthOf
<1> HIDE DEF b, s, w
<1>4. (s + 1) * w = s * w + w /\ (s + 2) * w = s * w + 2 * w BY <1>1, <1>2
<1>5. ASSUME NEW c, NEW t, InBucket(v + 1, c, t) PROVE IndexOf(v + 1) = c * Half + t
  <2>1. BucketOf(v + 1) = c /\ SubOf(v + 1) = t BY <1>5, BucketUnique DEF BucketOf, SubOf
  <2> QED BY <2>1, ValueIs
<1>6. ASSUME v < Histo!highest_equivalent_value(v) PROVE IndexOf(v + 1) = IndexOf(v)
  <2>1. s * w <= v + 1 /\ v + 1 < (s + 1) * w BY <1>1, <1>2, <1>3, <1>4, <1>6
  <2>2. InBucket(v + 1, b, s) BY <1>2, <1>3, <2>1 DEF InBucket
  <2> QED BY <1>1, <1>5, <2>2
<1>7. ASSUME v = Histo!highest_equivalent_value(v) PROVE IndexOf(v + 1) = IndexOf(v) + 1
  <2>1. v + 1 = (s + 1) * w /\ (s + 1) * w < (s + 2) * w /\ (s + 1) * w \in Nat
    BY <1>1, <1>2, <1>3, <1>4, <1>7
  <2>2. CASE s + 1 < 2 * Half
    <3>1. s + 1 \in Nat /\ (s + 1) + 1 = s + 2 /\ (b = 0 \/ s + 1 >= Half) BY <1>2, <1>3
    <3>2. InBucket(v + 1, b, s + 1) BY <1>2, <1>3, <2>1, <2>2, <3>1 DEF InBucket
    <3>3. IndexOf(v + 1) = b * Half + (s + 1) BY <1>5, <3>2
    <3>4. b * Half \in Nat BY <1>2, <1>3
    <3> QED BY <1>1, <1>2, <3>3, <3>4
  <2>3. CASE s + 1 = 2 * Half
    <3>1. b + Unit \in Nat /\ (b + 1) + Unit = (b + Unit) + 1 /\ b + 1 \in Nat BY <1>2, <1>3
    <3>2. Pow2((b + 1) + Unit) = 2 * w BY <1>3, <3>1, Pow2Step
    <3>3. /\ Half * (2 * w) = (2 * Half) * w /\ (Half + 1) * (2 * w) = (2 * Half) * w + 2 * w
          /\ (2 * Half) * w \in Nat
      BY <1>1, <1>3
    <3>4. v + 1 = Half * (2 * w) /\ v + 1 < (Half + 1) * (2 * w)
      <4>1. v + 1 = (2 * Half) * w BY <2>1, <2>3
      <4> QED BY <1>1, <3>3, <4>1
    <3>5. InBucket(v + 1, b + 1, Half)
      <4>1. Half * (2 * w) <= v + 1 BY <1>3, <3>4
      <4>2. Half < 2 * Half /\ Half >= Half BY <1>3
      <4> QED BY <1>3, <3>1, <3>2, <3>4, <4>1, <4>2 DEF InBucket
    <3>6. IndexOf(v + 1) = (b + 1) * Half + Half BY <1>5, <3>5
    <3>7. (b + 1) * Half = b * Half + Half /\ b * Half \in Nat BY <1>2, <1>3
    <3> QED BY <1>1, <1>2, <1>3, <2>3, <3>6, <3>7
  <2> QED BY <1>2, <1>3, <2>2, <2>3
<1> QED BY <1>6, <1>7

\* There are buckets for all values up to the highest.
LEMMA BucketCount ==
    ASSUME config \in Configs
    PROVE  /\ Histo!bucket_count \in Nat \ {0}
           /\ config.highest < 2 * Half * Pow2((Histo!bucket_count - 1) + Unit)
           /\ Histo!counts_len = (Histo!bucket_count + 1) * Half /\ Histo!counts_len \in Nat \ {0}
<1> DEFINE n == Histo!BitLength(config.highest)
           S == {k \in 1 .. n + 1 : (2 * Half) * Pow2(Unit + k - 1) > config.highest}
<1>1. Unit \in Nat /\ Half \in Nat \ {0} /\ config.highest \in Nat BY ConfigIs
<1>2. n \in Nat /\ config.highest < Pow2(n) BY <1>1, BitLengthIs
<1>3. n + 1 \in S
  <2> HIDE DEF n
  <2>1. Unit + (n + 1) - 1 = Unit + n /\ Unit + n \in Nat /\ n \in Nat BY <1>1, <1>2
  <2>2. Pow2(Unit + n) = Pow2(Unit) * Pow2(n) /\ Pow2(Unit) \in Nat \ {0} /\ Pow2(n) \in Nat
    BY <1>1, <2>1, Pow2Sum, Pow2Step
  <2> DEFINE a == Pow2(Unit)
             p == Pow2(n)
  <2>3. a \in Nat \ {0} /\ p \in Nat BY <2>2
  <2> HIDE DEF a, p
  <2>4. (2 * Half) * (a * p) >= p
    <3>1. a * p >= p /\ a * p \in Nat BY <2>3
    <3> DEFINE q == a * p
    <3>2. q \in Nat /\ q >= p BY <3>1
    <3> HIDE DEF q
    <3>3. (2 * Half) * q >= q BY <1>1, <3>2
    <3>4. (2 * Half) * q \in Nat BY <1>1, <3>2
    <3> QED BY <2>3, <3>2, <3>3, <3>4 DEF q
  <2>5. (2 * Half) * (a * p) \in Nat BY <1>1, <2>3
  <2>6. (2 * Half) * Pow2(Unit + n) > config.highest BY <1>1, <1>2, <2>2, <2>3, <2>4, <2>5 DEF a, p
  <2> QED BY <1>2, <2>1, <2>6
<1>4. Histo!bucket_count = Histo!Min(S)
  BY DEF Histo!bucket_count, Histo!sub_bucket_count, Half, Unit, Pow2
<1>5. PICK k \in S : \A j \in S : k <= j
  <2>1. S \subseteq Nat /\ S # {} BY <1>2, <1>3
  <2> HIDE DEF S
  <2> QED BY <2>1, LeastNumber
<1>6. Histo!bucket_count \in S
  <2> HIDE DEF S
  <2> QED BY <1>4, <1>5 DEF Histo!Min
<1> DEFINE c == Histo!bucket_count
<1>7. c \in Nat \ {0} /\ (2 * Half) * Pow2(Unit + c - 1) > config.highest BY <1>2, <1>6
<1>8. Histo!counts_len = (c + 1) * Half BY DEF Histo!counts_len, Half
<1> HIDE DEF c
<1>9. Unit + c - 1 = (c - 1) + Unit BY <1>1, <1>7
<1>10. (c + 1) * Half \in Nat \ {0} BY <1>1, <1>7
<1>11. (c - 1) + Unit \in Nat BY <1>1, <1>7
<1>12. Pow2((c - 1) + Unit) \in Nat BY <1>11, Pow2Step
<1>13. (2 * Half) * Pow2((c - 1) + Unit) \in Nat BY <1>1, <1>12
<1> QED BY <1>1, <1>7, <1>8, <1>9, <1>10, <1>13 DEF c

LEMMA IndexInRange ==
    ASSUME config \in Configs, NEW v \in Nat, v <= config.highest
    PROVE  IndexOf(v) \in 0 .. Histo!counts_len - 1
<1>1. Unit \in Nat /\ Half \in Nat \ {0} /\ config.highest \in Nat BY ConfigIs
<1> DEFINE b == BucketOf(v)
           s == SubOf(v)
           c == Histo!bucket_count
<1>3. InBucket(v, b, s) /\ IndexOf(v) = b * Half + s /\ IndexOf(v) \in Nat BY ValueIs
<1>4. /\ b \in Nat /\ s \in Nat /\ s * Pow2(b + Unit) <= v /\ s < 2 * Half /\ (b = 0 \/ s >= Half)
  BY <1>3 DEF InBucket
<1>5. /\ c \in Nat \ {0} /\ config.highest < 2 * Half * Pow2((c - 1) + Unit)
      /\ Histo!counts_len = (c + 1) * Half
  BY BucketCount
<1> HIDE DEF b, s, c
<1>6. b <= c - 1
  <2> SUFFICES ASSUME ~(b <= c - 1) PROVE FALSE OBVIOUS
  <2>1. c - 1 < b /\ s >= Half /\ c - 1 \in Nat BY <1>4, <1>5
  <2> DEFINE w == Pow2(b + Unit)
             x == Pow2((c - 1) + Unit)
  <2>2. b + Unit \in Nat /\ (c - 1) + Unit \in Nat /\ (c - 1) + Unit < b + Unit BY <1>1, <1>4, <2>1
  <2>3. w \in Nat \ {0} /\ x \in Nat \ {0} /\ 2 * x <= w BY <2>2, Pow2Step, Pow2Grows
  <2>4. s * w <= v /\ config.highest < 2 * Half * x BY <1>4, <1>5
  <2> HIDE DEF w, x
  <2>5. Half * w <= s * w /\ s * w \in Nat /\ Half * w \in Nat BY <1>1, <1>4, <2>1, <2>3, ProductOrder
  <2>6. (2 * x) * Half <= w * Half /\ (2 * x) * Half \in Nat
    <3>1. 2 * x \in Nat BY <2>3
    <3> QED BY <1>1, <2>3, <3>1, ProductOrder
  <2>7. (2 * x) * Half = 2 * Half * x /\ w * Half = Half * w BY <1>1, <2>3
  <2> QED BY <1>1, <2>4, <2>5, <2>6, <2>7
<1>7. b * Half + s < (c + 1) * Half
  <2>1. b + 2 \in Nat /\ b + 2 <= c + 1 /\ c + 1 \in Nat BY <1>4, <1>5, <1>6
  <2>2. (b + 2) * Half <= (c + 1) * Half /\ (c + 1) * Half \in Nat BY <1>1, <2>1, ProductOrder
  <2>3. (b + 2) * Half = b * Half + 2 * Half /\ b * Half \in Nat BY <1>1, <1>4
  <2> QED BY <1>1, <1>4, <2>2, <2>3
<1>8. (c + 1) * Half \in Nat BY <1>1, <1>5
<1> QED BY <1>3, <1>5, <1>7, <1>8

\* Any value up to the highest.
LEMMA PrecisionOf ==
    ASSUME config \in Configs, DOMAIN counts = 0 .. Histo!counts_len - 1,
           NEW v \in 0 .. config.highest
    PROVE  /\ Histo!counts_index_for(v) \in DOMAIN counts
           /\ Histo!value_at_index(Histo!counts_index_for(v)) = Histo!lowest_equivalent_value(v)
           /\ v \in Histo!lowest_equivalent_value(v) .. Histo!highest_equivalent_value(v)
           /\ Histo!Equivalent(v, v + 1) <=> v < Histo!highest_equivalent_value(v)
           /\ \/ Histo!size_of_equivalent_value_range(v) <= config.lowest
              \/ Histo!size_of_equivalent_value_range(v) * 10 ^ config.figures <= v
<1>1. v \in Nat /\ v <= config.highest BY ConfigIs
<1>2. IndexOf(v) \in DOMAIN counts BY <1>1, IndexInRange
<1>3. Histo!value_at_index(IndexOf(v)) = Histo!lowest_equivalent_value(v) BY <1>1, ValueIs
<1>4. v \in Histo!lowest_equivalent_value(v) .. Histo!highest_equivalent_value(v)
  BY <1>1, ValueBetween
<1>5. Histo!Equivalent(v, v + 1) <=> v < Histo!highest_equivalent_value(v)
  <2> DEFINE h == Histo!highest_equivalent_value(v)
  <2>1. h \in Int /\ IndexOf(v) \in Nat
    <3> DEFINE x == SubOf(v) * WidthOf(v)
               y == WidthOf(v)
    <3>1. x \in Nat /\ y \in Nat /\ h = x + y - 1 /\ IndexOf(v) \in Nat BY <1>1, ValueIs
    <3> HIDE DEF x, y, h
    <3> QED BY <3>1
  <2>2. v < h \/ v = h
    <3> HIDE DEF h
    <3> QED BY <1>1, <1>4, <2>1 DEF h
  <2>3. v < h => IndexOf(v + 1) = IndexOf(v) BY <1>1, NextValue
  <2>4. v = h => IndexOf(v + 1) = IndexOf(v) + 1 BY <1>1, NextValue
  <2>5. Histo!Equivalent(v, v + 1) <=> IndexOf(v) = IndexOf(v + 1) BY DEF Histo!Equivalent, IndexOf
  <2> HIDE DEF h
  <2>6. v = h => ~(v < h) /\ IndexOf(v) # IndexOf(v) + 1 BY <1>1, <2>1
  <2> QED BY <2>2, <2>3, <2>4, <2>5, <2>6 DEF h
<1>6. \/ Histo!size_of_equivalent_value_range(v) <= config.lowest
      \/ Histo!size_of_equivalent_value_range(v) * 10 ^ config.figures <= v
  <2> DEFINE b == BucketOf(v)
             s == SubOf(v)
             w == WidthOf(v)
             t == 10 ^ config.figures
  <2>1. Histo!size_of_equivalent_value_range(v) = w /\ w \in Nat \ {0} /\ InBucket(v, b, s)
    BY <1>1, ValueIs
  <2>2. b \in Nat /\ s \in Nat /\ s * w <= v /\ (b = 0 \/ s >= Half) BY <2>1 DEF InBucket, WidthOf
  <2>3. /\ t \in Nat /\ t <= Half /\ Half \in Nat /\ Unit \in Nat /\ Pow2(Unit) <= config.lowest
    BY ConfigIs
  <2>4. w = Pow2(b + Unit) BY DEF WidthOf
  <2> HIDE DEF b, s, w, t
  <2>5. CASE b = 0
    <3>1. b + Unit = Unit BY <2>3, <2>5
    <3> QED BY <2>1, <2>3, <2>4, <3>1
  <2>6. CASE s >= Half
    <3>1. t <= s BY <2>2, <2>3, <2>6
    <3>2. t * w <= s * w /\ t * w \in Nat /\ s * w \in Nat BY <2>1, <2>2, <2>3, <3>1, ProductOrder
    <3>3. t * w = w * t BY <2>1, <2>3
    <3>4. w * t <= v BY <1>1, <2>2, <3>2, <3>3
    <3> QED BY <2>1, <3>4 DEF t
  <2> QED BY <2>2, <2>5, <2>6
<1> QED BY <1>2, <1>3, <1>4, <1>5, <1>6 DEF IndexOf

\* The greatest value of a sub-bucket is in it, and so is its lowest.
LEMMA HighestIs ==
    ASSUME config \in Configs, NEW v \in Nat
    PROVE  /\ Histo!highest_equivalent_value(v) \in Nat
           /\ IndexOf(Histo!highest_equivalent_value(v)) = IndexOf(v)
           /\ Histo!highest_equivalent_value(Histo!highest_equivalent_value(v))
                = Histo!highest_equivalent_value(v)
           /\ Histo!lowest_equivalent_value(v) \in Nat
           /\ IndexOf(Histo!lowest_equivalent_value(v)) = IndexOf(v)
           /\ Histo!highest_equivalent_value(Histo!lowest_equivalent_value(v))
                = Histo!highest_equivalent_value(v)
<1> DEFINE b == BucketOf(v)
           s == SubOf(v)
           w == WidthOf(v)
           x == s * w
           h == x + w - 1
<1>1. /\ w \in Nat \ {0} /\ x \in Nat /\ InBucket(v, b, s)
      /\ Histo!lowest_equivalent_value(v) = x
      /\ Histo!highest_equivalent_value(v) = h
  BY ValueIs
<1>2. ASSUME NEW u \in Nat, x <= u, u <= h
      PROVE  IndexOf(u) = IndexOf(v) /\ Histo!highest_equivalent_value(u) = h
  <2>1. s \in Nat /\ w = Pow2(b + Unit) BY <1>1 DEF InBucket, WidthOf
  <2>2. s * w <= u /\ u < (s + 1) * w
    <3> HIDE DEF s, w
    <3>1. (s + 1) * w = x + w BY <1>1, <2>1
    <3> HIDE DEF x
    <3> QED BY <1>1, <1>2, <3>1 DEF x
  <2>3. InBucket(u, b, s) BY <1>1, <2>1, <2>2 DEF InBucket
  <2>4. BucketOf(u) = b /\ SubOf(u) = s BY <2>3, BucketUnique DEF BucketOf, SubOf
  <2>5. WidthOf(u) = w BY <2>4 DEF WidthOf
  <2> QED BY <2>4, <2>5, ValueIs
<1> HIDE DEF b, s, w, x
<1>3. h \in Nat /\ x <= h /\ h <= h /\ x <= x BY <1>1
<1> HIDE DEF h
<1> QED BY <1>1, <1>2, <1>3

\* Indices are in the order of the values.
LEMMA IndexGrows ==
    ASSUME config \in Configs, NEW v \in Nat, NEW w \in Nat, v <= w
    PROVE  IndexOf(v) <= IndexOf(w)
<1> SUFFICES ASSUME ~(IndexOf(v) <= IndexOf(w)) PROVE FALSE OBVIOUS
<1> DEFINE U == {u \in Nat : v <= u /\ ~(IndexOf(v) <= IndexOf(u))}
<1>1. U \subseteq Nat /\ U # {} OBVIOUS
<1>2. PICK u \in U : \A x \in U : u <= x
  <2> HIDE DEF U
  <2> QED BY <1>1, LeastNumber
<1>3. u \in Nat /\ v <= u /\ ~(IndexOf(v) <= IndexOf(u)) BY <1>2
<1>4. \A x \in Nat : IndexOf(x) \in Nat BY ValueIs
<1>5. u # v BY <1>3, <1>4
<1>6. u - 1 \in Nat /\ v <= u - 1 /\ ~(u <= u - 1) /\ (u - 1) + 1 = u BY <1>3, <1>5
<1>7. IndexOf(v) <= IndexOf(u - 1) BY <1>2, <1>6
<1>8. IndexOf(u) = IndexOf(u - 1) \/ IndexOf(u) = IndexOf(u - 1) + 1
  <2> DEFINE h == Histo!highest_equivalent_value(u - 1)
  <2>1. u - 1 \in Histo!lowest_equivalent_value(u - 1) .. h /\ h \in Nat
    BY <1>6, ValueBetween, HighestIs
  <2>2. u - 1 < h \/ u - 1 = h
    <3>1. Histo!lowest_equivalent_value(u - 1) \in Nat BY <1>6, HighestIs
    <3> HIDE DEF h
    <3> QED BY <1>6, <2>1, <3>1
  <2>3. /\ u - 1 < h => IndexOf((u - 1) + 1) = IndexOf(u - 1)
        /\ u - 1 = h => IndexOf((u - 1) + 1) = IndexOf(u - 1) + 1
    BY <1>6, NextValue
  <2> HIDE DEF h
  <2> QED BY <1>6, <2>2, <2>3
<1> QED BY <1>3, <1>4, <1>6, <1>7, <1>8

\* The values up to the end of a sub-bucket are those with no greater index.
LEMMA IndexUpTo ==
    ASSUME config \in Configs, NEW v \in Nat, NEW t \in Nat
    PROVE  v <= Histo!highest_equivalent_value(t) <=> IndexOf(v) <= IndexOf(t)
<1> DEFINE h == Histo!highest_equivalent_value(t)
<1>1. h \in Nat /\ IndexOf(h) = IndexOf(t) /\ Histo!highest_equivalent_value(h) = h BY HighestIs
<1>2. IndexOf(h + 1) = IndexOf(h) + 1 BY <1>1, NextValue
<1> HIDE DEF h
<1>3. v <= h => IndexOf(v) <= IndexOf(t) BY <1>1, IndexGrows
<1>4. ASSUME ~(v <= h) PROVE ~(IndexOf(v) <= IndexOf(t))
  <2>1. h + 1 \in Nat /\ h + 1 <= v BY <1>1, <1>4
  <2>2. IndexOf(h + 1) <= IndexOf(v) BY <2>1, IndexGrows
  <2>3. IndexOf(v) \in Nat /\ IndexOf(t) \in Nat BY ValueIs
  <2> QED BY <1>1, <1>2, <2>2, <2>3
<1> QED BY <1>3, <1>4 DEF h

\* The value at an index has that index.
LEMMA IndexOfValue ==
    ASSUME config \in Configs, NEW i \in Nat
    PROVE  Histo!value_at_index(i) \in Nat /\ IndexOf(Histo!value_at_index(i)) = i
<1>1. Half \in Nat \ {0} /\ Unit \in Nat BY ConfigIs
<1> DEFINE q == i \div Half
           r == i % Half
<1>2. q \in Int /\ r \in 0 .. Half - 1 /\ i = Half * q + r BY <1>1, DivMod
<1> HIDE DEF q, r
<1>3. q \in Nat
  <2> SUFFICES ASSUME q < 0 PROVE FALSE BY <1>2
  <2>1. Half * q <= Half * (-1) BY <1>1, <1>2
  <2> QED BY <1>1, <1>2, <2>1
<1> DEFINE b == IF q = 0 THEN 0 ELSE q - 1
           s == IF q = 0 THEN r ELSE r + Half
<1>4. /\ b \in Nat /\ s \in Nat /\ s < 2 * Half /\ (b = 0 \/ s >= Half) BY <1>1, <1>2, <1>3
<1>5. b * Half + s = i
  <2>1. CASE q = 0
    <3>1. Half * q = 0 /\ 0 * Half = 0 BY <1>1, <2>1
    <3> QED BY <1>1, <1>2, <2>1, <3>1
  <2>2. CASE q # 0
    <3>1. (q - 1) * Half = Half * q - Half /\ Half * q \in Nat BY <1>1, <1>3
    <3> QED BY <1>1, <1>2, <2>2, <3>1
  <2> QED BY <2>1, <2>2
<1> HIDE DEF b, s
<1> DEFINE w == Pow2(b + Unit)
           v == s * w
<1>6. w \in Nat \ {0} BY <1>4, Widths
<1>7. Histo!value_at_index(i) = v BY <1>4, <1>5, ValueAt
<1>8. v \in Nat /\ s * w <= v /\ v < (s + 1) * w
  <2> HIDE DEF w
  <2>1. (s + 1) * w = s * w + w /\ s * w \in Nat BY <1>4, <1>6
  <2> QED BY <1>6, <2>1
<1>9. InBucket(v, b, s) BY <1>4, <1>8 DEF InBucket
<1> HIDE DEF v
<1>10. BucketOf(v) = b /\ SubOf(v) = s BY <1>8, <1>9, BucketUnique DEF BucketOf, SubOf
<1>11. IndexOf(v) = b * Half + s BY <1>8, <1>10, ValueIs
<1> QED BY <1>5, <1>7, <1>8, <1>11

\* The value at an index reaches the sub-bucket of a level if the index does.
LEMMA ValueReaches ==
    ASSUME config \in Configs, NEW i \in Nat, NEW t \in Nat
    PROVE  Histo!value_at_index(i) >= Histo!lowest_equivalent_value(t) <=> IndexOf(t) <= i
<1> DEFINE x == Histo!value_at_index(i)
           y == Histo!lowest_equivalent_value(t)
<1>1. x \in Nat /\ IndexOf(x) = i BY IndexOfValue
<1>2. y \in Nat /\ IndexOf(y) = IndexOf(t) /\ IndexOf(t) \in Nat BY HighestIs, ValueIs
<1>3. ASSUME x >= y PROVE IndexOf(t) <= i
  <2> HIDE DEF x, y
  <2>1. y <= x BY <1>1, <1>2, <1>3
  <2> QED BY <1>1, <1>2, <2>1, IndexGrows
<1>4. ASSUME IndexOf(t) <= i PROVE x >= y
  <2>1. CASE IndexOf(t) = i
    <3>1. Histo!value_at_index(IndexOf(t)) = y BY ValueIs
    <3> QED BY <1>1, <2>1, <3>1
  <2>2. CASE IndexOf(t) < i
    <3> SUFFICES ASSUME ~(x >= y) PROVE FALSE OBVIOUS
    <3> HIDE DEF x, y
    <3>1. x <= y BY <1>1, <1>2
    <3>2. i <= IndexOf(t) BY <1>1, <1>2, <3>1, IndexGrows
    <3> QED BY <1>2, <2>2, <3>2
  <2> QED BY <1>2, <1>4, <2>1, <2>2
<1> QED BY <1>3, <1>4


-----------------------------------------------------------------------------
(* Counts and values *)

LEMMA SumNat ==
    ASSUME NEW f, NEW S, IsFiniteSet(S), \A x \in S : f[x] \in Nat
    PROVE  Sum(f, S) \in Nat
<1> SUFFICES ASSUME Sum(f, S) \notin Nat PROVE FALSE OBVIOUS
<1> DEFINE U == {u \in SUBSET S : Sum(f, u) \notin Nat}
<1>1. U \subseteq SUBSET S /\ U # {} OBVIOUS
<1>2. PICK s \in U : \A v \in U : v \subseteq s => v = s
  <2> HIDE DEF U
  <2> QED BY <1>1, SmallestSet
<1> DEFINE v == s \ {First(s)}
<1>3. IsFiniteSet(s) BY <1>2, FS_Subset
<1>4. Sum(f, s) = IF s = {} THEN 0 ELSE f[First(s)] + Sum(f, v) BY <1>3, SumFirst
<1>5. s # {} BY <1>2, <1>4
<1>6. First(s) \in s BY <1>5, FirstIn
<1>7. Sum(f, v) \in Nat BY <1>2, <1>6
<1>8. f[First(s)] \in Nat BY <1>2, <1>6
<1> HIDE DEF v
<1> QED BY <1>2, <1>4, <1>5, <1>7, <1>8

\* The sum of a part is no greater; it is the same if the rest is zero.
LEMMA SumPart ==
    ASSUME NEW f, NEW S, IsFiniteSet(S), \A x \in S : f[x] \in Nat, NEW A, A \subseteq S
    PROVE  /\ Sum(f, A) \in Nat /\ Sum(f, S) \in Nat /\ Sum(f, A) <= Sum(f, S)
           /\ (\A x \in S \ A : f[x] = 0) => Sum(f, A) = Sum(f, S)
<1>1. IsFiniteSet(A) /\ IsFiniteSet(S \ A) BY FS_Subset
<1>2. Sum(f, A) \in Nat /\ Sum(f, S \ A) \in Nat /\ Sum(f, S) \in Nat BY <1>1, SumNat
<1>3. Sum(f, S) = Sum(f, A) + Sum(f, S \ A)
  <2>1. \A x \in S : f[x] \in Int OBVIOUS
  <2> QED BY <2>1, SumParts
<1>4. (\A x \in S \ A : f[x] = 0) => Sum(f, S \ A) = 0
  <2> DEFINE B == S \ A
  <2>1. IsFiniteSet(B) BY <1>1
  <2> HIDE DEF B
  <2>2. (\A x \in B : f[x] = 0) => Sum(f, B) = 0 BY <2>1, SumZero
  <2> QED BY <2>2 DEF B
<1> QED BY <1>2, <1>3, <1>4

\* A sum is positive if one of the numbers is.
LEMMA SumPositive ==
    ASSUME NEW f, NEW S, IsFiniteSet(S), \A x \in S : f[x] \in Nat
    PROVE  Sum(f, S) > 0 <=> \E x \in S : f[x] > 0
<1>1. ASSUME NEW x \in S, f[x] > 0 PROVE Sum(f, S) > 0
  <2>1. IsFiniteSet(S \ {x}) /\ \A y \in S : f[y] \in Int BY FS_Subset
  <2>2. Sum(f, S) = f[x] + Sum(f, S \ {x}) BY <2>1, SumElement
  <2>3. Sum(f, S \ {x}) \in Nat BY <2>1, SumNat
  <2> QED BY <1>1, <2>2, <2>3
<1>2. ASSUME \A x \in S : ~(f[x] > 0) PROVE ~(Sum(f, S) > 0)
  <2>1. \A x \in S : f[x] = 0 BY <1>2
  <2>2. Sum(f, S) = 0 BY <2>1, SumZero
  <2> QED BY <2>2
<1> QED BY <1>1, <1>2

\* One of the numbers is increased.
LEMMA SumIncreased ==
    ASSUME NEW f, NEW g, NEW S, IsFiniteSet(S), NEW x, NEW n \in Nat,
           \A y \in S : f[y] \in Nat /\ g[y] = IF y = x THEN f[y] + n ELSE f[y]
    PROVE  Sum(g, S) = Sum(f, S) + IF x \in S THEN n ELSE 0
<1>1. Sum(f, S) \in Nat BY SumNat
<1>2. CASE x \in S
  <2> DEFINE r == S \ {x}
  <2>1. IsFiniteSet(r) /\ \A y \in r : f[y] \in Int /\ g[y] = f[y] BY FS_Subset
  <2>2. \A y \in S : f[y] \in Int /\ g[y] \in Int OBVIOUS
  <2>3. Sum(f, S) = f[x] + Sum(f, r) /\ Sum(g, S) = g[x] + Sum(g, r) BY <1>2, <2>2, SumElement
  <2>4. Sum(f, r) \in Nat BY <2>1, SumNat
  <2> HIDE DEF r
  <2>5. Sum(f, r) = Sum(g, r) BY <2>1, SumSame
  <2>6. f[x] \in Nat /\ g[x] = f[x] + n BY <1>2
  <2>7. Sum(g, S) = Sum(f, S) + n BY <2>3, <2>4, <2>5, <2>6
  <2> QED BY <1>2, <2>7
<1>3. CASE x \notin S
  <2>1. \A y \in S : f[y] \in Int /\ g[y] = f[y] BY <1>3
  <2>2. Sum(f, S) = Sum(g, S) BY <2>1, SumSame
  <2> QED BY <1>1, <1>3, <2>2
<1> QED BY <1>2, <1>3

\* The least element, and the greatest.
LEMMA MinIs ==
    ASSUME NEW S, S \subseteq Int, NEW m \in S, \A x \in S : m <= x
    PROVE  Histo!Min(S) = m
<1>1. Histo!Min(S) \in S /\ \A x \in S : Histo!Min(S) <= x BY DEF Histo!Min
<1>2. Histo!Min(S) \in Int /\ m \in Int /\ Histo!Min(S) <= m /\ m <= Histo!Min(S) BY <1>1
<1> QED BY <1>2

LEMMA MaxIs ==
    ASSUME NEW S, S \subseteq Int, NEW m \in S, \A x \in S : m >= x
    PROVE  Histo!Max(S) = m
<1>1. Histo!Max(S) \in S /\ \A x \in S : Histo!Max(S) >= x BY DEF Histo!Max
<1>2. Histo!Max(S) \in Int /\ m \in Int /\ Histo!Max(S) >= m /\ m >= Histo!Max(S) BY <1>1
<1> QED BY <1>2

\* A set of numbers that is bounded has a greatest one.
LEMMA GreatestNumber ==
    ASSUME NEW T, T \subseteq Nat, T # {}, NEW m \in Nat, \A x \in T : x <= m
    PROVE  \E x \in T : \A y \in T : y <= x
<1> DEFINE U == {k \in Nat : m - k \in T}
<1>1. U # {}
  <2>1. PICK x \in T : TRUE OBVIOUS
  <2>2. m - x \in Nat /\ m - (m - x) = x BY <2>1
  <2> QED BY <2>1, <2>2
<1>2. PICK k \in U : \A j \in U : k <= j
  <2>1. U \subseteq Nat OBVIOUS
  <2> HIDE DEF U
  <2> QED BY <1>1, <2>1, LeastNumber
<1>3. ASSUME NEW y \in T PROVE y <= m - k
  <2>1. y \in Nat /\ m - y \in Nat /\ m - (m - y) = y BY <1>3
  <2>2. m - y \in U BY <2>1
  <2>3. k \in Nat /\ k <= m - y BY <1>2, <2>2
  <2> QED BY <2>1, <2>3
<1> QED BY <1>2, <1>3

\* The indices of the counts, and the values that are counted up to one of them.
Bins == 0 .. Histo!counts_len - 1
BinsUpTo(i) == {j \in Bins : j <= i}
ValuesUpTo(i) == {v \in Values : IndexOf(v) <= i}
ValuesAt(i) == {v \in Values : IndexOf(v) = i}
InUse == {v \in Values : recorded[v] > 0}

\* Each count is that of the values of its sub-bucket; values without one are not recorded.
Filled ==
    /\ config \in Configs
    /\ counts \in [Bins -> Nat] /\ recorded \in [Values -> Nat]
    /\ \A i \in Bins : counts[i] = Sum(recorded, ValuesAt(i))
    /\ \A v \in InUse : IndexOf(v) \in Bins
    /\ total = Sum(counts, Bins)

\* The minimum leaves out zero.
EndsRight ==
    /\ max_value \in InUse \cup {0} /\ \A v \in InUse : v <= max_value
    /\ min_value \in (InUse \ {0}) \cup {-1}
    /\ \A v \in InUse \ {0} : min_value # -1 /\ min_value <= v

LEMMA BinsAre ==
    ASSUME config \in Configs
    PROVE  /\ Histo!counts_len \in Nat \ {0} /\ Bins \subseteq Nat /\ 0 \in Bins
           /\ Values \subseteq Nat /\ \A v \in Values : IndexOf(v) \in Nat
           /\ IsFiniteSet(Bins) /\ IsFiniteSet(Values)
           /\ \A i : /\ IsFiniteSet(BinsUpTo(i)) /\ BinsUpTo(i) \subseteq Bins
                     /\ IsFiniteSet(ValuesUpTo(i)) /\ ValuesUpTo(i) \subseteq Values
                     /\ IsFiniteSet(ValuesAt(i)) /\ ValuesAt(i) \subseteq Values
<1>1. Histo!counts_len \in Nat \ {0} BY BucketCount
<1>2. Bins \subseteq Nat /\ 0 \in Bins BY <1>1 DEF Bins
<1>3. IsFiniteSet(Bins) BY <1>1, FS_Interval DEF Bins
<1>4. Values \subseteq Nat /\ IsFiniteSet(Values) BY HistogramAssumption
<1>5. \A v \in Values : IndexOf(v) \in Nat BY <1>4, ValueIs
<1>6. ASSUME NEW i
      PROVE  /\ IsFiniteSet(BinsUpTo(i)) /\ BinsUpTo(i) \subseteq Bins
             /\ IsFiniteSet(ValuesUpTo(i)) /\ ValuesUpTo(i) \subseteq Values
             /\ IsFiniteSet(ValuesAt(i)) /\ ValuesAt(i) \subseteq Values
  <2>1. BinsUpTo(i) \subseteq Bins /\ ValuesUpTo(i) \subseteq Values /\ ValuesAt(i) \subseteq Values
    BY DEF BinsUpTo, ValuesUpTo, ValuesAt
  <2> QED BY <1>3, <1>4, <2>1, FS_Subset
<1> QED BY <1>1, <1>2, <1>3, <1>4, <1>5, <1>6

\* What is counted up to an index are the values with no greater one.
LEMMA CountedUpTo ==
    ASSUME Filled, NEW i \in Int, -1 <= i, i < Histo!counts_len
    PROVE  Sum(counts, BinsUpTo(i)) = Sum(recorded, ValuesUpTo(i))
<1> DEFINE C(j) == Sum(counts, BinsUpTo(j))
           R(j) == Sum(recorded, ValuesUpTo(j))
           U == {k \in Nat : k <= Histo!counts_len /\ C(k - 1) # R(k - 1)}
<1>0. config \in Configs BY DEF Filled
<1>1. /\ Histo!counts_len \in Nat /\ Bins \subseteq Nat /\ \A v \in Values : IndexOf(v) \in Nat
  BY <1>0, BinsAre
<1> SUFFICES ASSUME C(i) # R(i) PROVE FALSE OBVIOUS
<1>2. i + 1 \in Nat /\ i + 1 <= Histo!counts_len /\ (i + 1) - 1 = i BY <1>1
<1>3. U \subseteq Nat /\ U # {} BY <1>2
<1>4. PICK k \in U : \A j \in U : k <= j
  <2> HIDE DEF U
  <2> QED BY <1>3, LeastNumber
<1>5. k \in Nat /\ k <= Histo!counts_len /\ C(k - 1) # R(k - 1) BY <1>4
<1>6. CASE k = 0
  <2>0. \A x \in Nat : ~(x <= -1) OBVIOUS
  <2>1. BinsUpTo(-1) = {} /\ ValuesUpTo(-1) = {} BY <1>1, <2>0 DEF BinsUpTo, ValuesUpTo
  <2>2. C(-1) = 0 /\ R(-1) = 0 BY <2>1, SumFirst, FS_EmptySet
  <2>3. k - 1 = -1 BY <1>6
  <2> QED BY <1>5, <2>2, <2>3
<1>7. CASE k # 0
  <2> DEFINE l == k - 1
  <2>1. l \in Nat /\ l <= Histo!counts_len /\ ~(k <= l) /\ l \in Bins BY <1>1, <1>5, <1>7 DEF Bins
  <2>2. C(l - 1) = R(l - 1)
    <3> HIDE DEF C, R, l
    <3> QED BY <1>4, <2>1
  <2>3. BinsUpTo(l) \ {l} = BinsUpTo(l - 1) /\ l \in BinsUpTo(l)
    <3> HIDE DEF l
    <3>1. \A j \in Nat : j <= l /\ j # l <=> j <= l - 1 BY <2>1
    <3>2. l <= l BY <2>1
    <3> QED BY <1>1, <2>1, <3>1, <3>2 DEF BinsUpTo
  <2>4. ValuesUpTo(l) \ ValuesAt(l) = ValuesUpTo(l - 1) /\ ValuesAt(l) \subseteq ValuesUpTo(l)
    <3> HIDE DEF l
    <3> QED BY <1>1, <2>1 DEF ValuesUpTo, ValuesAt
  <2> HIDE DEF l
  <2>5. /\ IsFiniteSet(BinsUpTo(l)) /\ \A j \in BinsUpTo(l) : counts[j] \in Int
        /\ IsFiniteSet(ValuesUpTo(l)) /\ \A v \in ValuesUpTo(l) : recorded[v] \in Int
    <3>1. \A j \in Bins : counts[j] \in Int BY DEF Filled
    <3>2. \A v \in Values : recorded[v] \in Int BY DEF Filled
    <3> QED BY <1>0, <3>1, <3>2, BinsAre
  <2>6. C(l) = counts[l] + C(l - 1) BY <2>3, <2>5, SumElement
  <2>7. R(l) = Sum(recorded, ValuesAt(l)) + R(l - 1) BY <2>4, <2>5, SumParts
  <2>8. counts[l] = Sum(recorded, ValuesAt(l)) BY <2>1 DEF Filled
  <2> HIDE DEF C, R
  <2>9. C(l) = R(l) BY <2>2, <2>6, <2>7, <2>8
  <2> QED BY <1>5, <2>9 DEF l, C, R
<1> QED BY <1>6, <1>7

\* Sums over part of the counts, and over the values in use.
LEMMA FilledSums ==
    ASSUME Filled
    PROVE  /\ \A A : A \subseteq Bins =>
                 Sum(counts, A) \in Nat /\ Sum(counts, A) <= total
           /\ \A A, B : A \subseteq B /\ B \subseteq Values =>
                 /\ Sum(recorded, A) \in Nat /\ Sum(recorded, B) \in Nat
                 /\ Sum(recorded, A) <= Sum(recorded, B)
           /\ total \in Nat /\ total = Sum(recorded, InUse)
<1>0. config \in Configs BY DEF Filled
<1>1. /\ IsFiniteSet(Bins) /\ IsFiniteSet(Values) /\ Histo!counts_len \in Nat \ {0}
      /\ Bins \subseteq Nat /\ \A v \in Values : IndexOf(v) \in Nat
  BY <1>0, BinsAre
<1>2. /\ \A j \in Bins : counts[j] \in Nat
      /\ \A v \in Values : recorded[v] \in Nat
      /\ total = Sum(counts, Bins)
  BY DEF Filled
<1>3. ASSUME NEW A, A \subseteq Bins PROVE Sum(counts, A) \in Nat /\ Sum(counts, A) <= total
  BY <1>1, <1>2, <1>3, SumPart
<1>4. ASSUME NEW A, NEW B, A \subseteq B, B \subseteq Values
      PROVE  /\ Sum(recorded, A) \in Nat /\ Sum(recorded, B) \in Nat
             /\ Sum(recorded, A) <= Sum(recorded, B)
  <2>1. IsFiniteSet(B) /\ \A v \in B : recorded[v] \in Nat BY <1>1, <1>2, <1>4, FS_Subset
  <2> QED BY <1>4, <2>1, SumPart
<1>5. total \in Nat
  <2>1. Bins \subseteq Bins OBVIOUS
  <2> QED BY <1>2, <1>3, <2>1
<1>6. total = Sum(recorded, InUse)
  <2> DEFINE l == Histo!counts_len - 1
  <2>1. BinsUpTo(l) = Bins BY <1>1 DEF BinsUpTo, Bins
  <2>2. l \in Int /\ -1 <= l /\ l < Histo!counts_len BY <1>1
  <2>3. \A v \in InUse : IndexOf(v) \in Bins BY DEF Filled
  <2>4. InUse \subseteq ValuesUpTo(l) /\ \A v \in ValuesUpTo(l) \ InUse : recorded[v] = 0
    <3>1. \A v \in InUse : v \in Values /\ IndexOf(v) <= l BY <1>1, <2>3 DEF InUse, Bins
    <3>2. \A v \in Values \ InUse : recorded[v] = 0 BY <1>2 DEF InUse
    <3> HIDE DEF l
    <3> QED BY <3>1, <3>2 DEF ValuesUpTo
  <2> HIDE DEF l
  <2>5. total = Sum(recorded, ValuesUpTo(l)) BY <1>2, <2>1, <2>2, CountedUpTo
  <2>6. IsFiniteSet(ValuesUpTo(l)) /\ \A v \in ValuesUpTo(l) : recorded[v] \in Nat
    BY <1>0, <1>2, BinsAre
  <2>7. Sum(recorded, InUse) = Sum(recorded, ValuesUpTo(l)) BY <2>4, <2>6, SumPart
  <2> QED BY <2>5, <2>7
<1> QED BY <1>3, <1>4, <1>5, <1>6

\* The number of values that a percentile asks for.
Asked(p) == Histo!Max({(p * total + 50) \div 100, 1})
Nearest(p) ==
    CHOOSE k \in 0 .. total : 100 * k - 50 <= p * total /\ p * total < 100 * k + 50

LEMMA NearestIs ==
    ASSUME total \in Nat \ {0}, NEW p \in 0 .. 100
    PROVE  /\ Nearest(p) = (p * total + 50) \div 100
           /\ Asked(p) \in Nat /\ 1 <= Asked(p) /\ Asked(p) <= total
<1> DEFINE x == p * total
           q == (x + 50) \div 100
           r == (x + 50) % 100
<1>1. x \in Nat /\ x <= 100 * total
  <2>1. p \in Nat /\ 100 \in Nat /\ p <= 100 OBVIOUS
  <2> QED BY <2>1, ProductOrder
<1> HIDE DEF x
<1>2. q \in Int /\ r \in 0 .. 99 /\ x + 50 = 100 * q + r BY <1>1, DivMod
<1> HIDE DEF q, r
<1>3. q \in 0 .. total /\ 100 * q - 50 <= x /\ x < 100 * q + 50 BY <1>1, <1>2
<1>4. ASSUME NEW k \in 0 .. total, 100 * k - 50 <= x, x < 100 * k + 50 PROVE k = q
  BY <1>1, <1>3, <1>4
<1>5. Nearest(p) = q BY <1>3, <1>4 DEF Nearest, x
<1>6. q \in Int /\ Asked(p) = IF q >= 1 THEN q ELSE 1
  <2>1. Asked(p) = Histo!Max({q, 1}) BY DEF Asked, q, x
  <2>2. q \in Int /\ 1 \in Int BY <1>3
  <2> QED BY <2>1, <2>2, MaxOfTwo
<1>7. Asked(p) \in Nat /\ 1 <= Asked(p) /\ Asked(p) <= total BY <1>3, <1>6
<1> QED BY <1>5, <1>7 DEF q, x

\* The least value with that number of values up to it is in the sub-bucket where the counts
\* reach the number.
LEMMA PercentileIs ==
    ASSUME Filled, EndsRight, InUse # {}, NEW k \in Nat, 1 <= k, k <= total
    PROVE  LET below(v) == Sum(recorded, {w \in InUse : w <= v})
               used == {i \in Bins : counts[i] > 0}
               reached == {i \in used : Sum(counts, {j \in used : j <= i}) >= k}
               s == Histo!Min({v \in InUse : below(v) >= k})
           IN  s \in Nat /\ reached # {} /\ Histo!Min(reached) = IndexOf(s)
<1> DEFINE upto(v) == {w \in InUse : w <= v}
           below(v) == Sum(recorded, upto(v))
           used == {i \in Bins : counts[i] > 0}
           usedto(i) == {j \in used : j <= i}
           reached == {i \in used : Sum(counts, usedto(i)) >= k}
           S == {v \in InUse : below(v) >= k}
<1>1. /\ config \in Configs /\ \A v \in InUse : IndexOf(v) \in Bins
      /\ \A i \in Bins : counts[i] \in Nat /\ counts[i] = Sum(recorded, ValuesAt(i))
      /\ \A v \in Values : recorded[v] \in Nat
  BY DEF Filled
<1>2. /\ Bins \subseteq Nat /\ IsFiniteSet(Bins) /\ IsFiniteSet(Values) /\ Values \subseteq Nat
      /\ Histo!counts_len \in Nat \ {0} /\ \A v \in Values : IndexOf(v) \in Nat
  BY <1>1, BinsAre
<1>3. /\ total \in Nat /\ total = Sum(recorded, InUse)
      /\ \A A, B : A \subseteq B /\ B \subseteq Values =>
           /\ Sum(recorded, A) \in Nat /\ Sum(recorded, B) \in Nat
           /\ Sum(recorded, A) <= Sum(recorded, B)
  BY FilledSums
<1>4. InUse \subseteq Values /\ \A v \in InUse : recorded[v] > 0 BY DEF InUse
<1>5. max_value \in InUse /\ \A v \in InUse : v <= max_value
  <2>1. /\ max_value \in InUse \cup {0} /\ \A v \in InUse : v \in Nat /\ v <= max_value
    BY <1>2, <1>4 DEF EndsRight
  <2>2. CASE max_value = 0
    <3>1. PICK v \in InUse : TRUE OBVIOUS
    <3>2. v = 0 BY <2>1, <2>2, <3>1
    <3> QED BY <2>1, <2>2, <3>1, <3>2
  <2> QED BY <2>1, <2>2
<1>6. \A v : upto(v) \subseteq InUse /\ upto(v) \subseteq Values /\ below(v) \in Nat
  <2> SUFFICES ASSUME NEW v PROVE upto(v) \subseteq InUse /\ upto(v) \subseteq Values /\ below(v) \in Nat
    OBVIOUS
  <2>1. upto(v) \subseteq InUse /\ upto(v) \subseteq Values BY <1>4
  <2> HIDE DEF upto
  <2> QED BY <1>3, <2>1
<1>7. \A i \in Bins : Sum(counts, usedto(i)) = Sum(recorded, ValuesUpTo(i))
  <2> SUFFICES ASSUME NEW i \in Bins PROVE Sum(counts, usedto(i)) = Sum(recorded, ValuesUpTo(i))
    OBVIOUS
  <2>1. usedto(i) \subseteq BinsUpTo(i) /\ \A j \in BinsUpTo(i) \ usedto(i) : counts[j] = 0
    <3>1. \A j \in Bins : counts[j] > 0 \/ counts[j] = 0 BY <1>1
    <3> QED BY <3>1 DEF BinsUpTo
  <2>2. IsFiniteSet(BinsUpTo(i)) /\ \A j \in BinsUpTo(i) : counts[j] \in Nat BY <1>1, BinsAre
  <2> HIDE DEF usedto
  <2>3. Sum(counts, usedto(i)) = Sum(counts, BinsUpTo(i)) BY <2>1, <2>2, SumPart
  <2>4. i \in Int /\ -1 <= i /\ i < Histo!counts_len BY <1>2 DEF Bins
  <2> QED BY <2>3, <2>4, CountedUpTo
<1>8. max_value \in S
  <2>1. upto(max_value) = InUse BY <1>5
  <2> HIDE DEF upto
  <2> QED BY <1>3, <1>5, <2>1
<1>9. PICK s \in S : \A v \in S : s <= v
  <2>1. S \subseteq Nat /\ S # {}
    <3> HIDE DEF below
    <3> QED BY <1>2, <1>4, <1>8
  <2> HIDE DEF S
  <2> QED BY <2>1, LeastNumber
<1>10. S \subseteq Int /\ Histo!Min(S) = s
  <2>1. \A v \in S : v \in Nat
    <3> HIDE DEF below
    <3> QED BY <1>2, <1>4
  <2> HIDE DEF S
  <2> QED BY <1>9, <2>1, MinIs
<1>11. s \in InUse /\ below(s) >= k /\ s \in Nat /\ s \in Values
  <2> HIDE DEF below
  <2> QED BY <1>2, <1>4, <1>9
<1> DEFINE i == IndexOf(s)
<1>12. i \in Bins /\ counts[i] > 0
  <2>1. i \in Bins /\ i \in Nat BY <1>1, <1>2, <1>11
  <2>2. s \in ValuesAt(i) /\ recorded[s] > 0 BY <1>4, <1>11 DEF ValuesAt
  <2> HIDE DEF i
  <2>3. IsFiniteSet(ValuesAt(i)) /\ \A v \in ValuesAt(i) : recorded[v] \in Nat BY <1>1, BinsAre
  <2>4. Sum(recorded, ValuesAt(i)) > 0 BY <2>2, <2>3, SumPositive
  <2> QED BY <1>1, <2>1, <2>4
<1>13. i \in reached
  <2>1. upto(s) \subseteq ValuesUpTo(i)
    <3> SUFFICES ASSUME NEW w \in upto(s) PROVE w \in ValuesUpTo(i) OBVIOUS
    <3>1. w \in Values /\ w \in Nat /\ w <= s BY <1>2, <1>4
    <3>2. IndexOf(w) <= i BY <1>1, <1>11, <3>1, IndexGrows
    <3> QED BY <3>1, <3>2 DEF ValuesUpTo
  <2>2. ValuesUpTo(i) \subseteq Values BY DEF ValuesUpTo
  <2> HIDE DEF upto, i
  <2>3. Sum(recorded, ValuesUpTo(i)) \in Nat /\ below(s) \in Nat /\ below(s) <= Sum(recorded, ValuesUpTo(i))
    BY <1>3, <2>1, <2>2
  <2> HIDE DEF below
  <2>4. Sum(recorded, ValuesUpTo(i)) >= k BY <1>11, <2>3
  <2> HIDE DEF usedto
  <2> QED BY <1>7, <1>12, <2>4
<1>14. ASSUME NEW j \in reached PROVE i <= j
  <2>1. j \in Bins /\ counts[j] > 0 /\ Sum(counts, usedto(j)) >= k /\ j \in Nat BY <1>2
  <2> DEFINE T == {v \in InUse : IndexOf(v) = j}
  <2>2. T # {}
    <3>1. Sum(recorded, ValuesAt(j)) > 0 BY <1>1, <2>1
    <3>2. IsFiniteSet(ValuesAt(j)) /\ \A v \in ValuesAt(j) : recorded[v] \in Nat BY <1>1, BinsAre
    <3>3. PICK v \in ValuesAt(j) : recorded[v] > 0 BY <3>1, <3>2, SumPositive
    <3>4. v \in InUse /\ IndexOf(v) = j BY <3>3 DEF ValuesAt, InUse
    <3> QED BY <3>4
  <2>3. PICK t \in T : \A v \in T : v <= t
    <3>1. T \subseteq Nat /\ max_value \in Nat /\ \A v \in T : v <= max_value BY <1>2, <1>4, <1>5
    <3> HIDE DEF T
    <3> QED BY <2>2, <3>1, GreatestNumber
  <2>4. t \in InUse /\ t \in Nat /\ IndexOf(t) = j BY <1>2, <1>4
  <2>5. upto(t) \subseteq ValuesUpTo(j) /\ \A v \in ValuesUpTo(j) \ upto(t) : recorded[v] = 0
    <3>1. ASSUME NEW v \in upto(t) PROVE v \in ValuesUpTo(j)
      <4>1. v \in Nat /\ v \in Values /\ v <= t BY <1>2, <1>4
      <4>2. IndexOf(v) <= IndexOf(t) BY <1>1, <2>4, <4>1, IndexGrows
      <4> QED BY <2>4, <4>1, <4>2 DEF ValuesUpTo
    <3>2. ASSUME NEW v \in ValuesUpTo(j), v \in InUse PROVE v <= t
      <4>1. v \in Nat /\ IndexOf(v) <= j /\ IndexOf(v) \in Nat BY <1>2, <1>4, <3>2 DEF ValuesUpTo
      <4>2. CASE IndexOf(v) = j BY <2>3, <3>2, <4>2
      <4>3. CASE IndexOf(v) # j
        <5> SUFFICES ASSUME ~(v <= t) PROVE FALSE OBVIOUS
        <5>1. t <= v BY <2>4, <4>1
        <5>2. IndexOf(t) <= IndexOf(v) BY <1>1, <2>4, <4>1, <5>1, IndexGrows
        <5> QED BY <2>1, <2>4, <4>1, <4>3, <5>2
      <4> QED BY <4>2, <4>3
    <3>3. \A v \in ValuesUpTo(j) \ upto(t) : v \notin InUse BY <3>2
    <3>4. \A v \in ValuesUpTo(j) : v \in Values /\ recorded[v] \in Nat BY <1>1 DEF ValuesUpTo
    <3>5. \A v \in ValuesUpTo(j) \ upto(t) : recorded[v] = 0
      <4> HIDE DEF upto
      <4> QED BY <3>3, <3>4 DEF InUse
    <3> QED BY <3>1, <3>5
  <2>6. below(t) >= k
    <3>1. IsFiniteSet(ValuesUpTo(j)) /\ \A v \in ValuesUpTo(j) : recorded[v] \in Nat BY <1>1, BinsAre
    <3> HIDE DEF upto
    <3>2. below(t) = Sum(recorded, ValuesUpTo(j)) BY <2>5, <3>1, SumPart
    <3> HIDE DEF below, usedto
    <3> QED BY <1>7, <2>1, <3>2
  <2>7. s <= t
    <3> HIDE DEF below
    <3> QED BY <1>9, <2>4, <2>6
  <2>8. IndexOf(s) <= IndexOf(t) BY <1>1, <1>11, <2>4, <2>7, IndexGrows
  <2> QED BY <2>4, <2>8
<1>15. \A j \in reached : j \in Nat
  <2> HIDE DEF usedto
  <2> QED BY <1>2
<1>16. Histo!Min(reached) = i
  <2> HIDE DEF reached, i
  <2> QED BY <1>13, <1>14, <1>15, MinIs
<1>17. reached # {} BY <1>13
<1> QED BY <1>10, <1>11, <1>16, <1>17

\* Minimum and maximum are those of the values, to the precision of their sub-buckets.
LEMMA EndsAre ==
    ASSUME Filled, EndsRight, InUse # {}
    PROVE  /\ Histo!Equivalent(Histo!min, Histo!Min(InUse)) /\ Histo!min <= Histo!Min(InUse)
           /\ Histo!Equivalent(Histo!max, Histo!Max(InUse)) /\ Histo!max >= Histo!Max(InUse)
<1>1. /\ config \in Configs /\ \A v \in InUse : IndexOf(v) \in Bins
      /\ \A i \in Bins : counts[i] \in Nat /\ counts[i] = Sum(recorded, ValuesAt(i))
      /\ \A v \in Values : recorded[v] \in Nat
  BY DEF Filled
<1>2. 0 \in Bins /\ Bins \subseteq Nat /\ Values \subseteq Nat BY <1>1, BinsAre
<1>3. /\ InUse \subseteq Nat /\ InUse \subseteq Values /\ \A v \in InUse : recorded[v] > 0
  BY <1>2 DEF InUse
<1>4. \A v, w : Histo!Equivalent(v, w) <=> IndexOf(v) = IndexOf(w)
  BY DEF Histo!Equivalent, IndexOf
<1>5. IsFiniteSet(ValuesAt(0)) /\ \A v \in ValuesAt(0) : recorded[v] \in Nat BY <1>1, BinsAre
<1>6. counts[0] > 0 <=> \E v \in InUse : IndexOf(v) = 0
  <2>1. counts[0] > 0 <=> \E v \in ValuesAt(0) : recorded[v] > 0 BY <1>1, <1>2, <1>5, SumPositive
  <2> QED BY <2>1 DEF ValuesAt, InUse
<1>7. \A v \in Nat : IndexOf(v) \in Nat BY <1>1, ValueIs
<1>8. IndexOf(0) = 0
  <2>1. Histo!value_at_index(0) \in Nat /\ IndexOf(Histo!value_at_index(0)) = 0 BY <1>1, IndexOfValue
  <2>2. 0 <= Histo!value_at_index(0) /\ 0 \in Nat BY <2>1
  <2>3. IndexOf(0) <= 0 BY <1>1, <2>1, <2>2, IndexGrows
  <2> QED BY <1>7, <2>2, <2>3
<1>9. PICK m \in InUse : \A v \in InUse : m <= v BY <1>3, LeastNumber
<1>10. m \in Nat /\ Histo!Min(InUse) = m
  <2>1. \A v \in InUse : v \in Int BY <1>3
  <2> QED BY <1>3, <1>9, <2>1, MinIs
<1>11. Histo!Equivalent(Histo!min, m) /\ Histo!min <= m
  <2>1. CASE counts[0] > 0
    <3>1. Histo!min = 0 BY <2>1 DEF Histo!min
    <3>2. PICK v \in InUse : IndexOf(v) = 0 BY <1>6, <2>1
    <3>3. v \in Nat /\ m <= v BY <1>3, <1>9, <3>2
    <3>4. IndexOf(m) <= IndexOf(v) BY <1>1, <1>10, <3>3, IndexGrows
    <3>5. IndexOf(m) = 0 BY <1>7, <1>10, <3>2, <3>4
    <3> QED BY <1>4, <1>8, <1>10, <3>1, <3>5
  <2>2. CASE ~(counts[0] > 0)
    <3>1. 0 \notin InUse BY <1>6, <1>8, <2>2
    <3>2. /\ \A v \in InUse \ {0} : min_value # -1 /\ min_value <= v
          /\ min_value \in (InUse \ {0}) \cup {-1}
      BY DEF EndsRight
    <3>3. m \in InUse \ {0} BY <1>9, <3>1
    <3>4. min_value # -1 /\ min_value <= m /\ min_value \in InUse BY <3>2, <3>3
    <3>5. m <= min_value /\ min_value \in Nat BY <1>3, <1>9, <3>4
    <3>6. min_value = m BY <1>10, <3>4, <3>5
    <3>7. Histo!min = Histo!lowest_equivalent_value(m)
      BY <2>2, <3>4, <3>6 DEF Histo!min, Histo!non_zero_min, Histo!NoMin
    <3>8. /\ Histo!lowest_equivalent_value(m) \in Nat
          /\ IndexOf(Histo!lowest_equivalent_value(m)) = IndexOf(m)
          /\ m \in Histo!lowest_equivalent_value(m) .. Histo!highest_equivalent_value(m)
      BY <1>1, <1>10, HighestIs, ValueBetween
    <3>9. Histo!lowest_equivalent_value(m) <= m
      <4> DEFINE x == Histo!lowest_equivalent_value(m)
      <4>1. x \in Nat /\ m \in x .. Histo!highest_equivalent_value(m) BY <3>8
      <4> HIDE DEF x
      <4> QED BY <4>1 DEF x
    <3> QED BY <1>4, <3>7, <3>8, <3>9
  <2> QED BY <2>1, <2>2
<1>12. /\ max_value \in InUse \cup {0} /\ \A v \in InUse : v <= max_value BY DEF EndsRight
<1>13. max_value \in InUse /\ max_value \in Nat
  <2>1. CASE max_value = 0
    <3>1. m <= 0 BY <1>9, <1>12, <2>1
    <3> QED BY <1>9, <1>10, <2>1, <3>1
  <2> QED BY <1>3, <1>12, <2>1
<1>14. Histo!Max(InUse) = max_value
  <2>1. \A v \in InUse : v \in Int /\ max_value >= v BY <1>3, <1>12, <1>13
  <2>2. InUse \subseteq Int BY <2>1
  <2> QED BY <1>13, <2>1, <2>2, MaxIs
<1>15. Histo!Equivalent(Histo!max, max_value) /\ Histo!max >= max_value
  <2>1. CASE max_value = 0
    <3>1. Histo!max = 0 BY <2>1 DEF Histo!max
    <3> QED BY <1>4, <2>1, <3>1
  <2>2. CASE max_value # 0
    <3> DEFINE h == Histo!highest_equivalent_value(max_value)
               l == Histo!lowest_equivalent_value(max_value)
    <3>1. Histo!max = h BY <2>2 DEF Histo!max
    <3>2. h \in Nat /\ IndexOf(h) = IndexOf(max_value) /\ max_value \in l .. h /\ l \in Nat
      BY <1>1, <1>13, HighestIs, ValueBetween
    <3> HIDE DEF h, l
    <3>3. h >= max_value BY <1>13, <3>2
    <3> QED BY <1>4, <3>1, <3>2, <3>3
  <2> QED BY <2>1, <2>2
<1> QED BY <1>10, <1>11, <1>14, <1>15

LEMMA PercentilesAre ==
    ASSUME Filled, EndsRight
    PROVE  Histo!PercentilesRight
<1> DEFINE smallest(k) ==
             Histo!Min({v \in InUse : Histo!RecordedIn({w \in InUse : w <= v}) >= k})
<1> SUFFICES ASSUME InUse # {}
             PROVE  \A p \in Percents :
                        Histo!value_at_percentile(p)
                          = Histo!highest_equivalent_value(smallest(Histo!Max({Nearest(p), 1})))
  BY EndsAre DEF Histo!PercentilesRight, InUse, Nearest
<1>1. total \in Nat \ {0}
  <2>1. total \in Nat /\ total = Sum(recorded, InUse) BY FilledSums
  <2>2. IsFiniteSet(InUse) /\ \A v \in InUse : recorded[v] \in Nat /\ recorded[v] > 0
    <3>1. IsFiniteSet(Values) /\ InUse \subseteq Values BY HistogramAssumption DEF InUse
    <3>2. \A v \in Values : recorded[v] \in Nat BY DEF Filled
    <3> QED BY <3>1, <3>2, FS_Subset DEF InUse
  <2>3. Sum(recorded, InUse) > 0 BY <2>2, SumPositive
  <2> QED BY <2>1, <2>3
<1> SUFFICES ASSUME NEW p \in Percents
             PROVE  Histo!value_at_percentile(p)
                      = Histo!highest_equivalent_value(smallest(Histo!Max({Nearest(p), 1})))
  OBVIOUS
<1> DEFINE k == Asked(p)
           used == {i \in Bins : counts[i] > 0}
           reached == {i \in used : Sum(counts, {j \in used : j <= i}) >= k}
           s == Histo!Min({v \in InUse : Sum(recorded, {w \in InUse : w <= v}) >= k})
<1>2. p \in 0 .. 100 BY HistogramAssumption
<1>3. k \in Nat /\ 1 <= k /\ k <= total /\ Histo!Max({Nearest(p), 1}) = k
  BY <1>1, <1>2, NearestIs DEF Asked
<1>4. smallest(k) = s BY SumIs DEF Histo!RecordedIn
<1>5. Histo!value_at_percentile(p) =
          IF reached = {} THEN 0
          ELSE Histo!highest_equivalent_value(Histo!value_at_index(Histo!Min(reached)))
  <2>1. DOMAIN counts = Bins BY DEF Filled
  <2>2. Histo!get_count_at_percentile(p) = k BY DEF Histo!get_count_at_percentile, Asked
  <2> HIDE DEF k
  <2> QED BY <2>1, <2>2, SumIs DEF Histo!value_at_percentile, Histo!CountsIn
<1>6. s \in Nat /\ reached # {} /\ Histo!Min(reached) = IndexOf(s)
  <2> HIDE DEF k
  <2> QED BY <1>3, PercentileIs
<1> HIDE DEF s, reached
<1>7. config \in Configs BY DEF Filled
<1>8. /\ Histo!value_at_index(IndexOf(s)) = Histo!lowest_equivalent_value(s)
      /\ Histo!highest_equivalent_value(Histo!lowest_equivalent_value(s))
           = Histo!highest_equivalent_value(s)
  BY <1>6, <1>7, ValueIs, HighestIs
<1> QED BY <1>3, <1>4, <1>5, <1>6, <1>8

-----------------------------------------------------------------------------
(* The iterators *)

\* The iterator has counted the values up to its index, which it has reached with `to'; the
\* next level is not below.
Walks ==
    /\ iter \in [active : {TRUE}, kind : {"recorded", "linear", "log"}, first : Nat, level : Nat,
                 index : Int, value : Nat, cumulative : Int, to : Nat]
    /\ -1 <= iter.index /\ iter.index <= Histo!counts_len
    /\ iter.cumulative = Sum(counts, BinsUpTo(iter.index))
    /\ iter.index = -1 => iter.value = 0
    /\ iter.index \in Bins =>
          /\ iter.value = Histo!value_at_index(iter.index) /\ IndexOf(iter.to) = iter.index
          /\ iter.kind # "recorded" => iter.index <= IndexOf(iter.level)

IteratorInv == iter = Histo!NoIterator \/ Walks

LEMMA CountsDoAddUp ==
    ASSUME Filled, IteratorInv
    PROVE  Histo!CountsAddUp
<1>1. Histo!NoIterator.active = FALSE BY DEF Histo!NoIterator
<1> SUFFICES ASSUME iter.active, Walks PROVE Histo!CountsAddUp
  BY <1>1 DEF Histo!CountsAddUp, IteratorInv
<1>2. config \in Configs BY DEF Filled
<1>3. /\ Histo!counts_len \in Nat \ {0} /\ Values \subseteq Nat /\ Bins \subseteq Nat
      /\ BinsUpTo(iter.index) \subseteq Bins
  BY <1>2, BinsAre
<1>4. /\ iter.cumulative = Sum(counts, BinsUpTo(iter.index))
      /\ iter.index \in Bins => IndexOf(iter.to) = iter.index
      /\ iter.to \in Nat /\ iter.index \in Int
  BY DEF Walks
<1>5. iter.cumulative \in Nat /\ total \in Nat /\ iter.cumulative <= total BY <1>3, <1>4, FilledSums
<1>6. ~Histo!Continues => iter.cumulative = total
  <2>1. ~Histo!Continues => ~(iter.cumulative < total) BY DEF Histo!Continues, Histo!has_next
  <2> QED BY <1>5, <2>1
<1>7. ASSUME iter.index \in Bins
      PROVE  iter.cumulative =
               Histo!RecordedIn({v \in Values : v <= Histo!highest_equivalent_value(iter.to)})
  <2>1. iter.index \in Int /\ -1 <= iter.index /\ iter.index < Histo!counts_len
    BY <1>3, <1>4, <1>7 DEF Bins
  <2>2. iter.cumulative = Sum(recorded, ValuesUpTo(iter.index)) BY <1>4, <2>1, CountedUpTo
  <2>3. \A v \in Values : v <= Histo!highest_equivalent_value(iter.to) <=> IndexOf(v) <= iter.index
    BY <1>2, <1>3, <1>4, <1>7, IndexUpTo
  <2>4. {v \in Values : v <= Histo!highest_equivalent_value(iter.to)} = ValuesUpTo(iter.index)
    BY <2>3 DEF ValuesUpTo
  <2> QED BY <2>2, <2>4, SumIs DEF Histo!RecordedIn
<1> QED BY <1>6, <1>7 DEF Histo!CountsAddUp, Bins

\* What move_next() makes of the iterator.
LEMMA MoveToIs ==
    ASSUME Filled, Walks, NEW i \in Int, iter.index <= i, i <= Histo!counts_len
    PROVE  LET m == Histo!MoveTo(i)
           IN  /\ m \in [active : {TRUE}, kind : {iter.kind}, first : {iter.first},
                         level : {iter.level}, index : {i}, value : Nat,
                         cumulative : {Sum(counts, BinsUpTo(i))}, to : {iter.to}]
               /\ m = [iter EXCEPT !.index = i, !.cumulative = m.cumulative, !.value = m.value]
               /\ i \in Bins => m.value = Histo!value_at_index(i)
               /\ i = -1 => m.value = 0
<1>1. config \in Configs BY DEF Filled
<1>2. Histo!counts_len \in Nat \ {0} /\ Bins \subseteq Nat BY <1>1, BinsAre
<1>3. /\ iter \in [active : {TRUE}, kind : {"recorded", "linear", "log"}, first : Nat, level : Nat,
                   index : Int, value : Nat, cumulative : Int, to : Nat]
      /\ -1 <= iter.index /\ iter.index <= Histo!counts_len
      /\ iter.cumulative = Sum(counts, BinsUpTo(iter.index))
      /\ iter.index = -1 => iter.value = 0
      /\ iter.index \in Bins => iter.value = Histo!value_at_index(iter.index)
  BY DEF Walks
<1> DEFINE l == Histo!counts_len - 1
           z == Histo!Min({i, l})
           c == iter.cumulative + Sum(counts, iter.index + 1 .. z)
           x == IF i = iter.index THEN iter.value ELSE Histo!value_at_index(z)
           m == [iter EXCEPT !.index = i, !.cumulative = c, !.value = x]
<1>4. z = IF i <= l THEN i ELSE l
  <2>1. l \in Int BY <1>2
  <2> HIDE DEF l
  <2>2. i <= l => Histo!Min({i, l}) = i BY <2>1, MinIs
  <2>3. ~(i <= l) => Histo!Min({i, l}) = l
    <3>1. ~(i <= l) => l <= i /\ l <= l BY <2>1
    <3> QED BY <2>1, <3>1, MinIs
  <2> QED BY <2>2, <2>3
<1>5. Histo!MoveTo(i) = m BY SumIs DEF Histo!MoveTo, Histo!CountsIn
<1>6. z \in Int /\ -1 <= z /\ z <= i /\ z < Histo!counts_len /\ (i \in Bins => z = i)
  BY <1>2, <1>3, <1>4 DEF Bins
<1>7. i # iter.index => z \in Nat BY <1>2, <1>3, <1>4
<1>8. c = Sum(counts, BinsUpTo(i))
  <2> DEFINE A == BinsUpTo(iter.index)
             B == BinsUpTo(i)
  <2>1. A \subseteq B /\ IsFiniteSet(B) /\ \A j \in B : counts[j] \in Int
    <3>1. \A j \in Bins : counts[j] \in Int BY DEF Filled
    <3>2. A \subseteq B
      <4> DEFINE n == iter.index
      <4>1. n \in Int /\ n <= i BY <1>3
      <4> HIDE DEF n
      <4>2. \A j \in Nat : j <= n => j <= i BY <4>1
      <4> QED BY <1>2, <4>2 DEF BinsUpTo, n
    <3>3. IsFiniteSet(B) /\ B \subseteq Bins BY <1>1, BinsAre
    <3> QED BY <3>1, <3>2, <3>3
  <2>2. B \ A = iter.index + 1 .. z
    <3>1. \A j : j \in Bins <=> j \in Int /\ 0 <= j /\ j <= l BY <1>2 DEF Bins
    <3> DEFINE n == iter.index
    <3>2. n \in Int /\ -1 <= n /\ l \in Int BY <1>2, <1>3
    <3> HIDE DEF n, l, z
    <3>3. \A j : j \in B \ A <=> j \in Int /\ 0 <= j /\ j <= l /\ j <= i /\ ~(j <= n)
      BY <3>1 DEF BinsUpTo, n
    <3>4. \A j : j \in n + 1 .. z <=> j \in Int /\ n + 1 <= j /\ j <= z BY <1>6, <3>2
    <3>5. \A j \in Int : 0 <= j /\ j <= l /\ j <= i /\ ~(j <= n) <=> n + 1 <= j /\ j <= z
      BY <1>4, <3>2
    <3>6. \A j : j \in B \ A <=> j \in n + 1 .. z
      <4> HIDE DEF A, B
      <4> QED BY <3>3, <3>4, <3>5
    <3> QED BY <3>6 DEF n
  <2> HIDE DEF A, B, z
  <2>3. Sum(counts, B) = Sum(counts, A) + Sum(counts, B \ A) BY <2>1, SumParts
  <2> QED BY <1>3, <2>2, <2>3 DEF A, B
<1>9. x \in Nat
  <2>1. CASE i = iter.index BY <1>3, <2>1
  <2>2. CASE i # iter.index
    <3>1. z \in Nat BY <1>7, <2>2
    <3>2. Histo!value_at_index(z) \in Nat
      <4> HIDE DEF z
      <4> QED BY <1>1, <3>1, IndexOfValue
    <3> QED BY <2>2, <3>2
  <2> QED BY <2>1, <2>2
<1>10. /\ i \in Bins => x = Histo!value_at_index(i)
       /\ i = -1 => x = 0
  <2>1. i \in Bins => x = Histo!value_at_index(i) BY <1>3, <1>6
  <2>2. ASSUME i = -1 PROVE x = 0
    <3>1. iter.index = -1 BY <1>3, <2>2
    <3> QED BY <1>3, <2>2, <3>1
  <2> QED BY <2>1, <2>2
<1> HIDE DEF c, x
<1>11. m.cumulative = c /\ m.value = x BY <1>3
<1>12. m \in [active : {TRUE}, kind : {iter.kind}, first : {iter.first},
              level : {iter.level}, index : {i}, value : Nat,
              cumulative : {Sum(counts, BinsUpTo(i))}, to : {iter.to}]
  BY <1>3, <1>8, <1>9
<1>13. m = [iter EXCEPT !.index = i, !.cumulative = m.cumulative, !.value = m.value] BY <1>11
<1> HIDE DEF m
<1> QED BY <1>5, <1>10, <1>11, <1>12, <1>13

\* A step of the histogram does not change how values are counted.
LEMMA SameBuckets ==
    ASSUME config' = config
    PROVE  /\ Bins' = Bins /\ Histo!counts_len' = Histo!counts_len
           /\ \A v : IndexOf(v)' = IndexOf(v)
           /\ \A i : BinsUpTo(i)' = BinsUpTo(i) /\ ValuesAt(i)' = ValuesAt(i)
           /\ \A i : Histo!value_at_index(i)' = Histo!value_at_index(i)
<1>1. Histo!unit_magnitude' = Histo!unit_magnitude BY DEF Histo!unit_magnitude
<1>2. /\ Histo!sub_bucket_half_count_magnitude' = Histo!sub_bucket_half_count_magnitude
      /\ Histo!sub_bucket_half_count' = Histo!sub_bucket_half_count
  BY DEF Histo!sub_bucket_half_count, Histo!sub_bucket_half_count_magnitude
<1>3. Histo!counts_len' = Histo!counts_len
  BY <1>1, <1>2 DEF Histo!counts_len, Histo!bucket_count, Histo!sub_bucket_count
<1>4. \A v : Histo!get_bucket_index(v)' = Histo!get_bucket_index(v)
  BY <1>1, <1>2 DEF Histo!get_bucket_index
<1>5. \A v : IndexOf(v)' = IndexOf(v)
  BY <1>1, <1>2, <1>4 DEF IndexOf, Histo!counts_index_for, Histo!get_sub_bucket_index
<1>6. \A i : Histo!value_at_index(i)' = Histo!value_at_index(i)
  BY <1>1, <1>2 DEF Histo!value_at_index, Histo!value_from_index
<1>7. Bins' = Bins BY <1>3 DEF Bins
<1>8. \A i : BinsUpTo(i)' = BinsUpTo(i) /\ ValuesAt(i)' = ValuesAt(i)
  BY <1>5, <1>7 DEF BinsUpTo, ValuesAt
<1> QED BY <1>3, <1>5, <1>6, <1>7, <1>8

LEMMA WalksOn ==
    ASSUME UNCHANGED <<config, counts>>,
           NEW x \in [active : {TRUE}, kind : {"recorded", "linear", "log"}, first : Nat,
                      level : Nat, index : Int, value : Nat, cumulative : Int, to : Nat],
           iter' = x,
           -1 <= x.index, x.index <= Histo!counts_len,
           x.cumulative = Sum(counts, BinsUpTo(x.index)),
           x.index = -1 => x.value = 0,
           x.index \in Bins =>
              /\ x.value = Histo!value_at_index(x.index) /\ IndexOf(x.to) = x.index
              /\ x.kind # "recorded" => x.index <= IndexOf(x.level)
    PROVE  Walks'
<1>1. /\ Bins' = Bins /\ Histo!counts_len' = Histo!counts_len
      /\ \A v : IndexOf(v)' = IndexOf(v)
      /\ \A i : BinsUpTo(i)' = BinsUpTo(i)
      /\ \A i : Histo!value_at_index(i)' = Histo!value_at_index(i)
  BY SameBuckets
<1> QED BY <1>1 DEF Walks

\* The linear and the logarithmic iterator stop at the sub-bucket of their level.
LEMMA LevelReached ==
    ASSUME Filled, Walks, iter.kind # "recorded", iter.index < Histo!counts_len,
           Histo!do_next, UNCHANGED <<config, counts>>
    PROVE  Walks'
<1> DEFINE n == iter.index
           L == Histo!counts_len
           t == IndexOf(iter.level)
           reached == {i \in n .. L - 1 : Histo!Reaches(i)}
<1>1. config \in Configs BY DEF Filled
<1>2. L \in Nat \ {0} /\ \A j : j \in Bins <=> j \in Nat /\ j < L BY <1>1, BinsAre DEF Bins
<1>3. /\ iter \in [active : {TRUE}, kind : {"recorded", "linear", "log"}, first : Nat, level : Nat,
                   index : Int, value : Nat, cumulative : Int, to : Nat]
      /\ -1 <= n /\ (n \in Bins => n <= t)
  BY DEF Walks
<1>4. n \in Int /\ t \in Nat /\ iter.level \in Nat BY <1>1, <1>3, ValueIs
<1>5. \A i \in Bins : n <= i => (Histo!Reaches(i) <=> t <= i)
  <2> SUFFICES ASSUME NEW i \in Bins, n <= i PROVE Histo!Reaches(i) <=> t <= i OBVIOUS
  <2>1. i \in Nat /\ i \in Int /\ i <= L BY <1>2
  <2>2. Histo!MoveTo(i).value = Histo!value_at_index(i) BY <2>1, MoveToIs
  <2>3. Histo!Reaches(i) <=> Histo!value_at_index(i) >= Histo!lowest_equivalent_value(iter.level)
    BY <2>2 DEF Histo!Reaches
  <2> QED BY <1>1, <1>4, <2>1, <2>3, ValueReaches
<1>6. CASE reached = {}
  <2>1. iter' = Histo!MoveTo(L) BY <1>6 DEF Histo!do_next
  <2> DEFINE m == Histo!MoveTo(L)
  <2>2. /\ m \in [active : {TRUE}, kind : {iter.kind}, first : {iter.first},
                  level : {iter.level}, index : {L}, value : Nat,
                  cumulative : {Sum(counts, BinsUpTo(L))}, to : {iter.to}]
    <3>1. n <= L /\ L <= L /\ L \in Int BY <1>2, <1>4
    <3> QED BY <3>1, MoveToIs
  <2>3. Sum(counts, BinsUpTo(L)) \in Int
    <3>1. BinsUpTo(L) \subseteq Bins BY <1>1, BinsAre
    <3> QED BY <3>1, FilledSums
  <2>4. L # -1 /\ L \notin Bins /\ -1 <= L /\ L <= L /\ L \in Int BY <1>2
  <2> HIDE DEF m
  <2>5. /\ m \in [active : {TRUE}, kind : {"recorded", "linear", "log"}, first : Nat, level : Nat,
                  index : Int, value : Nat, cumulative : Int, to : Nat]
        /\ m.index = L /\ m.cumulative = Sum(counts, BinsUpTo(L))
    BY <1>3, <2>2, <2>3, <2>4
  <2> QED BY <2>1, <2>4, <2>5, WalksOn DEF m
<1>7. CASE reached # {}
  <2>1. PICK r \in reached : \A j \in reached : r <= j
    <3> DEFINE T == {k \in Nat : k - 1 \in reached}
    <3>1. PICK j \in reached : TRUE BY <1>7
    <3>2. j \in Int /\ -1 <= j BY <1>2, <1>3, <1>4, <3>1
    <3>3. j + 1 \in Nat /\ (j + 1) - 1 = j BY <3>2
    <3>4. T \subseteq Nat /\ T # {}
      <4> HIDE DEF reached
      <4> QED BY <3>1, <3>3
    <3>5. PICK k \in T : \A i \in T : k <= i
      <4> HIDE DEF T
      <4> QED BY <3>4, LeastNumber
    <3>6. \A i \in reached : i \in Int /\ -1 <= i BY <1>2, <1>3, <1>4
    <3> HIDE DEF reached
    <3>7. \A i \in reached : i + 1 \in T
      <4> SUFFICES ASSUME NEW i \in reached PROVE i + 1 \in T OBVIOUS
      <4>1. i + 1 \in Nat /\ (i + 1) - 1 = i BY <3>6
      <4> QED BY <4>1
    <3>8. k \in Nat /\ k - 1 \in reached BY <3>5
    <3>9. \A i \in reached : k <= i + 1
      <4> HIDE DEF T
      <4> QED BY <3>5, <3>7
    <3>10. \A i \in reached : k - 1 <= i BY <3>6, <3>8, <3>9
    <3> QED BY <3>8, <3>10
  <2>2. r \in Int /\ n <= r /\ r < L /\ Histo!Reaches(r) BY <1>2, <1>4, <2>1
  <2>3. Histo!Min(reached) = r
    <3>1. \A j \in reached : j \in Int BY <1>2, <1>4
    <3>2. reached \subseteq Int BY <3>1
    <3> HIDE DEF reached
    <3> QED BY <2>1, <3>2, MinIs
  <2> DEFINE m == Histo!MoveTo(r)
             x == [m EXCEPT !.to = iter.level, !.level = Histo!NextLevel]
  <2>4. iter' = x BY <1>7, <2>3 DEF Histo!do_next
  <2>5. /\ m \in [active : {TRUE}, kind : {iter.kind}, first : {iter.first},
                  level : {iter.level}, index : {r}, value : Nat,
                  cumulative : {Sum(counts, BinsUpTo(r))}, to : {iter.to}]
        /\ r \in Bins => m.value = Histo!value_at_index(r)
        /\ r = -1 => m.value = 0
    <3>1. r <= L BY <1>2, <2>2
    <3> QED BY <2>2, <3>1, MoveToIs
  <2>6. Histo!NextLevel \in Nat /\ iter.level <= Histo!NextLevel
    <3> DEFINE a == iter.level
               f == iter.first
    <3>1. a \in Nat /\ f \in Nat /\ LogBase \in Nat \ {0} BY <1>3, HistogramAssumption
    <3>2. Histo!NextLevel = IF iter.kind = "linear" THEN a + f ELSE a * LogBase
      BY DEF Histo!NextLevel
    <3> HIDE DEF a, f
    <3>3. a * LogBase \in Nat /\ a <= a * LogBase
      <4>1. 1 \in Nat /\ 1 <= LogBase BY <3>1
      <4>2. 1 * a <= LogBase * a
        <5>1. CASE a = 0 BY <3>1, <5>1
        <5>2. CASE a # 0
          <6>1. a \in Nat \ {0} BY <3>1, <5>2
          <6> QED BY <3>1, <4>1, <6>1, ProductOrder
        <5> QED BY <5>1, <5>2
      <4> QED BY <3>1, <4>2
    <3>4. a + f \in Nat /\ a <= a + f BY <3>1
    <3> QED BY <3>2, <3>3, <3>4 DEF a
  <2>7. t <= IndexOf(Histo!NextLevel) BY <1>1, <1>4, <2>6, IndexGrows
  <2>8. Sum(counts, BinsUpTo(r)) \in Int
    <3>1. BinsUpTo(r) \subseteq Bins BY <1>1, BinsAre
    <3> QED BY <3>1, FilledSums
  <2>9. r \in Bins => t = r
    <3> SUFFICES ASSUME r \in Bins PROVE t = r OBVIOUS
    <3>1. t <= r BY <1>5, <2>2
    <3>2. n <= t /\ t < L
      <4> HIDE DEF n, t, L
      <4>1. n = -1 \/ n \in Nat BY <1>3, <1>4
      <4>2. n \in Nat => n \in Bins BY <1>2, <1>4, <2>2
      <4> QED BY <1>2, <1>3, <1>4, <2>2, <3>1, <4>1, <4>2
    <3>3. t \in Bins BY <1>2, <1>4, <3>2
    <3>4. t \in reached
      <4>1. Histo!Reaches(t)
        <5>1. t <= t BY <1>4
        <5> QED BY <1>5, <3>2, <3>3, <5>1
      <4>2. t \in n .. L - 1
        <5> HIDE DEF t, n, L
        <5> QED BY <1>2, <1>4, <3>2
      <4> QED BY <4>1, <4>2
    <3>5. r <= t BY <2>1, <3>4
    <3> HIDE DEF t
    <3> QED BY <1>4, <2>2, <3>1, <3>5
  <2> HIDE DEF m, reached
  <2>10. /\ x \in [active : {TRUE}, kind : {"recorded", "linear", "log"}, first : Nat, level : Nat,
                   index : Int, value : Nat, cumulative : Int, to : Nat]
         /\ x.index = r /\ x.cumulative = Sum(counts, BinsUpTo(r)) /\ x.to = iter.level
         /\ x.value = m.value /\ x.level = Histo!NextLevel
    BY <1>3, <2>2, <2>5, <2>6, <2>8
  <2> HIDE DEF x
  <2>11. -1 <= r /\ r <= L BY <1>2, <1>3, <1>4, <2>2
  <2>12. x.index \in Bins =>
            /\ x.value = Histo!value_at_index(x.index) /\ IndexOf(x.to) = x.index
            /\ x.kind # "recorded" => x.index <= IndexOf(x.level)
    BY <2>5, <2>7, <2>9, <2>10
  <2> QED BY <2>4, <2>5, <2>10, <2>11, <2>12, WalksOn
<1> QED BY <1>6, <1>7

\* The iterator over recorded values stops at the next count.
LEMMA CountFound ==
    ASSUME Filled, Walks, iter.kind = "recorded", Histo!has_next,
           Histo!do_next, UNCHANGED <<config, counts>>
    PROVE  Walks'
<1> DEFINE n == iter.index
           L == Histo!counts_len
           used == {i \in n + 1 .. L - 1 : counts[i] # 0}
<1>1. config \in Configs BY DEF Filled
<1>2. L \in Nat \ {0} /\ \A j : j \in Bins <=> j \in Nat /\ j < L BY <1>1, BinsAre DEF Bins
<1>3. /\ iter \in [active : {TRUE}, kind : {"recorded", "linear", "log"}, first : Nat, level : Nat,
                   index : Int, value : Nat, cumulative : Int, to : Nat]
      /\ -1 <= n /\ iter.cumulative = Sum(counts, BinsUpTo(n))
  BY DEF Walks
<1>4. n \in Int BY <1>3
<1>5. used # {}
  <2> SUFFICES ASSUME used = {} PROVE FALSE OBVIOUS
  <2>1. \A j \in Bins \ BinsUpTo(n) : counts[j] = 0
    <3> SUFFICES ASSUME NEW j \in Bins, ~(j <= n) PROVE counts[j] = 0 BY DEF BinsUpTo
    <3>1. j \in n + 1 .. L - 1
      <4> HIDE DEF n, L
      <4> QED BY <1>2, <1>4
    <3> QED BY <3>1
  <2>2. IsFiniteSet(Bins) /\ BinsUpTo(n) \subseteq Bins BY <1>1, BinsAre
  <2>3. (\A j \in Bins : counts[j] \in Nat) /\ total = Sum(counts, Bins) BY DEF Filled
  <2>4. Sum(counts, BinsUpTo(n)) = total /\ total \in Nat BY <2>1, <2>2, <2>3, SumPart
  <2>5. iter.cumulative < total BY DEF Histo!has_next
  <2> QED BY <1>3, <2>4, <2>5
<1>6. \A j \in used : j \in Nat /\ n <= j /\ j < L /\ j \in Bins BY <1>2, <1>3, <1>4
<1>7. PICK r \in used : \A j \in used : r <= j
  <2>1. used \subseteq Nat BY <1>6
  <2> HIDE DEF used
  <2> QED BY <1>5, <2>1, LeastNumber
<1>8. Histo!Min(used) = r
  <2>1. used \subseteq Int BY <1>6
  <2> HIDE DEF used
  <2> QED BY <1>7, <2>1, MinIs
<1>9. r \in Nat /\ r \in Int /\ n <= r /\ r <= L /\ r \in Bins BY <1>2, <1>6, <1>7
<1> DEFINE m == Histo!MoveTo(r)
           x == [m EXCEPT !.to = Histo!value_at_index(r)]
<1>10. iter' = x BY <1>8 DEF Histo!do_next
<1>11. /\ m \in [active : {TRUE}, kind : {iter.kind}, first : {iter.first},
                 level : {iter.level}, index : {r}, value : Nat,
                 cumulative : {Sum(counts, BinsUpTo(r))}, to : {iter.to}]
       /\ m.value = Histo!value_at_index(r)
  BY <1>9, MoveToIs
<1>12. Histo!value_at_index(r) \in Nat /\ IndexOf(Histo!value_at_index(r)) = r
  BY <1>1, <1>9, IndexOfValue
<1>13. Sum(counts, BinsUpTo(r)) \in Int
  <2>1. BinsUpTo(r) \subseteq Bins BY <1>1, BinsAre
  <2> QED BY <2>1, FilledSums
<1> HIDE DEF m, used
<1>14. /\ x \in [active : {TRUE}, kind : {"recorded", "linear", "log"}, first : Nat, level : Nat,
                 index : Int, value : Nat, cumulative : Int, to : Nat]
       /\ x.index = r /\ x.cumulative = Sum(counts, BinsUpTo(r))
       /\ x.to = Histo!value_at_index(r) /\ x.value = m.value /\ x.kind = "recorded"
  BY <1>3, <1>9, <1>11, <1>12, <1>13
<1> HIDE DEF x
<1>15. -1 <= r /\ r <= L /\ r # -1 BY <1>9
<1> QED BY <1>10, <1>11, <1>12, <1>14, <1>15, WalksOn

LEMMA IterateStep ==
    ASSUME Filled, IteratorInv, Histo!Iterate
    PROVE  IteratorInv'
<1>1. UNCHANGED <<config, counts>> BY DEF Histo!Iterate
<1>2. config \in Configs BY DEF Filled
<1>3. Histo!counts_len \in Nat /\ Bins \subseteq Nat BY <1>2, BinsAre
<1>4. Histo!NoIterator.active = FALSE BY DEF Histo!NoIterator
<1>5. ASSUME NEW kind \in {"recorded", "linear", "log"}, NEW level \in Nat, Histo!Begin(kind, level)
      PROVE  Walks'
  <2> DEFINE x == [active |-> TRUE, kind |-> kind, first |-> level, level |-> level,
                   index |-> -1, value |-> 0, cumulative |-> 0, to |-> 0]
  <2>1. iter' = x BY <1>5 DEF Histo!Begin
  <2>2. BinsUpTo(-1) = {}
    <3>1. \A j \in Nat : ~(j <= -1) OBVIOUS
    <3> QED BY <1>3, <3>1 DEF BinsUpTo
  <2>3. Sum(counts, BinsUpTo(-1)) = 0 BY <2>2, SumFirst, FS_EmptySet
  <2>4. -1 \notin Bins /\ -1 <= -1 /\ -1 <= Histo!counts_len /\ -1 \in Int BY <1>3
  <2>5. /\ x \in [active : {TRUE}, kind : {"recorded", "linear", "log"}, first : Nat, level : Nat,
                  index : Int, value : Nat, cumulative : Int, to : Nat]
        /\ x.index = -1 /\ x.cumulative = 0 /\ x.value = 0
    OBVIOUS
  <2> HIDE DEF x
  <2> QED BY <1>1, <2>1, <2>3, <2>4, <2>5, WalksOn
<1>6. ASSUME iter.active, Histo!Continues, Histo!do_next PROVE Walks'
  <2>1. Walks BY <1>4, <1>6 DEF IteratorInv
  <2>2. CASE iter.kind = "recorded"
    <3>1. Histo!has_next BY <1>6, <2>2 DEF Histo!Continues
    <3> QED BY <1>1, <1>6, <2>1, <2>2, <3>1, CountFound
  <2>3. CASE iter.kind # "recorded"
    <3>1. iter.index < Histo!counts_len
      <4>1. CASE Histo!has_next
        <5> SUFFICES ASSUME ~(iter.index < Histo!counts_len) PROVE FALSE OBVIOUS
        <5>1. iter.index = Histo!counts_len
          <6> DEFINE n == iter.index
          <6>1. n \in Int /\ n <= Histo!counts_len BY <2>1 DEF Walks
          <6> HIDE DEF n
          <6> QED BY <1>3, <6>1 DEF n
        <5>2. BinsUpTo(iter.index) = Bins
          <6>1. \A j \in Bins : j <= Histo!counts_len BY <1>3 DEF Bins
          <6> QED BY <5>1, <6>1 DEF BinsUpTo
        <5>3. iter.cumulative = Sum(counts, Bins) BY <2>1, <5>2 DEF Walks
        <5>4. iter.cumulative = total /\ total \in Nat BY <5>3, FilledSums DEF Filled
        <5>5. iter.cumulative < total BY <4>1 DEF Histo!has_next
        <5> QED BY <5>4, <5>5
      <4>2. CASE ~Histo!has_next BY <1>6, <4>2 DEF Histo!Continues
      <4> QED BY <4>1, <4>2
    <3> QED BY <1>1, <1>6, <2>1, <2>3, <3>1, LevelReached
  <2> QED BY <2>2, <2>3
<1>7. CASE ~iter.active /\ Histo!Begin("recorded", 0) BY <1>5, <1>7 DEF IteratorInv
<1>8. CASE ~iter.active /\ \E kind \in {"linear", "log"}, level \in Units : Histo!Begin(kind, level)
  <2>1. PICK kind \in {"linear", "log"}, level \in Units : Histo!Begin(kind, level) BY <1>8
  <2>2. kind \in {"recorded", "linear", "log"} /\ level \in Nat BY HistogramAssumption
  <2> QED BY <1>5, <2>1, <2>2 DEF IteratorInv
<1>9. CASE iter.active /\ Histo!Continues /\ Histo!do_next BY <1>6, <1>9 DEF IteratorInv
<1>10. CASE iter.active /\ ~Histo!Continues /\ iter' = Histo!NoIterator
  <2>1. Histo!NoIterator' = Histo!NoIterator BY DEF Histo!NoIterator
  <2> QED BY <1>10, <2>1 DEF IteratorInv
<1> QED BY <1>7, <1>8, <1>9, <1>10 DEF Histo!Iterate

-----------------------------------------------------------------------------
(* Recording *)

HistogramInv == Filled /\ EndsRight /\ IteratorInv

LEMMA RecordStep ==
    ASSUME Filled, EndsRight, NEW v \in Values, NEW n \in Nat \ {0}, Histo!record_values(v, n)
    PROVE  Filled' /\ EndsRight'
<1> DEFINE i == IndexOf(v)
<1>1. config \in Configs BY DEF Filled
<1>2. /\ Histo!counts_len \in Nat \ {0} /\ Bins \subseteq Nat /\ Values \subseteq Nat
      /\ IsFiniteSet(Bins) /\ IsFiniteSet(Values) /\ i \in Nat
  BY <1>1, BinsAre
<1>3. /\ i < Histo!counts_len /\ config' = config
      /\ counts' = [counts EXCEPT ![i] = @ + n] /\ total' = total + n
      /\ recorded' = [recorded EXCEPT ![v] = @ + n]
      /\ min_value' = IF v = 0 \/ min_value \in 1 .. v THEN min_value ELSE v
      /\ max_value' = Histo!Max({max_value, v})
  BY DEF Histo!record_values, Histo!counts_inc, Histo!update_min_max, IndexOf
<1>4. i \in Bins BY <1>2, <1>3 DEF Bins
<1>5. /\ counts \in [Bins -> Nat] /\ recorded \in [Values -> Nat]
      /\ \A j \in Bins : counts[j] = Sum(recorded, ValuesAt(j))
      /\ \A w \in InUse : IndexOf(w) \in Bins
      /\ total = Sum(counts, Bins)
  BY DEF Filled
<1>6. /\ Bins' = Bins /\ \A w : IndexOf(w)' = IndexOf(w)
      /\ \A j : ValuesAt(j)' = ValuesAt(j)
  BY <1>3, SameBuckets
<1>7. /\ counts' \in [Bins -> Nat]
      /\ \A j \in Bins : counts'[j] = IF j = i THEN counts[j] + n ELSE counts[j]
  <2> HIDE DEF i
  <2> QED BY <1>3, <1>4, <1>5
<1>8. /\ recorded' \in [Values -> Nat]
      /\ \A w \in Values : recorded'[w] = IF w = v THEN recorded[w] + n ELSE recorded[w]
  BY <1>3, <1>5
<1>9. InUse' = InUse \cup {v}
  <2>1. \A w \in Values : recorded'[w] > 0 <=> recorded[w] > 0 \/ w = v
    <3>1. \A w \in Values : recorded[w] \in Nat BY <1>5
    <3> QED BY <1>8, <3>1
  <2> QED BY <2>1 DEF InUse
<1>10. \A j \in Bins : counts'[j] = Sum(recorded', ValuesAt(j))
  <2> SUFFICES ASSUME NEW j \in Bins PROVE counts'[j] = Sum(recorded', ValuesAt(j)) OBVIOUS
  <2>1. IsFiniteSet(ValuesAt(j)) /\ ValuesAt(j) \subseteq Values BY <1>1, BinsAre
  <2>2. \A w \in ValuesAt(j) : /\ recorded[w] \in Nat
                               /\ recorded'[w] = IF w = v THEN recorded[w] + n ELSE recorded[w]
    BY <1>5, <1>8, <2>1
  <2>3. Sum(recorded', ValuesAt(j)) = Sum(recorded, ValuesAt(j)) + IF v \in ValuesAt(j) THEN n ELSE 0
    <3>1. n \in Nat OBVIOUS
    <3> QED BY <2>1, <2>2, <3>1, SumIncreased
  <2>4. v \in ValuesAt(j) <=> j = i BY DEF ValuesAt
  <2>5. counts[j] \in Nat /\ counts[j] = Sum(recorded, ValuesAt(j)) BY <1>5
  <2> HIDE DEF i
  <2>6. counts'[j] = counts[j] + IF j = i THEN n ELSE 0 BY <1>7, <2>5
  <2> QED BY <2>3, <2>4, <2>5, <2>6
<1>11. total' = Sum(counts', Bins)
  <2> HIDE DEF i
  <2>1. /\ n \in Nat
        /\ \A j \in Bins : counts[j] \in Nat /\ counts'[j] = IF j = i THEN counts[j] + n ELSE counts[j]
    BY <1>5, <1>7
  <2> DEFINE g == counts'
  <2>2. Sum(g, Bins) = Sum(counts, Bins) + IF i \in Bins THEN n ELSE 0
    <3>1. \A j \in Bins : counts[j] \in Nat /\ g[j] = IF j = i THEN counts[j] + n ELSE counts[j]
      BY <2>1
    <3>2. IsFiniteSet(Bins) /\ n \in Nat BY <1>2
    <3> HIDE DEF g
    <3> QED BY <3>1, <3>2, SumIncreased
  <2> QED BY <1>3, <1>4, <1>5, <2>2
<1>12. Filled'
  <2>1. config' \in Configs BY <1>1, <1>3
  <2>2. \A w \in InUse' : IndexOf(w) \in Bins BY <1>4, <1>5, <1>9
  <2> QED BY <1>6, <1>7, <1>8, <1>10, <1>11, <2>1, <2>2 DEF Filled
<1>13. EndsRight'
  <2>1. /\ max_value \in InUse \cup {0} /\ \A w \in InUse : w <= max_value
        /\ min_value \in (InUse \ {0}) \cup {-1}
        /\ \A w \in InUse \ {0} : min_value # -1 /\ min_value <= w
    BY DEF EndsRight
  <2>2. InUse \subseteq Nat /\ v \in Nat /\ max_value \in Nat /\ min_value \in Int
    <3>1. InUse \subseteq Nat BY <1>2 DEF InUse
    <3> QED BY <1>2, <2>1, <3>1
  <2>3. max_value' = IF max_value >= v THEN max_value ELSE v
    <3>1. max_value \in Int /\ v \in Int BY <2>2
    <3> QED BY <1>3, <3>1, MaxOfTwo
  <2>4. max_value' \in InUse' \cup {0} /\ \A w \in InUse' : w <= max_value'
    <3>1. \A w \in InUse : w \in Nat BY <2>2
    <3> QED BY <1>9, <2>1, <2>2, <2>3, <3>1
  <2>5. CASE v = 0
    <3>1. min_value' = min_value BY <1>3, <2>5
    <3>2. InUse' \ {0} = InUse \ {0} BY <1>9, <2>5
    <3> QED BY <2>1, <2>4, <3>1, <3>2 DEF EndsRight
  <2>6. CASE v # 0 /\ min_value \in 1 .. v
    <3>1. min_value' = min_value /\ min_value <= v /\ min_value # -1 BY <1>3, <2>2, <2>6
    <3>2. min_value' \in (InUse' \ {0}) \cup {-1} BY <1>9, <2>1, <3>1
    <3>3. \A w \in InUse' \ {0} : min_value' # -1 /\ min_value' <= w BY <1>9, <2>1, <3>1
    <3> QED BY <2>4, <3>2, <3>3 DEF EndsRight
  <2>7. CASE v # 0 /\ ~(min_value \in 1 .. v)
    <3>1. min_value' = v /\ v # -1 BY <1>3, <2>2, <2>7
    <3>2. min_value' \in (InUse' \ {0}) \cup {-1} BY <1>9, <2>7, <3>1
    <3>3. ASSUME NEW w \in InUse' \ {0} PROVE v <= w
      <4>1. CASE w = v BY <2>2, <4>1
      <4>2. CASE w # v
        <5>1. w \in InUse \ {0} /\ w \in Nat BY <1>9, <2>2, <4>2
        <5>2. min_value # -1 /\ min_value <= w BY <2>1, <5>1
        <5>3. min_value \in Nat /\ min_value # 0 BY <2>1, <2>2, <5>2
        <5>4. v < min_value BY <2>2, <2>7, <5>3
        <5> QED BY <2>2, <5>1, <5>2, <5>3, <5>4
      <4> QED BY <4>1, <4>2
    <3> QED BY <2>4, <3>1, <3>2, <3>3 DEF EndsRight
  <2> QED BY <2>5, <2>6, <2>7
<1> QED BY <1>12, <1>13

\* Nothing is recorded.
LEMMA NothingRecorded ==
    ASSUME config \in Configs, counts = [i \in Bins |-> 0], recorded = [v \in Values |-> 0],
           total = 0, min_value = -1, max_value = 0
    PROVE  Filled /\ EndsRight
<1>1. IsFiniteSet(Bins) /\ IsFiniteSet(Values) BY BinsAre
<1>2. counts \in [Bins -> Nat] /\ recorded \in [Values -> Nat] OBVIOUS
<1>3. \A i \in Bins : counts[i] = 0 OBVIOUS
<1>4. \A v \in Values : recorded[v] = 0 OBVIOUS
<1>5. InUse = {} BY <1>4 DEF InUse
<1>6. total = Sum(counts, Bins) BY <1>1, <1>3, SumZero
<1>7. \A i \in Bins : counts[i] = Sum(recorded, ValuesAt(i))
  <2> SUFFICES ASSUME NEW i \in Bins PROVE Sum(recorded, ValuesAt(i)) = 0 BY <1>3
  <2>1. IsFiniteSet(ValuesAt(i)) /\ ValuesAt(i) \subseteq Values BY BinsAre
  <2> QED BY <1>4, <2>1, SumZero
<1>8. Filled BY <1>2, <1>5, <1>6, <1>7 DEF Filled
<1>9. EndsRight BY <1>5 DEF EndsRight
<1> QED BY <1>8, <1>9

LEMMA ResetStep ==
    ASSUME Filled, Histo!reset
    PROVE  Filled' /\ EndsRight'
<1>1. DOMAIN counts = Bins /\ config \in Configs BY DEF Filled
<1>2. /\ config' = config /\ counts' = [i \in Bins |-> 0] /\ recorded' = [v \in Values |-> 0]
      /\ total' = 0 /\ min_value' = -1 /\ max_value' = 0
  BY <1>1 DEF Histo!reset, Histo!NoMin
<1>3. Bins' = Bins /\ \A j : ValuesAt(j)' = ValuesAt(j) BY <1>2, SameBuckets
<1>4. IsFiniteSet(Bins) /\ IsFiniteSet(Values) BY <1>1, BinsAre
<1>5. /\ counts' \in [Bins -> Nat] /\ recorded' \in [Values -> Nat]
      /\ \A i \in Bins : counts'[i] = 0
      /\ \A v \in Values : recorded'[v] = 0
  BY <1>2
<1>6. InUse' = {} BY <1>5 DEF InUse
<1>7. total' = Sum(counts', Bins) BY <1>2, <1>4, <1>5, SumZero
<1>8. \A i \in Bins : counts'[i] = Sum(recorded', ValuesAt(i))
  <2> SUFFICES ASSUME NEW i \in Bins PROVE Sum(recorded', ValuesAt(i)) = 0 BY <1>5
  <2>1. IsFiniteSet(ValuesAt(i)) /\ ValuesAt(i) \subseteq Values BY <1>1, BinsAre
  <2> QED BY <1>5, <2>1, SumZero
<1>9. Filled' BY <1>1, <1>2, <1>3, <1>5, <1>6, <1>7, <1>8 DEF Filled
<1>10. EndsRight' BY <1>2, <1>6 DEF EndsRight
<1> QED BY <1>9, <1>10

LEMMA HistogramStart == Histo!Init => HistogramInv
<1> SUFFICES ASSUME Histo!Init PROVE HistogramInv OBVIOUS
<1>1. Filled /\ EndsRight BY NothingRecorded DEF Histo!Init, Histo!NoMin, Bins
<1> QED BY <1>1 DEF HistogramInv, IteratorInv, Histo!Init

LEMMA HistogramNext == HistogramInv /\ [Histo!Next]_(Histo!vars) => HistogramInv'
<1> SUFFICES ASSUME HistogramInv, [Histo!Next]_(Histo!vars) PROVE HistogramInv' OBVIOUS
<1>1. Filled /\ EndsRight /\ IteratorInv BY DEF HistogramInv
<1>2. ASSUME ~iter.active, UNCHANGED iter PROVE IteratorInv'
  <2>1. iter = Histo!NoIterator BY <1>1, <1>2 DEF IteratorInv, Walks
  <2> QED BY <1>2, <2>1 DEF IteratorInv, Histo!NoIterator
<1>3. CASE ~iter.active /\ \E v \in Values, n \in 1 .. MaxTotal - total : Histo!record_values(v, n)
  <2>1. PICK v \in Values, n \in 1 .. MaxTotal - total : Histo!record_values(v, n) BY <1>3
  <2>2. n \in Nat \ {0} OBVIOUS
  <2>3. UNCHANGED iter BY <2>1 DEF Histo!record_values
  <2> QED BY <1>1, <1>2, <1>3, <2>1, <2>2, <2>3, RecordStep DEF HistogramInv
<1>4. CASE ~iter.active /\ Histo!reset
  <2>1. UNCHANGED iter BY <1>4 DEF Histo!reset
  <2> QED BY <1>1, <1>2, <1>4, <2>1, ResetStep DEF HistogramInv
<1>5. ASSUME UNCHANGED <<config, counts, total, min_value, max_value, recorded>>
      PROVE  Filled' /\ EndsRight'
  <2>1. Bins' = Bins /\ (\A w : IndexOf(w)' = IndexOf(w)) /\ \A j : ValuesAt(j)' = ValuesAt(j)
    BY <1>5, SameBuckets
  <2>2. InUse' = InUse BY <1>5 DEF InUse
  <2> QED BY <1>1, <1>5, <2>1, <2>2 DEF Filled, EndsRight
<1>6. CASE Histo!Iterate
  <2>1. UNCHANGED <<config, counts, total, min_value, max_value, recorded>> BY <1>6 DEF Histo!Iterate
  <2> QED BY <1>1, <1>5, <1>6, <2>1, IterateStep DEF HistogramInv
<1>7. CASE UNCHANGED Histo!vars
  <2>1. UNCHANGED <<config, counts, total, min_value, max_value, recorded>> /\ UNCHANGED iter
    BY <1>7 DEF Histo!vars
  <2>2. CASE iter = Histo!NoIterator
    <3> QED BY <1>5, <2>1, <2>2 DEF IteratorInv, HistogramInv, Histo!NoIterator
  <2>3. CASE Walks
    <3>1. /\ Bins' = Bins /\ Histo!counts_len' = Histo!counts_len
          /\ \A v : IndexOf(v)' = IndexOf(v)
          /\ \A i : BinsUpTo(i)' = BinsUpTo(i)
          /\ \A i : Histo!value_at_index(i)' = Histo!value_at_index(i)
      BY <2>1, SameBuckets
    <3>2. Walks' BY <2>1, <2>3, <3>1 DEF Walks
    <3> QED BY <1>5, <2>1, <3>2 DEF IteratorInv, HistogramInv
  <2> QED BY <1>1, <2>2, <2>3 DEF IteratorInv
<1> QED BY <1>3, <1>4, <1>6, <1>7 DEF Histo!Next

LEMMA HistogramRight ==
    ASSUME HistogramInv
    PROVE  Histo!PrecisionKept /\ Histo!ResultsRight
<1>1. config \in Configs /\ DOMAIN counts = 0 .. Histo!counts_len - 1 BY DEF HistogramInv, Filled, Bins
<1>2. Histo!PrecisionKept BY <1>1, PrecisionOf DEF Histo!PrecisionKept
<1>3. Histo!ResultsRight
  BY PercentilesAre, CountsDoAddUp DEF HistogramInv, Histo!ResultsRight
<1> QED BY <1>2, <1>3

\* For every configuration, each value up to the highest has a bucket of its own size, which is
\* no wider than the unit or the precision that was asked for, and the buckets leave no gaps.
THEOREM PrecisionIsKept == Spec => []PrecisionKept
<1>1. Init => HistogramInv BY HistogramStart DEF Init
<1>2. HistogramInv /\ [Next]_vars => HistogramInv' BY StepsOfComponents, HistogramNext
<1>3. HistogramInv => PrecisionKept BY HistogramRight DEF PrecisionKept
<1> QED BY <1>1, <1>2, <1>3, PTL DEF Spec

\* Percentiles, minimum, maximum and the counts of the iterators are those of the values that
\* record_values() accepted, whatever the configuration, the values and the reporting levels.
THEOREM ResultsAreRight == Spec => []ResultsRight
<1>1. Init => HistogramInv BY HistogramStart DEF Init
<1>2. HistogramInv /\ [Next]_vars => HistogramInv' BY StepsOfComponents, HistogramNext
<1>3. HistogramInv => ResultsRight BY HistogramRight DEF ResultsRight
<1> QED BY <1>1, <1>2, <1>3, PTL DEF Spec

-----------------------------------------------------------------------------
(* The HTTP client *)

\* What HttpClntProofs shows of a client beside any other callers, for a client alone.
ClientProofs == INSTANCE HttpClntProofs WITH Callers <- {Clnt}

\* Both are the same specification.
LEMMA SameClient ==
    /\ Client!InitClnt => ClientProofs!InitClnt
    /\ [Client!NextClnt]_(Client!allVars) => [ClientProofs!NextClnt]_(ClientProofs!allVars)
<1>1. Client!InitClnt => ClientProofs!InitClnt BY DEF Client!InitClnt, ClientProofs!InitClnt
<1>2. [Client!NextClnt]_(Client!allVars) => [ClientProofs!NextClnt]_(ClientProofs!allVars)
  BY DEF Client!Range, Client!Waiting, Client!Notify, Client!Break, Client!ResolveThrows,
         Client!ResolvePush, Client!ResolveNotify, Client!RunWait, Client!RunStop, Client!RunTake,
         Client!RunExecute, Client!RunReturn, Client!Run, Client!clear, Client!StopFlag,
         Client!StopNotify, Client!Join, Client!Destroy, Client!Resolve, Client!Calls,
         Client!Destroys, Client!Up, Client!NewConn, Client!ResolverStep, Client!vars, Client!clntVars, Client!allVars, Client!Fault,
         Client!BeginResolve, Client!Idle, Client!Ready, Client!Resolved, Client!Reconnect,
         Client!ConnectNow, Client!ConnectLater, Client!ConnectThrows, Client!ResolveAgain,
         Client!OnTimer, Client!Connected, Client!ConnectError, Client!ConnThrows,
         Client!OnIoEvent, Client!ResolveReturned, Client!ResolveThrown, Client!ConnCloses,
         Client!ServerMoves, Client!Lookup, Client!NextClnt, ClientProofs!Range,
         ClientProofs!Waiting, ClientProofs!Notify, ClientProofs!Break,
         ClientProofs!ResolveThrows, ClientProofs!ResolvePush, ClientProofs!ResolveNotify,
         ClientProofs!RunWait, ClientProofs!RunStop, ClientProofs!RunTake,
         ClientProofs!RunExecute, ClientProofs!RunReturn, ClientProofs!Run, ClientProofs!clear,
         ClientProofs!StopFlag, ClientProofs!StopNotify, ClientProofs!Join, ClientProofs!Destroy,
         ClientProofs!Resolve, ClientProofs!Calls, ClientProofs!Destroys, ClientProofs!Up,
         ClientProofs!NewConn, ClientProofs!ResolverStep, ClientProofs!vars,
         ClientProofs!clntVars, ClientProofs!allVars, ClientProofs!Fault,
         ClientProofs!BeginResolve, ClientProofs!Idle, ClientProofs!Ready, ClientProofs!Resolved,
         ClientProofs!Reconnect, ClientProofs!ConnectNow, ClientProofs!ConnectLater,
         ClientProofs!ConnectThrows, ClientProofs!ResolveAgain, ClientProofs!OnTimer,
         ClientProofs!Connected, ClientProofs!ConnectError, ClientProofs!ConnThrows,
         ClientProofs!OnIoEvent, ClientProofs!ResolveReturned, ClientProofs!ResolveThrown,
         ClientProofs!ConnCloses, ClientProofs!ServerMoves, ClientProofs!Lookup,
         ClientProofs!NextClnt
<1> QED BY <1>1, <1>2

\* The client never has two connections, or an attempt beside a connection: however failures,
\* lookups, clear() and the timer interleave.
THEOREM OneConnection == Spec => []OneAtATime
<1> DEFINE Inv == ClientProofs!ResolverInv /\ ClientProofs!ClntInv
<1>0. /\ {Clnt} \cap Runners = {} /\ BatchSize \in Nat \ {0} /\ Clears \in Nat
      /\ Clnt \in {Clnt}
  BY ClientAssumption
<1>1. Init => Inv BY <1>0, SameClient, ClientProofs!ResolverInit, ClientProofs!ClntInit DEF Init
<1>2. Inv /\ [Next]_vars => Inv' BY <1>0, StepsOfComponents, SameClient, ClientProofs!ClntStep
<1>3. Inv => OneAtATime BY DEF ClientProofs!ClntInv, OneAtATime, Client!OneAtATime
<1> HIDE DEF Inv
<1> QED BY <1>1, <1>2, <1>3, PTL DEF Spec
=============================================================================
