-------------------------- MODULE TimerQueueProofs --------------------------
(***************************************************************************)
(* Proofs about TimerQueue for any number of queues that share a pool, any *)
(* slabs, intervals and times: the reference counts and the pool, the lazy *)
(* deletion of cancelled timers, and that a timer is notified once by each *)
(* call of dispatch().                                                     *)
(***************************************************************************)
EXTENDS TimerQueue, FiniteSetTheorems, WellFoundedInduction, TLAPS

-----------------------------------------------------------------------------
(* The inductive invariant *)

\* The values of the variables.
TypeOK ==
    /\ now \in Nat
    /\ unused \subseteq Slabs
    /\ free \subseteq Impls
    /\ tq \in [Impls -> Queues]
    /\ expiry \in [Impls -> Nat]
    /\ interval \in [Impls -> Nat]
    /\ slot \in [Impls -> BOOLEAN]
    /\ ref_count \in [Impls -> Nat]
    /\ heap \in [Queues -> SUBSET Impls]
    /\ cancelled \in [Queues -> Int]
    /\ handles \in [Impls -> Nat]
    /\ phase \in {"idle", "loop", "callback"}
    /\ queue \in Queues
    /\ tmr \in Impls \cup {None}
    /\ fired \subseteq Impls

\* Impl i is in the heap of its queue.
Queued(i) == i \in heap[tq[i]]

\* The references to impl i that its heap and expire() hold.
HeapRef(i) == IF Queued(i) THEN 1 ELSE 0
LocalRef(i) == IF tmr = i THEN 1 ELSE 0

\* An impl is in no heap but that of its queue; the one that is being notified belongs to
\* the queue that is being dispatched and is not in its heap.
Shape ==
    /\ \A q \in Queues : IsFiniteSet(heap[q]) /\ \A i \in heap[q] : tq[i] = q
    /\ tmr # None => phase = "callback" /\ tq[tmr] = queue /\ ~Queued(tmr)

\* Reference counts, and what is in the pool.
Counts ==
    /\ \A i \in Impls : ref_count[i] = handles[i] + HeapRef(i) + LocalRef(i)
    /\ \A i \in Impls : (i \in free \cup UNION unused) <=> (ref_count[i] = 0)
    /\ free \cap UNION unused = {}

Dead(q) == heap[q] \ Live(heap[q])

\* The count of cancelled timers covers those in the heap.  In a queue that is not being
\* dispatched they are at most half of it, and a pending timer is at the front.
Garbage(q) ==
    /\ cancelled[q] >= Cardinality(Dead(q))
    /\ phase = "idle" \/ q # queue =>
          /\ cancelled[q] <= Cardinality(heap[q]) \div 2
          /\ heap[q] # {} => \E i \in Fronts(heap[q]) : slot[i]

\* A timer that was notified by this dispatch() is not due again.
Fired ==
    /\ phase = "idle" => fired = {}
    /\ \A i \in fired : Queued(i) => expiry[i] > now

Inv ==
    /\ TypeOK
    /\ Shape
    /\ Counts
    /\ \A q \in Queues : Garbage(q)
    /\ Fired

\* A pending timer has a handle, and is in its heap or being notified.
Scheduled == \A i \in Impls : slot[i] => handles[i] > 0 /\ (Queued(i) \/ tmr = i)

-----------------------------------------------------------------------------
(* Lemmas about the operators *)

\* A non-empty set of numbers has a least one.
LEMMA LeastNatural ==
    ASSUME NEW T, T \subseteq Nat, T # {}
    PROVE  \E x \in T : \A y \in T : x <= y
<1>1. PICK x \in T : \A y \in T : ~(<<y, x>> \in OpToRel(<, Nat))
  BY NatLessThanWellFounded, WFMin
<1>2. \A y \in T : ~(y < x) BY <1>1 DEF OpToRel
<1>3. \A y \in T : x <= y BY <1>2
<1> QED BY <1>3

\* A non-empty set of timers has one that expires first.
LEMMA FirstExpiry ==
    ASSUME TypeOK, NEW S \in SUBSET Impls, S # {}
    PROVE  \E m \in S : \A j \in S : expiry[m] <= expiry[j]
<1> DEFINE T == {expiry[j] : j \in S}
<1>1. T \subseteq Nat /\ T # {} BY DEF TypeOK
<1> HIDE DEF T
<1>2. PICK e \in T : \A f \in T : e <= f BY <1>1, LeastNatural
<1> QED BY <1>2 DEF T

\* A heap and its dead elements are finite.
LEMMA FiniteHeap ==
    ASSUME Shape, NEW q \in Queues
    PROVE  /\ IsFiniteSet(heap[q]) /\ Cardinality(heap[q]) \in Nat
           /\ IsFiniteSet(Dead(q)) /\ Cardinality(Dead(q)) \in Nat
<1>1. IsFiniteSet(heap[q]) BY DEF Shape
<1>2. Dead(q) \in SUBSET heap[q] BY DEF Dead
<1>3. IsFiniteSet(Dead(q)) BY <1>1, <1>2, FS_Subset
<1> QED BY <1>1, <1>3, FS_CardinalityType

\* An impl to which nothing refers is in no heap, and is not being notified.
LEMMA Unreferenced ==
    ASSUME TypeOK, Shape, Counts, NEW i \in Impls, ref_count[i] = 0
    PROVE  handles[i] = 0 /\ ~Queued(i) /\ tmr # i /\ \A q \in Queues : i \notin heap[q]
<1>1. handles[i] = 0 /\ HeapRef(i) = 0 /\ LocalRef(i) = 0
  <2>1. ref_count[i] = handles[i] + HeapRef(i) + LocalRef(i) BY DEF Counts
  <2>2. handles[i] \in Nat /\ HeapRef(i) \in Nat /\ LocalRef(i) \in Nat BY DEF TypeOK, HeapRef, LocalRef
  <2> QED BY <2>1, <2>2
<1>2. ~Queued(i) /\ tmr # i BY <1>1 DEF HeapRef, LocalRef
<1> QED BY <1>1, <1>2 DEF Shape, Queued

\* What alloc() takes from the pool is in use, and the pool keeps the rest.
LEMMA AllocTakes ==
    ASSUME TypeOK, Shape, Counts, NEW i \in Impls, PoolAlloc(i)
    PROVE  /\ free' \subseteq Impls /\ unused' \subseteq Slabs
           /\ ref_count[i] = 0
           /\ free' \cup UNION unused' = (free \cup UNION unused) \ {i}
           /\ free' \cap UNION unused' = {}
<1>1. CASE i \in free /\ free' = free \ {i} /\ unused' = unused
  <2>1. i \notin UNION unused BY <1>1 DEF Counts
  <2> QED BY <1>1, <2>1 DEF TypeOK, Counts
<1>2. CASE free = {} /\ \E s \in unused : i \in s /\ free' = s \ {i} /\ unused' = unused \ {s}
  <2>1. PICK s \in unused : i \in s /\ free' = s \ {i} /\ unused' = unused \ {s} BY <1>2
  <2>2. \A t \in unused' : s \cap t = {} BY <2>1, ConstantsAssumption DEF TypeOK
  <2>3. UNION unused' = (UNION unused) \ s BY <2>1, <2>2
  <2>4. s \subseteq UNION unused /\ s \subseteq Impls BY <2>1 DEF TypeOK, Impls
  <2> QED BY <1>2, <2>1, <2>3, <2>4 DEF TypeOK, Counts
<1> QED BY <1>1, <1>2 DEF PoolAlloc

\* A heap gives up its references to the impls in gone: those that were the last are freed.
LEMMA RemoveCounts ==
    ASSUME TypeOK, Shape, free \cap UNION unused = {},
           NEW q \in Queues, NEW gone \in SUBSET heap[q], NEW rc \in [Impls -> Nat],
           \A j \in Impls : rc[j] = handles'[j] + HeapRef(j) + LocalRef(j)',
           \A j \in Impls : (j \in free \cup UNION unused) <=> (rc[j] = 0),
           handles' \in [Impls -> Nat], tq' = tq, unused' = unused,
           Remove(q, gone, rc)
    PROVE  /\ ref_count' \in [Impls -> Nat] /\ free' \subseteq Impls
           /\ heap' \in [Queues -> SUBSET Impls]
           /\ heap'[q] = heap[q] \ gone
           /\ \A p \in Queues \ {q} : heap'[p] = heap[p]
           /\ \A j \in Impls : Queued(j)' <=> Queued(j) /\ j \notin gone
           /\ Counts'
<1> DEFINE after == [i \in Impls |-> IF i \in gone THEN rc[i] - 1 ELSE rc[i]]
<1>1. /\ heap' = [heap EXCEPT ![q] = heap[q] \ gone]
      /\ ref_count' = after
      /\ free' = free \cup {i \in gone : after[i] = 0}
  BY DEF Remove
<1>2. /\ heap' \in [Queues -> SUBSET Impls] /\ heap'[q] = heap[q] \ gone
      /\ \A p \in Queues \ {q} : heap'[p] = heap[p]
      /\ gone \subseteq Impls
  BY <1>1 DEF TypeOK
<1>3. \A j \in Impls : Queued(j)' <=> Queued(j) /\ j \notin gone
  BY <1>2 DEF Queued, Shape, TypeOK
<1>4. ASSUME NEW j \in Impls
      PROVE  /\ after[j] \in Nat
             /\ after[j] = handles'[j] + HeapRef(j)' + LocalRef(j)'
  <2>1. /\ rc[j] = handles'[j] + HeapRef(j) + LocalRef(j)'
        /\ handles'[j] \in Nat /\ HeapRef(j) \in Nat /\ LocalRef(j)' \in Nat
    BY DEF HeapRef, LocalRef
  <2>2. CASE j \in gone
    <3>1. Queued(j) BY <2>2 DEF Queued, Shape
    <3>2. HeapRef(j) = 1 /\ HeapRef(j)' = 0 BY <1>3, <2>2, <3>1 DEF HeapRef, LocalRef
    <3> QED BY <2>1, <2>2, <3>2
  <2>3. CASE j \notin gone
    <3>1. HeapRef(j)' = HeapRef(j) BY <1>3, <2>3 DEF HeapRef, LocalRef
    <3> QED BY <2>1, <2>3, <3>1
  <2> QED BY <2>2, <2>3
<1>5. ref_count' \in [Impls -> Nat] BY <1>1, <1>4
<1>6. ASSUME NEW j \in Impls PROVE (j \in free' \cup UNION unused) <=> (after[j] = 0)
  <2>1. CASE j \in gone
    <3>1. Queued(j) BY <2>1 DEF Queued, Shape
    <3>2. rc[j] # 0
      <4>1. /\ rc[j] = handles'[j] + HeapRef(j) + LocalRef(j)'
            /\ handles'[j] \in Nat /\ HeapRef(j) = 1 /\ LocalRef(j)' \in Nat
        BY <3>1 DEF HeapRef, LocalRef
      <4> QED BY <4>1
    <3> QED BY <1>1, <2>1, <3>2
  <2>2. CASE j \notin gone BY <1>1, <2>2
  <2> QED BY <2>1, <2>2
<1>7. free' \cap UNION unused = {}
  <2> SUFFICES ASSUME NEW j \in gone, after[j] = 0, j \in UNION unused PROVE FALSE
    BY <1>1
  <2>1. j \in Impls BY <1>2
  <2>2. rc[j] = 0 BY <2>1
  <2>3. after[j] = -1 BY <2>1, <2>2
  <2> QED BY <2>3
<1>8. Counts'
  <2>1. \A j \in Impls : ref_count'[j] = after[j] BY <1>1
  <2> HIDE DEF after
  <2>2. \A j \in Impls : ref_count'[j] = handles'[j] + HeapRef(j)' + LocalRef(j)'
    BY <1>4, <2>1
  <2> QED BY <1>6, <1>7, <2>1, <2>2 DEF Counts
<1> QED BY <1>1, <1>2, <1>3, <1>5, <1>8 DEF TypeOK

\* The same when nothing else changes.
LEMMA PopCounts ==
    ASSUME TypeOK, Shape, Counts, NEW q \in Queues, NEW gone \in SUBSET heap[q],
           Remove(q, gone, ref_count), UNCHANGED <<unused, tq, handles, tmr>>
    PROVE  /\ ref_count' \in [Impls -> Nat] /\ free' \subseteq Impls
           /\ heap' \in [Queues -> SUBSET Impls]
           /\ heap'[q] = heap[q] \ gone
           /\ \A p \in Queues \ {q} : heap'[p] = heap[p]
           /\ \A j \in Impls : Queued(j)' <=> Queued(j) /\ j \notin gone
           /\ Counts'
<1>1. PICK rc \in [Impls -> Nat] : rc = ref_count BY DEF TypeOK
<1>2. Remove(q, gone, rc) BY <1>1
<1>3. \A j \in Impls : LocalRef(j)' = LocalRef(j) BY DEF LocalRef
<1>4. \A j \in Impls : rc[j] = handles'[j] + HeapRef(j) + LocalRef(j)' BY <1>1, <1>3 DEF Counts
<1>5. \A j \in Impls : (j \in free \cup UNION unused) <=> (rc[j] = 0) BY <1>1 DEF Counts
<1>6. free \cap UNION unused = {} BY DEF Counts
<1>7. handles' \in [Impls -> Nat] BY DEF TypeOK
<1>8. tq' = tq /\ unused' = unused OBVIOUS
<1> QED BY <1>2, <1>4, <1>5, <1>6, <1>7, <1>8, RemoveCounts

\* A step that leaves a heap, its slots and its expiry times alone.
LEMMA GarbageSame ==
    ASSUME NEW q \in Queues, Garbage(q), heap'[q] = heap[q], cancelled'[q] = cancelled[q],
           \A i \in heap[q] : slot'[i] = slot[i] /\ expiry'[i] = expiry[i],
           phase' = "idle" \/ q # queue' => phase = "idle" \/ q # queue
    PROVE  Garbage(q)'
<1>1. Dead(q)' = Dead(q) BY DEF Dead, Live
<1>2. Fronts(heap[q])' = Fronts(heap[q]) BY DEF Fronts
<1>3. \A i \in Fronts(heap[q]) : slot'[i] = slot[i] BY DEF Fronts
<1> QED BY <1>1, <1>2, <1>3 DEF Garbage

\* Popping cancelled timers leaves a pending one in front, or nothing.
LEMMA PoppedLeavesPending ==
    ASSUME TypeOK, NEW h \in SUBSET Impls, NEW s \in [Impls -> BOOLEAN],
           NEW popped \in PoppedFromFront(h, s)
    PROVE  /\ popped \subseteq {j \in h : ~s[j]}
           /\ h \ popped # {} =>
                 \E m \in h \ popped : s[m] /\ \A j \in h \ popped : expiry[m] <= expiry[j]
<1> DEFINE dead == {j \in h : ~s[j]}
           live == h \ dead
           must == {j \in dead : \A l \in live : expiry[j] < expiry[l]}
           may == {j \in dead : \A l \in live : expiry[j] <= expiry[l]}
<1>1. PICK x \in SUBSET (may \ must) : popped = must \cup x BY DEF PoppedFromFront
<1>2. must \subseteq popped /\ popped \subseteq dead BY <1>1
<1>3. ASSUME h \ popped # {}
      PROVE  \E m \in h \ popped : s[m] /\ \A j \in h \ popped : expiry[m] <= expiry[j]
  <2>1. live # {} BY <1>2, <1>3
  <2>2. live \in SUBSET Impls OBVIOUS
  <2>3. PICK m \in live : \A j \in live : expiry[m] <= expiry[j]
    <3> HIDE DEF live
    <3> QED BY <2>1, <2>2, FirstExpiry
  <2>4. m \in h \ popped /\ s[m] BY <1>2
  <2>5. ASSUME NEW j \in h \ popped PROVE expiry[m] <= expiry[j]
    <3>1. CASE j \in live BY <2>3, <3>1
    <3>2. CASE j \in dead
      <4>1. j \notin must BY <1>2
      <4>2. PICK l \in live : ~(expiry[j] < expiry[l]) BY <3>2, <4>1
      <4>3. expiry[m] <= expiry[l] BY <2>3
      <4>4. expiry[m] \in Nat /\ expiry[l] \in Nat /\ expiry[j] \in Nat
        BY <2>2 DEF TypeOK
      <4> QED BY <4>2, <4>3, <4>4
    <3> QED BY <3>1, <3>2
  <2> QED BY <2>4, <2>5
<1> QED BY <1>2, <1>3

\* TimerQueue::cancel() keeps the garbage within its bounds: what it pops it no longer
\* counts, and it collects when more than half of the heap is cancelled.
LEMMA CancelGarbage ==
    ASSUME TypeOK, Shape, \A q \in Queues : Garbage(q),
           NEW i \in Impls, NEW rc, QueueCancel(i, rc),
           expiry' = expiry, phase' = phase, queue' = queue
    PROVE  /\ slot' = [slot EXCEPT ![i] = FALSE] /\ cancelled' \in [Queues -> Int]
           /\ \E gone \in SUBSET heap[tq[i]] : Remove(tq[i], gone, rc) /\ \A j \in gone : ~slot'[j]
           /\ \A q \in Queues : Garbage(q)'
<1>0. PICK q \in Queues : q = tq[i] BY DEF TypeOK
<1> DEFINE s == [slot EXCEPT ![i] = FALSE]
<1>1. q \in Queues /\ s \in [Impls -> BOOLEAN] /\ heap[q] \in SUBSET Impls /\ slot' = s
  BY <1>0 DEF TypeOK, QueueCancel
<1>2. PICK popped \in PoppedFromFront(heap[q], s) :
          LET h == heap[q] \ popped
              n == cancelled[q] + 1 - Cardinality(popped)
              gone == IF Collects(h, n) THEN popped \cup {j \in h : ~s[j]} ELSE popped
          IN  /\ slot' = s
              /\ cancelled' = [cancelled EXCEPT ![q] = IF Collects(h, n) THEN 0 ELSE n]
              /\ Remove(q, gone, rc)
  BY <1>0 DEF QueueCancel
<1> DEFINE h == heap[q] \ popped
           n == cancelled[q] + 1 - Cardinality(popped)
           dead == {j \in heap[q] : ~s[j]}
           rest == {j \in h : ~s[j]}
           gone == IF Collects(h, n) THEN popped \cup rest ELSE popped
<1>3. /\ cancelled' = [cancelled EXCEPT ![q] = IF Collects(h, n) THEN 0 ELSE n]
      /\ Remove(q, gone, rc)
  BY <1>2
<1>4. /\ popped \subseteq dead
      /\ h # {} => \E m \in h : s[m] /\ \A j \in h : expiry[m] <= expiry[j]
  <2> HIDE DEF s
  <2> QED BY <1>1, PoppedLeavesPending
<1>5. IsFiniteSet(heap[q]) /\ IsFiniteSet(Dead(q)) /\ Cardinality(Dead(q)) \in Nat
  BY <1>1, FiniteHeap
<1>6. /\ IsFiniteSet(dead) /\ IsFiniteSet(popped) /\ IsFiniteSet(rest) /\ IsFiniteSet(h)
      /\ Cardinality(dead) \in Nat /\ Cardinality(popped) \in Nat /\ Cardinality(rest) \in Nat
      /\ Cardinality(h) \in Nat
  <2>1. dead \in SUBSET heap[q] /\ popped \in SUBSET heap[q] /\ rest \in SUBSET heap[q]
        /\ h \in SUBSET heap[q]
    BY <1>4
  <2> HIDE DEF dead, rest, h
  <2> QED BY <1>5, <2>1, FS_Subset, FS_CardinalityType
<1>7. Cardinality(dead) <= Cardinality(Dead(q)) + 1
  <2>1. /\ IsFiniteSet(Dead(q) \cup {i})
        /\ Cardinality(Dead(q) \cup {i}) <= Cardinality(Dead(q)) + 1
        /\ Cardinality(Dead(q) \cup {i}) \in Nat
    <3>1. /\ IsFiniteSet(Dead(q) \cup {i})
          /\ Cardinality(Dead(q) \cup {i}) = Cardinality(Dead(q)) \/ Cardinality(Dead(q) \cup {i}) = Cardinality(Dead(q)) + 1
      BY <1>5, FS_AddElement
    <3> QED BY <1>5, <3>1
  <2>2. dead \in SUBSET (Dead(q) \cup {i}) BY <1>1 DEF Dead, Live, TypeOK
  <2>3. Cardinality(dead) <= Cardinality(Dead(q) \cup {i})
    <3> HIDE DEF dead
    <3> QED BY <2>1, <2>2, FS_Subset
  <2> QED BY <1>5, <1>6, <2>1, <2>3
<1>8. Cardinality(rest) = Cardinality(dead) - Cardinality(popped)
  <2>1. rest = dead \ popped /\ dead \cap popped = popped BY <1>4
  <2>2. Cardinality(dead \ popped) = Cardinality(dead) - Cardinality(dead \cap popped)
    <3> HIDE DEF dead
    <3> QED BY <1>6, FS_Difference
  <2> QED BY <2>1, <2>2
<1>9. cancelled[q] \in Int /\ cancelled[q] >= Cardinality(Dead(q))
  BY <1>1 DEF TypeOK, Garbage
<1>10. n \in Int /\ n >= Cardinality(rest)
  <2> HIDE DEF rest, dead
  <2> QED BY <1>5, <1>6, <1>7, <1>8, <1>9
<1>11. cancelled' \in [Queues -> Int] /\ cancelled'[q] = IF Collects(h, n) THEN 0 ELSE n
  <2> HIDE DEF n, h
  <2> QED BY <1>1, <1>3, <1>10 DEF TypeOK
<1>12. gone \in SUBSET heap[q] /\ \A j \in gone : ~slot'[j] BY <1>1, <1>4
<1>13. heap'[q] = heap[q] \ gone /\ \A p \in Queues \ {q} : heap'[p] = heap[p]
  <2>1. heap' = [heap EXCEPT ![q] = heap[q] \ gone] BY <1>3 DEF Remove
  <2> QED BY <1>1, <2>1 DEF TypeOK
<1>14. Garbage(q)'
  <2>0. queue' = queue /\ q \in Queues BY <1>1
  <2>1. CASE Collects(h, n)
    <3>1. heap'[q] = {j \in heap[q] : s[j]} BY <1>4, <1>13, <2>1
    <3>2. Dead(q)' = {} BY <1>1, <3>1 DEF Dead, Live
    <3>3. cancelled'[q] = 0 BY <1>11, <2>1
    <3>4. Cardinality(Dead(q)') = 0 BY <3>2, FS_EmptySet
    <3>5. Cardinality(heap'[q]) \in Nat
      <4>1. heap'[q] \in SUBSET heap[q] BY <3>1
      <4> QED BY <1>5, <4>1, FS_Subset, FS_CardinalityType
    <3>6. 0 <= Cardinality(heap'[q]) \div 2 BY <3>5
    <3>7. ASSUME heap'[q] # {} PROVE \E m \in heap'[q] : slot'[m] /\ \A j \in heap'[q] : expiry[m] <= expiry[j]
      <4>1. heap'[q] \in SUBSET Impls BY <1>1, <3>1
      <4>2. PICK m \in heap'[q] : \A j \in heap'[q] : expiry[m] <= expiry[j]
        BY <3>7, <4>1, FirstExpiry
      <4> QED BY <1>1, <3>1, <4>2
    <3> QED BY <3>3, <3>4, <3>6, <3>7 DEF Garbage, Fronts
  <2>2. CASE ~Collects(h, n)
    <3>1. heap'[q] = h /\ cancelled'[q] = n
      <4>1. heap[q] \ gone = h BY <2>2
      <4> QED BY <1>11, <1>13, <2>2, <4>1
    <3>2. Dead(q)' = rest BY <1>1, <3>1 DEF Dead, Live
    <3>3. n <= Cardinality(h) \div 2
      <4> HIDE DEF n, h
      <4> QED BY <1>6, <1>10, <2>2 DEF Collects
    <3>4. h # {} => \E m \in h : slot'[m] /\ \A j \in h : expiry[m] <= expiry[j] BY <1>1, <1>4
    <3> HIDE DEF n, h, rest, s
    <3> QED BY <1>10, <3>1, <3>2, <3>3, <3>4 DEF Garbage, Fronts
  <2> QED BY <2>1, <2>2
<1>15. ASSUME NEW p \in Queues \ {q} PROVE Garbage(p)'
  <2>1. i \notin heap[p] BY <1>0 DEF Shape
  <2>2. cancelled'[p] = cancelled[p] /\ heap'[p] = heap[p] BY <1>3, <1>13 DEF TypeOK
  <2>3. \A j \in heap[p] : slot'[j] = slot[j] /\ expiry'[j] = expiry[j]
    BY <1>1, <2>1 DEF TypeOK
  <2>4. Garbage(p) /\ p \in Queues OBVIOUS
  <2> QED BY <2>2, <2>3, <2>4, GarbageSame
<1> QED BY <1>0, <1>1, <1>3, <1>11, <1>12, <1>14, <1>15

-----------------------------------------------------------------------------
(* Every step preserves the invariant *)

\* Nothing is allocated initially.
LEMMA InvInit == Init => Inv
<1> SUFFICES ASSUME Init PROVE Inv OBVIOUS
<1>1. PICK q \in Queues : tq = [i \in Impls |-> q] /\ queue = q
  <2> DEFINE first == CHOOSE q \in Queues : TRUE
  <2>1. first \in Queues BY ConstantsAssumption
  <2>2. tq = [i \in Impls |-> first] /\ queue = first BY DEF Init
  <2> HIDE DEF first
  <2> QED BY <2>1, <2>2
<1>2. TypeOK BY <1>1 DEF Init, TypeOK
<1>3. \A i \in Impls : ~Queued(i) /\ tmr # i BY <1>1, ConstantsAssumption DEF Init, Queued
<1>4. Shape BY FS_EmptySet DEF Init, Shape
<1>5. Counts
  <2>1. UNION unused = Impls BY DEF Init, Impls
  <2>2. \A i \in Impls : HeapRef(i) = 0 /\ LocalRef(i) = 0 BY <1>3 DEF HeapRef, LocalRef
  <2> QED BY <2>1, <2>2 DEF Init, Counts
<1>6. ASSUME NEW p \in Queues PROVE Garbage(p)
  <2>1. heap[p] = {} /\ cancelled[p] = 0 /\ Dead(p) = {} BY DEF Init, Dead
  <2> QED BY <2>1, FS_EmptySet DEF Garbage
<1>7. Fired BY DEF Init, Fired
<1> QED BY <1>2, <1>4, <1>5, <1>6, <1>7 DEF Inv

\* TimerQueue::cancel(), with the reference counts that are right without what the caller
\* has given up.
LEMMA CancelPreserves ==
    ASSUME Inv, NEW i \in Impls, NEW rc \in [Impls -> Nat], QueueCancel(i, rc),
           \A j \in Impls : rc[j] = handles'[j] + HeapRef(j) + LocalRef(j)',
           \A j \in Impls : (j \in free \cup UNION unused) <=> (rc[j] = 0),
           handles' \in [Impls -> Nat], tmr' \in {tmr, None},
           UNCHANGED <<now, unused, tq, expiry, interval, phase, queue, fired>>
    PROVE  Inv'
<1>0. TypeOK /\ Shape /\ Counts /\ Fired /\ \A q \in Queues : Garbage(q) BY DEF Inv
<1>1. /\ slot' = [slot EXCEPT ![i] = FALSE] /\ cancelled' \in [Queues -> Int]
      /\ \E gone \in SUBSET heap[tq[i]] : Remove(tq[i], gone, rc) /\ \A j \in gone : ~slot'[j]
      /\ \A q \in Queues : Garbage(q)'
  BY <1>0, CancelGarbage
<1>2. PICK q \in Queues : q = tq[i] BY <1>0 DEF TypeOK
<1>3. PICK gone \in SUBSET heap[q] : Remove(q, gone, rc) BY <1>1, <1>2
<1>4. /\ ref_count' \in [Impls -> Nat] /\ free' \subseteq Impls
      /\ heap' \in [Queues -> SUBSET Impls]
      /\ heap'[q] = heap[q] \ gone
      /\ \A p \in Queues \ {q} : heap'[p] = heap[p]
      /\ \A j \in Impls : Queued(j)' <=> Queued(j) /\ j \notin gone
      /\ Counts'
  <2>1. free \cap UNION unused = {} BY <1>0 DEF Counts
  <2>2. tq' = tq /\ unused' = unused OBVIOUS
  <2> QED BY <1>0, <1>3, <2>1, <2>2, RemoveCounts
<1>5. TypeOK'
  <2>1. slot' \in [Impls -> BOOLEAN] BY <1>0, <1>1 DEF TypeOK
  <2>2. tmr' \in Impls \cup {None} BY <1>0 DEF TypeOK
  <2> QED BY <1>0, <1>1, <1>4, <2>1, <2>2 DEF TypeOK
<1>6. Shape'
  <2>1. \A p \in Queues : heap'[p] \in SUBSET heap[p] BY <1>4
  <2>2. ASSUME NEW p \in Queues PROVE IsFiniteSet(heap'[p]) /\ \A j \in heap'[p] : tq'[j] = p
    BY <1>0, <2>1, FS_Subset DEF Shape
  <2>3. tmr' # None => phase' = "callback" /\ tq'[tmr'] = queue' /\ ~Queued(tmr')
    BY <1>0 DEF Shape
  <2>4. tmr' # None => ~Queued(tmr)'
    BY <1>0, <1>4, <2>3 DEF TypeOK
  <2> QED BY <2>2, <2>3, <2>4 DEF Shape, Queued
<1>7. Fired' BY <1>0, <1>4, <1>5 DEF Fired, TypeOK
<1> QED BY <1>1, <1>4, <1>5, <1>6, <1>7 DEF Inv

\* intrusive_ptr_release() of a reference that the caller has given up.
LEMMA ReleasePreserves ==
    ASSUME Inv, NEW i \in Impls, Release(i), ref_count[i] > 0,
           \A j \in Impls : [ref_count EXCEPT ![i] = ref_count[i] - 1][j]
                               = handles'[j] + HeapRef(j) + LocalRef(j)',
           handles' \in [Impls -> Nat], tmr' \in {tmr, None},
           UNCHANGED <<now, unused, tq, expiry, interval, phase, queue, fired>>
    PROVE  Inv'
<1>0. TypeOK /\ Shape /\ Counts /\ Fired /\ \A q \in Queues : Garbage(q) BY DEF Inv
<1> DEFINE rc == [ref_count EXCEPT ![i] = ref_count[i] - 1]
<1>1. rc \in [Impls -> Nat] /\ rc[i] = ref_count[i] - 1 /\ \A j \in Impls \ {i} : rc[j] = ref_count[j]
  BY <1>0 DEF TypeOK
<1>2. i \notin free \cup UNION unused BY <1>0 DEF Counts
<1>3. CASE rc[i] = 1 /\ slot[i]
  <2>1. QueueCancel(i, rc) BY <1>3 DEF Release
  <2>2. \A j \in Impls : (j \in free \cup UNION unused) <=> (rc[j] = 0)
    BY <1>0, <1>1, <1>2, <1>3 DEF Counts
  <2>3. \A j \in Impls : rc[j] = handles'[j] + HeapRef(j) + LocalRef(j)' OBVIOUS
  <2> HIDE DEF rc
  <2> QED BY <1>1, <2>1, <2>2, <2>3, CancelPreserves
<1>4. CASE ~(rc[i] = 1 /\ slot[i])
  <2>1. /\ ref_count' = rc
        /\ free' = IF rc[i] = 0 THEN free \cup {i} ELSE free
        /\ UNCHANGED <<slot, heap, cancelled>>
    BY <1>4 DEF Release
  <2>2. TypeOK' BY <1>0, <1>1, <2>1 DEF TypeOK
  <2>3. \A j \in Impls : Queued(j)' <=> Queued(j) BY <2>1 DEF Queued
  <2>4. Shape' BY <1>0, <2>1 DEF Shape, Queued
  <2>5. Counts'
    <3>1. \A j \in Impls : ref_count'[j] = handles'[j] + HeapRef(j)' + LocalRef(j)'
      BY <2>1, <2>3 DEF HeapRef, LocalRef
    <3>2. ASSUME NEW j \in Impls PROVE (j \in free' \cup UNION unused) <=> (rc[j] = 0)
      <4>1. CASE j = i BY <1>1, <1>2, <2>1, <4>1
      <4>2. CASE j # i BY <1>0, <1>1, <2>1, <4>2 DEF Counts
      <4> QED BY <4>1, <4>2
    <3>3. free' \cap UNION unused = {} BY <1>0, <1>2, <2>1 DEF Counts
    <3> HIDE DEF rc
    <3> QED BY <2>1, <3>1, <3>2, <3>3 DEF Counts
  <2>6. ASSUME NEW q \in Queues PROVE Garbage(q)' BY <1>0, <2>1, GarbageSame
  <2>7. Fired' BY <1>0, <2>1 DEF Fired, Queued
  <2> QED BY <2>2, <2>4, <2>5, <2>6, <2>7 DEF Inv
<1> QED BY <1>3, <1>4

\* A timer is inserted: it is pending, and it may be the new front.
LEMMA InvInsert ==
    ASSUME Inv, NEW i \in Impls, NEW q \in Queues, NEW e \in Nat, NEW d \in Nat, insert(q, i, e, d)
    PROVE  Inv'
<1>0. TypeOK /\ Shape /\ Counts /\ Fired /\ \A p \in Queues : Garbage(p) BY DEF Inv
<1>1. /\ PoolAlloc(i)
      /\ tq' = [tq EXCEPT ![i] = q] /\ ref_count' = [ref_count EXCEPT ![i] = 2]
      /\ expiry' = [expiry EXCEPT ![i] = e] /\ interval' = [interval EXCEPT ![i] = d]
      /\ slot' = [slot EXCEPT ![i] = TRUE] /\ heap' = [heap EXCEPT ![q] = heap[q] \cup {i}]
      /\ handles' = [handles EXCEPT ![i] = 1] /\ fired' = fired \ {i}
      /\ UNCHANGED <<now, cancelled, phase, queue, tmr>>
  BY DEF insert
<1>2. /\ free' \subseteq Impls /\ unused' \subseteq Slabs /\ ref_count[i] = 0
      /\ free' \cup UNION unused' = (free \cup UNION unused) \ {i}
      /\ free' \cap UNION unused' = {}
  BY <1>0, <1>1, AllocTakes
<1>3. handles[i] = 0 /\ ~Queued(i) /\ tmr # i /\ \A p \in Queues : i \notin heap[p]
  BY <1>0, <1>2, Unreferenced
<1>4. /\ heap' \in [Queues -> SUBSET Impls] /\ heap'[q] = heap[q] \cup {i}
      /\ \A p \in Queues \ {q} : heap'[p] = heap[p]
      /\ \A j \in Impls \ {i} : tq'[j] = tq[j] /\ expiry'[j] = expiry[j] /\ slot'[j] = slot[j]
      /\ tq'[i] = q /\ expiry'[i] = e /\ slot'[i] = TRUE
  BY <1>0, <1>1 DEF TypeOK
<1>5. TypeOK' BY <1>0, <1>1, <1>2, <1>4 DEF TypeOK
<1>6. Queued(i)' /\ \A j \in Impls \ {i} : Queued(j)' <=> Queued(j)
  BY <1>0, <1>4 DEF Queued, TypeOK
<1>7. Shape'
  <2>1. ASSUME NEW p \in Queues PROVE IsFiniteSet(heap'[p]) /\ \A j \in heap'[p] : tq'[j] = p
    <3>1. IsFiniteSet(heap[p]) /\ heap[p] \subseteq Impls /\ \A j \in heap[p] : tq[j] = p
      BY <1>0 DEF Shape, TypeOK
    <3>2. CASE p = q BY <1>3, <1>4, <3>1, <3>2, FS_AddElement
    <3>3. CASE p # q BY <1>3, <1>4, <3>1, <3>3
    <3> QED BY <3>2, <3>3
  <2>2. tmr' # None => phase' = "callback" /\ tq'[tmr'] = queue' /\ ~Queued(tmr)'
    BY <1>0, <1>1, <1>3, <1>4, <1>6 DEF Shape, TypeOK
  <2> QED BY <2>1, <2>2 DEF Shape
<1>8. Counts'
  <2>1. ASSUME NEW j \in Impls PROVE ref_count'[j] = handles'[j] + HeapRef(j)' + LocalRef(j)'
    <3>1. CASE j = i
      <4>1. ref_count'[j] = 2 /\ handles'[j] = 1 /\ HeapRef(j)' = 1 /\ LocalRef(j)' = 0
        BY <1>0, <1>1, <1>3, <1>6, <3>1 DEF TypeOK, HeapRef, LocalRef
      <4> QED BY <4>1
    <3>2. CASE j # i
      <4>1. /\ ref_count'[j] = ref_count[j] /\ handles'[j] = handles[j]
            /\ HeapRef(j)' = HeapRef(j) /\ LocalRef(j)' = LocalRef(j)
        BY <1>0, <1>1, <1>6, <3>2 DEF TypeOK, HeapRef, LocalRef
      <4> QED BY <1>0, <4>1 DEF Counts
    <3> QED BY <3>1, <3>2
  <2>2. ASSUME NEW j \in Impls PROVE (j \in free' \cup UNION unused') <=> (ref_count'[j] = 0)
    <3>1. CASE j = i
      <4>1. ref_count'[j] = 2 BY <1>0, <1>1, <3>1 DEF TypeOK
      <4>2. j \notin free' \cup UNION unused' BY <1>2, <3>1
      <4> QED BY <4>1, <4>2
    <3>2. CASE j # i
      <4>1. ref_count'[j] = ref_count[j] BY <1>0, <1>1, <3>2 DEF TypeOK
      <4> QED BY <1>0, <1>2, <3>2, <4>1 DEF Counts
    <3> QED BY <3>1, <3>2
  <2> QED BY <1>2, <2>1, <2>2 DEF Counts
<1>9. ASSUME NEW p \in Queues PROVE Garbage(p)'
  <2>1. CASE p # q
    <3>1. \A j \in heap[p] : slot'[j] = slot[j] /\ expiry'[j] = expiry[j]
      BY <1>0, <1>3, <1>4 DEF TypeOK
    <3>2. heap'[p] = heap[p] /\ cancelled'[p] = cancelled[p] /\ phase' = phase /\ queue' = queue
      BY <1>1, <1>4, <2>1
    <3> QED BY <1>0, <3>1, <3>2, GarbageSame
  <2>2. CASE p = q
    <3>1. \A j \in heap[q] : slot'[j] = slot[j] /\ expiry'[j] = expiry[j] /\ j # i
      BY <1>0, <1>3, <1>4 DEF TypeOK
    <3>2. Dead(q)' = Dead(q) BY <1>4, <3>1 DEF Dead, Live
    <3>3. cancelled'[q] >= Cardinality(Dead(q)') BY <1>0, <1>1, <3>2 DEF Garbage
    <3>4. ASSUME phase = "idle" \/ q # queue
          PROVE  /\ cancelled'[q] <= Cardinality(heap'[q]) \div 2
                 /\ \E m \in Fronts(heap[q])' : slot'[m]
      <4>1. Cardinality(heap[q]) \in Nat /\ Cardinality(heap'[q]) = Cardinality(heap[q]) + 1
        BY <1>0, <1>3, <1>4, FiniteHeap, FS_AddElement
      <4>2. cancelled[q] \in Int /\ cancelled[q] <= Cardinality(heap[q]) \div 2
        BY <1>0, <3>4 DEF Garbage, TypeOK
      <4>3. cancelled'[q] <= Cardinality(heap'[q]) \div 2 BY <1>1, <4>1, <4>2
      <4>4. heap'[q] \in SUBSET Impls /\ heap'[q] # {} /\ heap[q] \in SUBSET Impls
        BY <1>0, <1>4 DEF TypeOK
      <4>5. CASE \A j \in heap[q] : e <= expiry[j]
        <5>1. i \in Fronts(heap[q])' BY <1>4, <3>1, <4>5 DEF Fronts
        <5> QED BY <1>4, <4>3, <5>1
      <4>6. CASE \E j \in heap[q] : ~(e <= expiry[j])
        <5>1. PICK j \in heap[q] : ~(e <= expiry[j]) BY <4>6
        <5>2. PICK m \in Fronts(heap[q]) : slot[m] BY <1>0, <3>4, <5>1 DEF Garbage
        <5>3. m \in heap[q] /\ \A k \in heap[q] : expiry[m] <= expiry[k] BY <5>2 DEF Fronts
        <5>4. expiry[m] \in Nat /\ expiry[j] \in Nat BY <1>0, <4>4, <5>1, <5>3 DEF TypeOK
        <5>5. expiry[m] <= e BY <5>1, <5>3, <5>4
        <5>6. m \in Fronts(heap[q])' BY <1>4, <3>1, <5>3, <5>5 DEF Fronts
        <5> QED BY <3>1, <4>3, <5>2, <5>3, <5>6
      <4> QED BY <4>5, <4>6
    <3> QED BY <1>1, <2>2, <3>3, <3>4 DEF Garbage
  <2> QED BY <2>1, <2>2
<1>10. Fired' BY <1>0, <1>1, <1>4, <1>6 DEF Fired, TypeOK
<1> QED BY <1>5, <1>7, <1>8, <1>9, <1>10 DEF Inv

\* Timer::cancel()
LEMMA InvCancel ==
    ASSUME Inv, NEW i \in Impls, cancel(i)
    PROVE  Inv'
<1>0. TypeOK /\ Counts BY DEF Inv
<1>1. UNCHANGED <<now, unused, tq, expiry, interval, handles, phase, queue, tmr, fired>>
  BY DEF cancel, fields
<1>2. CASE slot[i] /\ QueueCancel(i, ref_count)
  <2>1. PICK rc \in [Impls -> Nat] : rc = ref_count BY <1>0 DEF TypeOK
  <2>2. \A j \in Impls : LocalRef(j)' = LocalRef(j) /\ handles'[j] = handles[j] BY <1>1 DEF LocalRef
  <2>3. /\ \A j \in Impls : rc[j] = handles'[j] + HeapRef(j) + LocalRef(j)'
        /\ \A j \in Impls : (j \in free \cup UNION unused) <=> (rc[j] = 0)
    BY <1>0, <2>1, <2>2 DEF Counts
  <2>4. handles' \in [Impls -> Nat] BY <1>0, <1>1 DEF TypeOK
  <2>5. QueueCancel(i, rc) /\ tmr' \in {tmr, None} BY <1>1, <1>2, <2>1
  <2> QED BY <1>1, <2>3, <2>4, <2>5, CancelPreserves
<1>3. CASE UNCHANGED <<slot, cancelled, heap, ref_count, free>>
  <2>1. \A q \in Queues : Garbage(q)' BY <1>1, <1>3, GarbageSame DEF Inv
  <2>2. TypeOK' /\ Shape' /\ Fired' BY <1>1, <1>3 DEF Inv, TypeOK, Shape, Fired, Queued
  <2>3. Counts' BY <1>1, <1>3 DEF Inv, Counts, HeapRef, LocalRef, Queued
  <2> QED BY <2>1, <2>2, <2>3 DEF Inv
<1> QED BY <1>2, <1>3 DEF cancel

\* A handle is dropped.
LEMMA InvDropHandle ==
    ASSUME Inv, NEW i \in Impls, DropHandle(i)
    PROVE  Inv'
<1>0. TypeOK /\ Counts BY DEF Inv
<1>1. /\ UNCHANGED <<now, unused, tq, expiry, interval, phase, queue, tmr, fired>>
      /\ handles' = [handles EXCEPT ![i] = handles[i] - 1] /\ handles[i] > 0 /\ Release(i)
  BY DEF DropHandle, fields
<1>2. handles' \in [Impls -> Nat] /\ handles'[i] = handles[i] - 1 /\ handles[i] \in Nat
  BY <1>0, <1>1 DEF TypeOK
<1>3. ASSUME NEW j \in Impls
      PROVE  /\ HeapRef(j) \in Nat /\ LocalRef(j) \in Nat /\ LocalRef(j)' = LocalRef(j)
             /\ ref_count[j] = handles[j] + HeapRef(j) + LocalRef(j)
  BY <1>0, <1>1 DEF Counts, HeapRef, LocalRef
<1>4. ref_count[i] > 0 BY <1>1, <1>2, <1>3
<1>5. ASSUME NEW j \in Impls
      PROVE  [ref_count EXCEPT ![i] = ref_count[i] - 1][j] = handles'[j] + HeapRef(j) + LocalRef(j)'
  <2>1. CASE j = i
    <3>1. [ref_count EXCEPT ![i] = ref_count[i] - 1][j] = ref_count[i] - 1 BY <1>0, <2>1 DEF TypeOK
    <3> QED BY <1>2, <1>3, <2>1, <3>1
  <2>2. CASE j # i
    <3>1. [ref_count EXCEPT ![i] = ref_count[i] - 1][j] = ref_count[j] /\ handles'[j] = handles[j]
      BY <1>0, <1>1, <2>2 DEF TypeOK
    <3> QED BY <1>3, <3>1
  <2> QED BY <2>1, <2>2
<1> QED BY <1>1, <1>2, <1>4, <1>5, ReleasePreserves

\* The callback's argument is reset.
LEMMA InvResetArgument ==
    ASSUME Inv, ResetArgument
    PROVE  Inv'
<1>0. TypeOK /\ Counts BY DEF Inv
<1>1. /\ UNCHANGED <<now, unused, tq, expiry, interval, handles, phase, queue, fired>>
      /\ tmr # None /\ tmr' = None /\ Release(tmr)
  BY DEF ResetArgument, fields
<1>2. PICK i \in Impls : i = tmr BY <1>0, <1>1 DEF TypeOK
<1>3. handles' \in [Impls -> Nat] BY <1>0, <1>1 DEF TypeOK
<1>4. ASSUME NEW j \in Impls
      PROVE  /\ HeapRef(j) \in Nat /\ LocalRef(j) = (IF j = i THEN 1 ELSE 0) /\ LocalRef(j)' = 0
             /\ ref_count[j] = handles[j] + HeapRef(j) + LocalRef(j) /\ handles'[j] = handles[j]
             /\ handles[j] \in Nat
  BY <1>0, <1>1, <1>2, ConstantsAssumption DEF Counts, HeapRef, LocalRef, TypeOK
<1>5. ref_count[i] > 0 BY <1>4
<1>6. ASSUME NEW j \in Impls
      PROVE  [ref_count EXCEPT ![i] = ref_count[i] - 1][j] = handles'[j] + HeapRef(j) + LocalRef(j)'
  <2>1. CASE j = i
    <3>1. [ref_count EXCEPT ![i] = ref_count[i] - 1][j] = ref_count[i] - 1 BY <1>0, <2>1 DEF TypeOK
    <3> QED BY <1>4, <2>1, <3>1
  <2>2. CASE j # i
    <3>1. [ref_count EXCEPT ![i] = ref_count[i] - 1][j] = ref_count[j] BY <1>0, <2>2 DEF TypeOK
    <3> QED BY <1>4, <2>2, <3>1
  <2> QED BY <2>1, <2>2
<1> QED BY <1>1, <1>2, <1>3, <1>5, <1>6, ReleasePreserves

\* A handle is copied.
LEMMA InvCopyHandle ==
    ASSUME Inv, NEW i \in Impls, CopyHandle(i)
    PROVE  Inv'
<1>0. TypeOK /\ Shape /\ Counts /\ Fired /\ \A q \in Queues : Garbage(q) BY DEF Inv
<1>1. /\ UNCHANGED <<now, unused, free, tq, expiry, interval, slot, heap, cancelled, phase, queue, tmr,
                     fired>>
      /\ handles' = [handles EXCEPT ![i] = handles[i] + 1]
      /\ ref_count' = [ref_count EXCEPT ![i] = ref_count[i] + 1]
      /\ handles[i] > 0 \/ tmr = i
  BY DEF CopyHandle, fields
<1>2. TypeOK' /\ Shape' /\ Fired' BY <1>0, <1>1 DEF TypeOK, Shape, Fired, Queued
<1>3. \A q \in Queues : Garbage(q)' BY <1>0, <1>1, GarbageSame
<1>4. ASSUME NEW j \in Impls
      PROVE  /\ HeapRef(j)' = HeapRef(j) /\ LocalRef(j)' = LocalRef(j)
             /\ HeapRef(j) \in Nat /\ LocalRef(j) \in Nat /\ (tmr = j => LocalRef(j) = 1)
             /\ ref_count[j] = handles[j] + HeapRef(j) + LocalRef(j) /\ handles[j] \in Nat
             /\ (j \in free \cup UNION unused) <=> (ref_count[j] = 0)
  BY <1>0, <1>1 DEF HeapRef, LocalRef, Queued, Counts, TypeOK
<1>5. ref_count[i] \in Nat /\ ref_count[i] # 0 BY <1>1, <1>4
<1>6. /\ ref_count'[i] = ref_count[i] + 1 /\ handles'[i] = handles[i] + 1
      /\ \A j \in Impls \ {i} : ref_count'[j] = ref_count[j] /\ handles'[j] = handles[j]
  BY <1>0, <1>1 DEF TypeOK
<1>7. Counts'
  <2>1. \A j \in Impls : ref_count'[j] = handles'[j] + HeapRef(j)' + LocalRef(j)' BY <1>4, <1>6
  <2>2. \A j \in Impls : (j \in free \cup UNION unused) <=> (ref_count'[j] = 0) BY <1>4, <1>5, <1>6
  <2> QED BY <1>0, <1>1, <2>1, <2>2 DEF Counts
<1> QED BY <1>2, <1>3, <1>7 DEF Inv

\* Steps that change no heap and no reference: set_interval(), the beginning of dispatch(),
\* and the clock.
LEMMA InvQuiet ==
    ASSUME Inv, UNCHANGED <<unused, free, tq, expiry, slot, ref_count, heap, cancelled, handles, tmr>>,
           \/ UNCHANGED <<now, phase, queue, fired>> /\ interval' \in [Impls -> Nat]
           \/ /\ phase = "idle" /\ phase' = "loop" /\ queue' \in Queues /\ fired' = {}
              /\ UNCHANGED <<now, interval>>
           \/ phase = "idle" /\ now' \in Nat /\ UNCHANGED <<interval, phase, queue, fired>>
    PROVE  Inv'
<1>0. TypeOK /\ Shape /\ Counts /\ Fired /\ \A q \in Queues : Garbage(q) BY DEF Inv
<1>1. TypeOK' BY <1>0 DEF TypeOK
<1>2. Shape' BY <1>0 DEF Shape, Queued
<1>3. Counts' BY <1>0 DEF Counts, HeapRef, LocalRef, Queued
<1>4. \A q \in Queues : Garbage(q)' BY <1>0, GarbageSame
<1>5. Fired' BY <1>0 DEF Fired, Queued
<1> QED BY <1>1, <1>2, <1>3, <1>4, <1>5 DEF Inv

\* dispatch() pops a cancelled timer.
LEMMA InvDispatchPop ==
    ASSUME Inv, DispatchPop
    PROVE  Inv'
<1>0. TypeOK /\ Shape /\ Counts /\ Fired /\ \A p \in Queues : Garbage(p) BY DEF Inv
<1>1. PICK q \in Queues : q = queue BY <1>0 DEF TypeOK
<1>2. PICK i \in heap[q] : ~slot[i] /\ Remove(q, {i}, ref_count) BY <1>1 DEF DispatchPop, Fronts
<1>3. /\ phase = "loop" /\ cancelled' = [cancelled EXCEPT ![q] = cancelled[q] - 1]
      /\ UNCHANGED <<now, unused, tq, expiry, interval, slot, handles, phase, queue, tmr, fired>>
  BY <1>1 DEF DispatchPop, fields
<1>4. /\ ref_count' \in [Impls -> Nat] /\ free' \subseteq Impls
      /\ heap' \in [Queues -> SUBSET Impls]
      /\ heap'[q] = heap[q] \ {i}
      /\ \A p \in Queues \ {q} : heap'[p] = heap[p]
      /\ \A j \in Impls : Queued(j)' <=> Queued(j) /\ j # i
      /\ Counts'
  <2>1. TypeOK /\ Shape /\ Counts BY <1>0
  <2>2. PICK gone \in SUBSET heap[q] : gone = {i} BY <1>2
  <2>3. Remove(q, gone, ref_count) BY <1>2, <2>2
  <2>4. UNCHANGED <<unused, tq, handles, tmr>> BY <1>3
  <2>5. /\ ref_count' \in [Impls -> Nat] /\ free' \subseteq Impls
        /\ heap' \in [Queues -> SUBSET Impls]
        /\ heap'[q] = heap[q] \ gone
        /\ \A p \in Queues \ {q} : heap'[p] = heap[p]
        /\ \A j \in Impls : Queued(j)' <=> Queued(j) /\ j \notin gone
        /\ Counts'
    BY <2>1, <2>3, <2>4, PopCounts
  <2> QED BY <2>2, <2>5
<1>5. TypeOK'
  <2>1. cancelled' \in [Queues -> Int] BY <1>0, <1>3 DEF TypeOK
  <2> QED BY <1>0, <1>3, <1>4, <2>1 DEF TypeOK
<1>6. Shape'
  <2>1. \A p \in Queues : heap'[p] \in SUBSET heap[p] BY <1>4
  <2>2. ASSUME NEW p \in Queues PROVE IsFiniteSet(heap'[p]) /\ \A j \in heap'[p] : tq'[j] = p
    <3>1. IsFiniteSet(heap[p]) /\ \A j \in heap[p] : tq[j] = p BY <1>0 DEF Shape
    <3>2. heap'[p] \in SUBSET heap[p] /\ tq' = tq BY <1>3, <2>1
    <3> QED BY <3>1, <3>2, FS_Subset
  <2>3. tmr = None BY <1>0, <1>3 DEF Shape
  <2> QED BY <1>3, <2>2, <2>3 DEF Shape
<1>7. ASSUME NEW p \in Queues PROVE Garbage(p)'
  <2>1. CASE p # q
    <3>1. cancelled'[p] = cancelled[p] /\ heap'[p] = heap[p] BY <1>0, <1>3, <1>4, <2>1 DEF TypeOK
    <3> QED BY <1>0, <1>3, <3>1, GarbageSame
  <2>2. CASE p = q
    <3>1. Dead(q)' = Dead(q) \ {i} /\ i \in Dead(q) BY <1>2, <1>3, <1>4 DEF Dead, Live
    <3>2. IsFiniteSet(Dead(q)) /\ Cardinality(Dead(q)) \in Nat BY <1>0, FiniteHeap
    <3>3. Cardinality(Dead(q)') = Cardinality(Dead(q)) - 1 BY <3>1, <3>2, FS_RemoveElement
    <3>4. cancelled'[q] = cancelled[q] - 1 /\ cancelled[q] \in Int BY <1>0, <1>3 DEF TypeOK
    <3>5. cancelled'[q] >= Cardinality(Dead(q)') BY <1>0, <3>2, <3>3, <3>4 DEF Garbage
    <3> QED BY <1>1, <1>3, <2>2, <3>5 DEF Garbage
  <2> QED BY <2>1, <2>2
<1>8. Fired' BY <1>0, <1>3, <1>4 DEF Fired, TypeOK
<1> QED BY <1>4, <1>5, <1>6, <1>7, <1>8 DEF Inv

\* expire() takes a pending timer from the heap and calls its callback.
LEMMA InvExpire ==
    ASSUME Inv, Expire
    PROVE  Inv'
<1>0. TypeOK /\ Shape /\ Counts /\ Fired /\ \A p \in Queues : Garbage(p) BY DEF Inv
<1>1. PICK q \in Queues : q = queue BY <1>0 DEF TypeOK
<1>2. PICK i \in heap[q] : slot[i] /\ heap' = [heap EXCEPT ![q] = heap[q] \ {i}] /\ tmr' = i
                                   /\ fired' = fired \cup {i}
  BY <1>1 DEF Expire, Fronts
<1>3. /\ phase = "loop" /\ phase' = "callback" /\ tmr = None
      /\ UNCHANGED <<now, unused, free, tq, expiry, interval, slot, ref_count, cancelled, handles, queue>>
  BY <1>0 DEF Expire, fields, Shape
<1>4. /\ heap' \in [Queues -> SUBSET Impls] /\ heap'[q] = heap[q] \ {i} /\ i \in Impls /\ tq[i] = q
      /\ \A p \in Queues \ {q} : heap'[p] = heap[p]
  BY <1>0, <1>2 DEF TypeOK, Shape
<1>5. TypeOK' BY <1>0, <1>2, <1>3, <1>4 DEF TypeOK
<1>6. \A j \in Impls : Queued(j)' <=> Queued(j) /\ j # i BY <1>0, <1>3, <1>4 DEF Queued, TypeOK
<1>7. Shape'
  <2>1. \A p \in Queues : heap'[p] \in SUBSET heap[p] BY <1>4
  <2>2. \A p \in Queues : IsFiniteSet(heap'[p]) /\ \A j \in heap'[p] : tq'[j] = p
    BY <1>0, <1>3, <2>1, FS_Subset DEF Shape
  <2>3. tq'[tmr'] = queue' /\ ~Queued(tmr)'
    <3>1. ~(i \in heap'[tq'[i]]) BY <1>3, <1>4
    <3> QED BY <1>1, <1>2, <1>3, <1>4, <3>1 DEF Queued
  <2> QED BY <1>3, <2>2, <2>3 DEF Shape
<1>8. Counts'
  <2>1. ASSUME NEW j \in Impls PROVE ref_count'[j] = handles'[j] + HeapRef(j)' + LocalRef(j)'
    <3>1. ref_count[j] = handles[j] + HeapRef(j) + LocalRef(j) /\ handles[j] \in Nat
      BY <1>0 DEF Counts, TypeOK
    <3>2. LocalRef(j) = 0 BY <1>3, ConstantsAssumption DEF LocalRef
    <3>3. CASE j = i
      <4>1. HeapRef(j) = 1 /\ HeapRef(j)' = 0 /\ LocalRef(j)' = 1
        BY <1>2, <1>4, <1>6, <3>3 DEF HeapRef, LocalRef, Queued
      <4> QED BY <1>3, <3>1, <3>2, <4>1
    <3>4. CASE j # i
      <4>1. HeapRef(j)' = HeapRef(j) /\ LocalRef(j)' = 0 BY <1>2, <1>6, <3>4 DEF HeapRef, LocalRef
      <4> QED BY <1>3, <3>1, <3>2, <4>1
    <3> QED BY <3>3, <3>4
  <2> QED BY <1>0, <1>3, <2>1 DEF Counts
<1>9. ASSUME NEW p \in Queues PROVE Garbage(p)'
  <2>1. CASE p # q
    <3>1. cancelled'[p] = cancelled[p] /\ heap'[p] = heap[p] BY <1>3, <1>4, <2>1
    <3> QED BY <1>0, <1>3, <3>1, GarbageSame
  <2>2. CASE p = q
    <3>1. Dead(q)' = Dead(q) BY <1>2, <1>3, <1>4 DEF Dead, Live
    <3> QED BY <1>0, <1>1, <1>3, <2>2, <3>1 DEF Garbage
  <2> QED BY <2>1, <2>2
<1>10. Fired' BY <1>0, <1>2, <1>3, <1>4, <1>6 DEF Fired, TypeOK
<1> QED BY <1>5, <1>7, <1>8, <1>9, <1>10 DEF Inv

\* The next expiry time of a periodic timer is after now.
LEMMA NextExpiryIsLater ==
    ASSUME TypeOK, NEW i \in Impls
    PROVE  NextExpiry(i) \in Nat /\ NextExpiry(i) > now
<1> DEFINE a == expiry[i] + interval[i]
<1>1. a \in Nat /\ now + 1 \in Nat BY DEF TypeOK
<1> HIDE DEF a
<1>2. \E x \in {a, now + 1} : \A y \in {a, now + 1} : x >= y BY <1>1
<1>3. Max({a, now + 1}) \in {a, now + 1} /\ Max({a, now + 1}) >= now + 1 BY <1>2 DEF Max
<1>4. NextExpiry(i) = Max({a, now + 1}) BY DEF NextExpiry, a
<1> QED BY <1>1, <1>3, <1>4 DEF TypeOK

\* A periodic timer goes back to the heap.
LEMMA InvReschedule ==
    ASSUME Inv, phase = "callback", Reschedule, phase' = "loop", tmr' = None,
           UNCHANGED <<now, unused, tq, interval, handles, queue, fired>>
    PROVE  Inv'
<1>0. TypeOK /\ Shape /\ Counts /\ Fired /\ \A p \in Queues : Garbage(p) BY DEF Inv
<1>1. PICK q \in Queues : q = queue BY <1>0 DEF TypeOK
<1>2. PICK i \in Impls : i = tmr BY <1>0 DEF TypeOK, Reschedule
<1>3. PICK e \in Nat : e = NextExpiry(i) /\ e > now BY <1>0, NextExpiryIsLater
<1>4. /\ slot[i] /\ expiry' = [expiry EXCEPT ![i] = e] /\ heap' = [heap EXCEPT ![q] = heap[q] \cup {i}]
      /\ UNCHANGED <<slot, ref_count, free, cancelled>>
  BY <1>1, <1>2, <1>3 DEF Reschedule
<1>5. tq[i] = q /\ ~Queued(i) /\ \A p \in Queues : i \notin heap[p]
  BY <1>0, <1>1, <1>2, ConstantsAssumption DEF Shape, Queued
<1>6. /\ heap' \in [Queues -> SUBSET Impls] /\ heap'[q] = heap[q] \cup {i}
      /\ \A p \in Queues \ {q} : heap'[p] = heap[p]
      /\ expiry' \in [Impls -> Nat] /\ expiry'[i] = e
      /\ \A j \in Impls \ {i} : expiry'[j] = expiry[j]
  BY <1>0, <1>4 DEF TypeOK
<1>7. TypeOK' BY <1>0, <1>4, <1>6 DEF TypeOK
<1>8. Queued(i)' /\ \A j \in Impls \ {i} : Queued(j)' <=> Queued(j)
  BY <1>0, <1>5, <1>6 DEF Queued, TypeOK
<1>9. Shape'
  <2>1. ASSUME NEW p \in Queues PROVE IsFiniteSet(heap'[p]) /\ \A j \in heap'[p] : tq'[j] = p
    <3>1. IsFiniteSet(heap[p]) /\ \A j \in heap[p] : tq[j] = p BY <1>0 DEF Shape
    <3>2. CASE p = q BY <1>5, <1>6, <3>1, <3>2, FS_AddElement
    <3>3. CASE p # q BY <1>6, <3>1, <3>3
    <3> QED BY <3>2, <3>3
  <2> QED BY <2>1 DEF Shape
<1>10. Counts'
  <2>1. ASSUME NEW j \in Impls PROVE ref_count'[j] = handles'[j] + HeapRef(j)' + LocalRef(j)'
    <3>1. ref_count[j] = handles[j] + HeapRef(j) + LocalRef(j) /\ handles[j] \in Nat
      BY <1>0 DEF Counts, TypeOK
    <3>2. LocalRef(j)' = 0 BY ConstantsAssumption DEF LocalRef
    <3>3. CASE j = i
      <4>1. HeapRef(j) = 0 /\ HeapRef(j)' = 1 /\ LocalRef(j) = 1
        BY <1>2, <1>5, <1>8, <3>3 DEF HeapRef, LocalRef
      <4> QED BY <1>4, <3>1, <3>2, <4>1
    <3>4. CASE j # i
      <4>1. HeapRef(j)' = HeapRef(j) /\ LocalRef(j) = 0 BY <1>2, <1>8, <3>4 DEF HeapRef, LocalRef
      <4> QED BY <1>4, <3>1, <3>2, <4>1
    <3> QED BY <3>3, <3>4
  <2> QED BY <1>0, <1>4, <2>1 DEF Counts
<1>11. ASSUME NEW p \in Queues PROVE Garbage(p)'
  <2>1. CASE p # q
    <3>1. cancelled'[p] = cancelled[p] /\ heap'[p] = heap[p] BY <1>4, <1>6, <2>1
    <3>2. \A j \in heap[p] : slot'[j] = slot[j] /\ expiry'[j] = expiry[j]
      BY <1>0, <1>4, <1>5, <1>6 DEF TypeOK
    <3> QED BY <1>0, <1>1, <2>1, <3>1, <3>2, GarbageSame
  <2>2. CASE p = q
    <3>1. Dead(q)' = Dead(q) BY <1>4, <1>5, <1>6 DEF Dead, Live
    <3> QED BY <1>0, <1>1, <1>4, <2>2, <3>1 DEF Garbage
  <2> QED BY <2>1, <2>2
<1>12. Fired' BY <1>0, <1>3, <1>6, <1>8 DEF Fired, TypeOK
<1> QED BY <1>7, <1>9, <1>10, <1>11, <1>12 DEF Inv

\* A one-shot or cancelled timer gives up the local reference.
LEMMA InvRetire ==
    ASSUME Inv, phase = "callback", Retire, phase' = "loop", tmr' = None,
           UNCHANGED <<now, unused, tq, interval, handles, queue, fired>>
    PROVE  Inv'
<1>0. TypeOK /\ Shape /\ Counts /\ Fired /\ \A p \in Queues : Garbage(p) BY DEF Inv
<1>1. PICK q \in Queues : q = queue BY <1>0 DEF TypeOK
<1>2. PICK i \in Impls : i = tmr BY <1>0 DEF TypeOK, Retire
<1>3. /\ slot' = [slot EXCEPT ![i] = FALSE] /\ ref_count' = [ref_count EXCEPT ![i] = ref_count[i] - 1]
      /\ free' = IF ref_count[i] = 1 THEN free \cup {i} ELSE free
      /\ UNCHANGED <<expiry, heap, cancelled>>
  BY <1>2 DEF Retire
<1>4. \A p \in Queues : i \notin heap[p]
  BY <1>0, <1>1, <1>2, ConstantsAssumption DEF Shape, Queued
<1>5. ASSUME NEW j \in Impls
      PROVE  /\ HeapRef(j)' = HeapRef(j) /\ HeapRef(j) \in Nat /\ LocalRef(j)' = 0
             /\ LocalRef(j) = IF j = i THEN 1 ELSE 0
             /\ ref_count[j] = handles[j] + HeapRef(j) + LocalRef(j) /\ handles[j] \in Nat
             /\ (j \in free \cup UNION unused) <=> (ref_count[j] = 0)
  BY <1>0, <1>2, <1>3, ConstantsAssumption DEF HeapRef, LocalRef, Queued, Counts, TypeOK
<1>6. ref_count[i] \in Nat /\ ref_count[i] > 0 BY <1>5
<1>7. /\ ref_count' \in [Impls -> Nat] /\ ref_count'[i] = ref_count[i] - 1
      /\ \A j \in Impls \ {i} : ref_count'[j] = ref_count[j] /\ slot'[j] = slot[j]
      /\ slot' \in [Impls -> BOOLEAN]
  BY <1>0, <1>3, <1>6 DEF TypeOK
<1>8. TypeOK' BY <1>0, <1>3, <1>7 DEF TypeOK
<1>9. Shape' BY <1>0, <1>3 DEF Shape
<1>10. Counts'
  <2>1. \A j \in Impls : ref_count'[j] = handles'[j] + HeapRef(j)' + LocalRef(j)' BY <1>5, <1>7
  <2>2. i \notin free \cup UNION unused BY <1>5, <1>6
  <2>3. ASSUME NEW j \in Impls PROVE (j \in free' \cup UNION unused) <=> (ref_count'[j] = 0)
    <3>1. CASE j = i
      <4>1. (i \in free' \cup UNION unused) <=> (ref_count[i] = 1) BY <1>3, <2>2
      <4> QED BY <1>6, <1>7, <3>1, <4>1
    <3>2. CASE j # i
      <4>1. (j \in free') <=> (j \in free) BY <1>3, <3>2
      <4> QED BY <1>5, <1>7, <3>2, <4>1
    <3> QED BY <3>1, <3>2
  <2>4. free' \cap UNION unused = {} BY <1>0, <1>3, <2>2 DEF Counts
  <2> QED BY <2>1, <2>3, <2>4 DEF Counts
<1>11. ASSUME NEW p \in Queues PROVE Garbage(p)'
  <2>1. \A j \in heap[p] : slot'[j] = slot[j] BY <1>0, <1>4, <1>7 DEF TypeOK
  <2> QED BY <1>0, <1>3, <2>1, GarbageSame
<1>12. Fired' BY <1>0, <1>3 DEF Fired, Queued
<1> QED BY <1>8, <1>9, <1>10, <1>11, <1>12 DEF Inv

\* The callback returns or throws.
LEMMA InvExpireEnd ==
    ASSUME Inv, ExpireEnd
    PROVE  Inv'
<1>1. /\ phase = "callback" /\ phase' = "loop" /\ tmr' = None
      /\ UNCHANGED <<now, unused, tq, interval, handles, queue, fired>>
  BY DEF ExpireEnd
<1>2. CASE Reschedule BY <1>1, <1>2, InvReschedule
<1>3. CASE Retire BY <1>1, <1>3, InvRetire
<1>4. CASE tmr = None /\ UNCHANGED <<expiry, heap, slot, ref_count, free, cancelled>>
  <2>0. TypeOK /\ Shape /\ Counts /\ Fired /\ \A p \in Queues : Garbage(p) BY DEF Inv
  <2>1. TypeOK' /\ Shape' /\ Fired' BY <1>1, <1>4, <2>0 DEF TypeOK, Shape, Fired, Queued
  <2>2. Counts' BY <1>1, <1>4, <2>0 DEF Counts, HeapRef, LocalRef, Queued
  <2>3. \A p \in Queues : Garbage(p)' BY <1>1, <1>4, <2>0, GarbageSame
  <2> QED BY <2>1, <2>2, <2>3 DEF Inv
<1> QED BY <1>2, <1>3, <1>4 DEF ExpireEnd

\* dispatch() collects the garbage if there is too much, and returns.
LEMMA InvDispatchEnd ==
    ASSUME Inv, DispatchEnd
    PROVE  Inv'
<1>0. TypeOK /\ Shape /\ Counts /\ Fired /\ \A p \in Queues : Garbage(p) BY DEF Inv
<1>1. PICK q \in Queues : q = queue BY <1>0 DEF TypeOK
<1>2. /\ phase = "loop" /\ phase' = "idle" /\ fired' = {} /\ tmr = None
      /\ heap[q] # {} => \E i \in Fronts(heap[q]) : slot[i]
      /\ UNCHANGED <<now, unused, tq, expiry, interval, slot, handles, queue, tmr>>
  BY <1>0, <1>1 DEF DispatchEnd, fields, Shape
<1>3. PICK gone \in SUBSET heap[q] :
          /\ gone = IF Collects(heap[q], cancelled[q]) THEN Dead(q) ELSE {}
          /\ Remove(q, gone, ref_count)
  <2> DEFINE gone == IF Collects(heap[q], cancelled[q]) THEN Dead(q) ELSE {}
  <2>1. gone \in SUBSET heap[q] BY DEF Dead
  <2>2. Remove(q, gone, ref_count) BY <1>1 DEF DispatchEnd, Dead
  <2> HIDE DEF gone
  <2> QED BY <2>1, <2>2 DEF gone
<1>4. /\ cancelled' = [cancelled EXCEPT ![q] = IF Collects(heap[q], cancelled[q]) THEN 0 ELSE cancelled[q]]
  BY <1>1 DEF DispatchEnd
<1>5. /\ ref_count' \in [Impls -> Nat] /\ free' \subseteq Impls
      /\ heap' \in [Queues -> SUBSET Impls]
      /\ heap'[q] = heap[q] \ gone
      /\ \A p \in Queues \ {q} : heap'[p] = heap[p]
      /\ \A j \in Impls : Queued(j)' <=> Queued(j) /\ j \notin gone
      /\ Counts'
  <2>1. TypeOK /\ Shape /\ Counts BY <1>0
  <2>2. UNCHANGED <<unused, tq, handles, tmr>> BY <1>2
  <2> QED BY <1>3, <2>1, <2>2, PopCounts
<1>6. cancelled[q] \in Int /\ cancelled' \in [Queues -> Int] BY <1>0, <1>4 DEF TypeOK
<1>7. TypeOK' BY <1>0, <1>2, <1>5, <1>6 DEF TypeOK
<1>8. Shape'
  <2>1. ASSUME NEW p \in Queues PROVE IsFiniteSet(heap'[p]) /\ \A j \in heap'[p] : tq'[j] = p
    <3>1. IsFiniteSet(heap[p]) /\ \A j \in heap[p] : tq[j] = p BY <1>0 DEF Shape
    <3>2. heap'[p] \in SUBSET heap[p] /\ tq' = tq BY <1>2, <1>5
    <3> QED BY <3>1, <3>2, FS_Subset
  <2> QED BY <1>2, <2>1 DEF Shape
<1>9. ASSUME NEW p \in Queues PROVE Garbage(p)'
  <2>1. CASE p # q
    <3>1. cancelled'[p] = cancelled[p] /\ heap'[p] = heap[p] BY <1>0, <1>4, <1>5, <2>1 DEF TypeOK
    <3> QED BY <1>0, <1>1, <1>2, <2>1, <3>1, GarbageSame
  <2>2. CASE p = q
    <3>1. ASSUME heap'[q] # {} PROVE \E m \in Fronts(heap[q])' : slot'[m]
      <4>1. PICK m \in Fronts(heap[q]) : slot[m] BY <1>2, <1>5, <3>1
      <4>2. m \in heap'[q] BY <1>3, <1>5, <4>1 DEF Fronts, Dead, Live
      <4> QED BY <1>2, <1>5, <4>1, <4>2 DEF Fronts
    <3>2. CASE Collects(heap[q], cancelled[q])
      <4>1. Dead(q)' = {} BY <1>2, <1>3, <1>5, <3>2 DEF Dead, Live
      <4>2. cancelled'[q] = 0 /\ Cardinality(Dead(q)') = 0
        BY <1>0, <1>4, <3>2, <4>1, FS_EmptySet DEF TypeOK
      <4>3. Cardinality(heap'[q]) \in Nat BY <1>8, FS_CardinalityType DEF Shape
      <4>4. 0 <= Cardinality(heap'[q]) \div 2 BY <4>3
      <4> QED BY <2>2, <3>1, <4>2, <4>4 DEF Garbage
    <3>3. CASE ~Collects(heap[q], cancelled[q])
      <4>1. heap'[q] = heap[q] /\ cancelled'[q] = cancelled[q]
        BY <1>0, <1>3, <1>4, <1>5, <3>3 DEF TypeOK
      <4>2. Dead(q)' = Dead(q) BY <1>2, <4>1 DEF Dead, Live
      <4>3. Cardinality(heap[q]) \in Nat BY <1>0, FiniteHeap
      <4>4. cancelled[q] <= Cardinality(heap[q]) \div 2 BY <1>6, <3>3, <4>3 DEF Collects
      <4> QED BY <1>0, <2>2, <3>1, <4>1, <4>2, <4>4 DEF Garbage
    <3> QED BY <3>2, <3>3
  <2> QED BY <2>1, <2>2
<1>10. Fired' BY <1>2 DEF Fired
<1> QED BY <1>5, <1>7, <1>8, <1>9, <1>10 DEF Inv

\* Every step preserves the invariant.
LEMMA InvNext == Inv /\ [Next]_vars => Inv'
<1> SUFFICES ASSUME Inv, [Next]_vars PROVE Inv' OBVIOUS
<1>0. TypeOK BY DEF Inv
<1>1. ASSUME NEW i \in Impls, NEW q \in Queues, NEW e \in now .. MaxTime, NEW d \in Intervals,
             insert(q, i, e, d)
      PROVE  Inv'
  <2>1. e \in Nat /\ d \in Nat BY <1>0, ConstantsAssumption DEF TypeOK
  <2> QED BY <1>1, <2>1, InvInsert
<1>2. ASSUME NEW i \in Impls, cancel(i) PROVE Inv' BY <1>2, InvCancel
<1>3. ASSUME NEW i \in Impls, CopyHandle(i) PROVE Inv' BY <1>3, InvCopyHandle
<1>4. ASSUME NEW i \in Impls, DropHandle(i) PROVE Inv' BY <1>4, InvDropHandle
<1>5. ASSUME NEW i \in Impls, NEW d \in Intervals, set_interval(i, d) PROVE Inv'
  <2>1. interval' \in [Impls -> Nat] BY <1>0, <1>5, ConstantsAssumption DEF set_interval, TypeOK
  <2> QED BY <1>5, <2>1, InvQuiet DEF set_interval
<1>6. CASE ResetArgument BY <1>6, InvResetArgument
<1>7. ASSUME NEW q \in Queues, dispatch(q) PROVE Inv' BY <1>7, InvQuiet DEF dispatch, fields
<1>8. CASE DispatchPop BY <1>8, InvDispatchPop
<1>9. CASE Expire BY <1>9, InvExpire
<1>10. CASE ExpireEnd BY <1>10, InvExpireEnd
<1>11. CASE DispatchEnd BY <1>11, InvDispatchEnd
<1>12. CASE Tick
  <2>1. now' \in Nat BY <1>0, <1>12 DEF Tick, TypeOK
  <2> QED BY <1>12, <2>1, InvQuiet DEF Tick, fields
<1>13. CASE UNCHANGED vars
  <2>1. interval' \in [Impls -> Nat] BY <1>0, <1>13 DEF vars, TypeOK
  <2> QED BY <1>13, <2>1, InvQuiet DEF vars
<1> QED BY <1>1, <1>2, <1>3, <1>4, <1>5, <1>6, <1>7, <1>8, <1>9, <1>10, <1>11, <1>12, <1>13
        DEF Next, User, Loop

-----------------------------------------------------------------------------
(* What follows *)

\* The invariant of the queues and their pool holds throughout, whatever callbacks do.
THEOREM Invariance == Spec => []Inv
BY InvInit, InvNext, PTL DEF Spec

\* Reference counts are exact, and an impl is in the pool exactly when nothing refers to
\* it: no timer is freed while it is used, freed twice, or leaked.
THEOREM CountsAreExact == Spec => []RefCounted
<1>1. Inv => RefCounted
  <2> SUFFICES ASSUME Inv, NEW i \in Impls
               PROVE  /\ ref_count[i] = handles[i] + Holders(i)
                      /\ (i \in free \cup UNION unused) <=> (ref_count[i] = 0)
    BY DEF RefCounted
  <2>1. {q \in Queues : i \in heap[q]} = IF Queued(i) THEN {tq[i]} ELSE {}
    BY DEF Inv, Shape, TypeOK, Queued
  <2>2. Cardinality({q \in Queues : i \in heap[q]}) = HeapRef(i)
    <3>1. CASE Queued(i)
      <4>1. {q \in Queues : i \in heap[q]} = {tq[i]} BY <2>1, <3>1
      <4>2. Cardinality({tq[i]}) = 1 BY FS_Singleton
      <4> QED BY <3>1, <4>1, <4>2 DEF HeapRef
    <3>2. CASE ~Queued(i)
      <4>1. {q \in Queues : i \in heap[q]} = {} BY <2>1, <3>2
      <4>2. Cardinality({}) = 0 BY FS_EmptySet
      <4> QED BY <3>2, <4>1, <4>2 DEF HeapRef
    <3> QED BY <3>1, <3>2
  <2>3. ref_count[i] = handles[i] + HeapRef(i) + LocalRef(i) /\ handles[i] \in Nat
    BY DEF Inv, Counts, TypeOK
  <2>4. Holders(i) = HeapRef(i) + LocalRef(i) BY <2>2 DEF Holders, LocalRef
  <2>5. HeapRef(i) \in Nat /\ LocalRef(i) \in Nat BY DEF HeapRef, LocalRef
  <2>6. ref_count[i] = handles[i] + Holders(i) BY <2>3, <2>4, <2>5
  <2> QED BY <2>6 DEF Inv, Counts
<1> QED BY <1>1, Invariance, PTL

\* Between calls of dispatch(), empty() and front() answer as if cancelled timers had been
\* removed at once, although they are removed lazily.
THEOREM FrontIsPending == Spec => []NextExpiryIsRight
<1>1. Inv => NextExpiryIsRight
  <2> SUFFICES ASSUME Inv, NEW q \in Queues
               PROVE  /\ cancelled[q] >= Cardinality(heap[q] \ Live(heap[q]))
                      /\ phase = "idle" =>
                            /\ Cardinality(heap[q]) - cancelled[q] = 0 <=> Live(heap[q]) = {}
                            /\ heap[q] # {} => \E i \in Fronts(heap[q]) : slot[i]
    BY DEF NextExpiryIsRight
  <2>1. Garbage(q) /\ cancelled[q] \in Int BY DEF Inv, TypeOK
  <2>2. /\ IsFiniteSet(heap[q]) /\ Cardinality(heap[q]) \in Nat
        /\ IsFiniteSet(Dead(q)) /\ Cardinality(Dead(q)) \in Nat
    BY FiniteHeap DEF Inv
  <2>3. ASSUME phase = "idle" PROVE Cardinality(heap[q]) - cancelled[q] = 0 <=> Live(heap[q]) = {}
    <3>1. cancelled[q] >= Cardinality(Dead(q)) /\ cancelled[q] <= Cardinality(heap[q]) \div 2
      BY <2>1, <2>3 DEF Garbage
    <3>2. ASSUME Cardinality(heap[q]) - cancelled[q] = 0 PROVE Live(heap[q]) = {}
      <4>1. Cardinality(heap[q]) = 0 BY <2>1, <2>2, <3>1, <3>2
      <4>2. heap[q] = {} BY <2>2, <4>1, FS_EmptySet
      <4> QED BY <4>2 DEF Live
    <3>3. ASSUME Live(heap[q]) = {} PROVE Cardinality(heap[q]) - cancelled[q] = 0
      <4>1. Dead(q) = heap[q] BY <3>3 DEF Dead
      <4> QED BY <2>1, <2>2, <3>1, <4>1
    <3> QED BY <3>2, <3>3
  <2> QED BY <2>1, <2>3 DEF Garbage, Dead
<1> QED BY <1>1, Invariance, PTL

\* One call of dispatch() notifies a timer at most once: a rescheduled timer is not due.
THEOREM NotifiedAtMostOnce == Spec => NotifiedOnce
<1>1. Inv /\ [Next]_vars => [Expire => tmr' \notin fired]_vars
  <2> SUFFICES ASSUME Inv, Expire PROVE tmr' \notin fired OBVIOUS
  <2>1. PICK i \in heap[queue] : expiry[i] <= now /\ tmr' = i BY DEF Expire, Fronts
  <2>2. queue \in Queues /\ i \in Impls /\ expiry[i] \in Nat /\ now \in Nat /\ Queued(i)
    BY DEF Inv, TypeOK, Shape, Queued
  <2> QED BY <2>1, <2>2 DEF Inv, Fired
<1> QED BY <1>1, Invariance, PTL DEF Spec, NotifiedOnce

\* Of what a heap gives up, nothing is pending; and a pending timer keeps its handles.
LEMMA StillScheduled ==
    ASSUME Inv, Scheduled, NEW q \in Queues, NEW gone \in SUBSET heap[q], NEW rc,
           Remove(q, gone, rc), \A j \in gone : ~slot'[j],
           \A j \in Impls : slot'[j] => slot[j] /\ handles'[j] > 0,
           \A j \in Impls : slot'[j] /\ tmr = j => tmr' = j,
           tq' = tq
    PROVE  Scheduled'
<1> SUFFICES ASSUME NEW j \in Impls, slot'[j] PROVE handles'[j] > 0 /\ (Queued(j)' \/ tmr' = j)
  BY DEF Scheduled
<1>1. slot[j] /\ handles'[j] > 0 /\ (Queued(j) \/ tmr = j) BY DEF Scheduled
<1>2. heap' = [heap EXCEPT ![q] = heap[q] \ gone] /\ j \notin gone BY DEF Remove
<1>3. heap \in [Queues -> SUBSET Impls] BY DEF Inv, TypeOK
<1>4. Queued(j) => Queued(j)' BY <1>2, <1>3 DEF Queued
<1> QED BY <1>1, <1>4

\* cancel() empties the slot before it pops, so that only timers that are not pending go.
LEMMA CancelScheduled ==
    ASSUME Inv, Scheduled, NEW i \in Impls, NEW rc, QueueCancel(i, rc),
           \A j \in Impls \ {i} : handles'[j] = handles[j],
           \A j \in Impls \ {i} : tmr = j => tmr' = j,
           UNCHANGED <<tq, expiry, phase, queue>>
    PROVE  Scheduled'
<1>1. TypeOK /\ Shape /\ \A q \in Queues : Garbage(q) BY DEF Inv
<1>2. PICK q \in Queues : q = tq[i] BY <1>1 DEF TypeOK
<1>3. /\ slot' = [slot EXCEPT ![i] = FALSE]
      /\ \E gone \in SUBSET heap[q] : Remove(q, gone, rc) /\ \A j \in gone : ~slot'[j]
  BY <1>1, <1>2, CancelGarbage
<1>4. PICK gone \in SUBSET heap[q] : Remove(q, gone, rc) /\ \A j \in gone : ~slot'[j] BY <1>3
<1>5. ~slot'[i] /\ \A j \in Impls \ {i} : slot'[j] = slot[j] BY <1>1, <1>3 DEF TypeOK
<1>6. \A j \in Impls : slot'[j] => slot[j] /\ handles'[j] > 0 BY <1>5 DEF Scheduled
<1>7. \A j \in Impls : slot'[j] /\ tmr = j => tmr' = j BY <1>5
<1> QED BY <1>4, <1>6, <1>7, StillScheduled

\* A callback that resets its argument while one handle is left cancels the timer.
LEMMA ResetScheduled ==
    ASSUME ResetsArgument <= 2, Inv, Scheduled, ResetArgument
    PROVE  Scheduled'
<1>0. TypeOK /\ Shape /\ Counts /\ ResetsArgument \in Nat BY ConstantsAssumption DEF Inv
<1>1. /\ UNCHANGED <<tq, expiry, handles, phase, queue>> /\ Release(tmr)
      /\ tmr # None /\ tmr' = None /\ handles[tmr] < ResetsArgument
  BY DEF ResetArgument, fields
<1>2. PICK i \in Impls : i = tmr BY <1>0, <1>1 DEF TypeOK
<1>3. handles[i] \in Nat /\ handles[i] <= 1 BY <1>0, <1>1, <1>2 DEF TypeOK
<1> DEFINE rc == [ref_count EXCEPT ![i] = ref_count[i] - 1]
<1>4. CASE rc[i] = 1 /\ slot[i]
  <2>1. PICK c : c = rc OBVIOUS
  <2>2. QueueCancel(i, c) BY <1>1, <1>2, <1>4, <2>1 DEF Release
  <2>3. /\ \A j \in Impls \ {i} : handles'[j] = handles[j]
        /\ \A j \in Impls \ {i} : tmr = j => tmr' = j
    BY <1>1, <1>2
  <2> QED BY <1>1, <2>2, <2>3, CancelScheduled
<1>5. CASE ~(rc[i] = 1 /\ slot[i])
  <2>1. UNCHANGED <<slot, heap>> BY <1>1, <1>2, <1>5 DEF Release
  <2>2. ~slot[i]
    <3> SUFFICES ASSUME slot[i] PROVE FALSE OBVIOUS
    <3>1. handles[i] = 1 BY <1>3 DEF Scheduled
    <3>2. ref_count[i] = handles[i] + HeapRef(i) + LocalRef(i) BY <1>0 DEF Counts
    <3>3. HeapRef(i) = 0 /\ LocalRef(i) = 1
      BY <1>0, <1>1, <1>2, ConstantsAssumption DEF Shape, HeapRef, LocalRef
    <3>4. rc[i] = ref_count[i] - 1 BY <1>0 DEF TypeOK
    <3> QED BY <1>5, <3>1, <3>2, <3>3, <3>4
  <2> QED BY <1>1, <1>2, <2>1, <2>2 DEF Scheduled, Queued
<1> QED BY <1>4, <1>5

\* Every step keeps pending timers scheduled, if callbacks reset their argument only while
\* at most one handle is left.
LEMMA ScheduledNext == ResetsArgument <= 2 /\ Inv /\ Scheduled /\ [Next]_vars => Scheduled'
<1> SUFFICES ASSUME ResetsArgument <= 2, Inv, Scheduled, [Next]_vars PROVE Scheduled' OBVIOUS
<1>0. TypeOK /\ Shape /\ Counts BY DEF Inv
<1>1. ASSUME NEW i \in Impls, NEW q \in Queues, NEW e, NEW d, insert(q, i, e, d)
      PROVE  Scheduled'
  <2>1. /\ tq' = [tq EXCEPT ![i] = q] /\ slot' = [slot EXCEPT ![i] = TRUE]
        /\ heap' = [heap EXCEPT ![q] = heap[q] \cup {i}]
        /\ handles' = [handles EXCEPT ![i] = 1] /\ tmr' = tmr
    BY <1>1 DEF insert
  <2>2. handles'[i] > 0 /\ Queued(i)' BY <1>0, <2>1 DEF TypeOK, Queued
  <2>3. \A j \in Impls \ {i} : /\ slot'[j] = slot[j] /\ handles'[j] = handles[j]
                                /\ Queued(j) => Queued(j)'
    BY <1>0, <2>1 DEF TypeOK, Queued
  <2> QED BY <2>1, <2>2, <2>3 DEF Scheduled
<1>2. ASSUME NEW i \in Impls, cancel(i) PROVE Scheduled'
  <2>1. UNCHANGED <<tq, expiry, handles, phase, queue, tmr>> BY <1>2 DEF cancel, fields
  <2>2. CASE slot[i] /\ QueueCancel(i, ref_count)
    <3>1. PICK rc : rc = ref_count OBVIOUS
    <3>2. QueueCancel(i, rc) BY <2>2, <3>1
    <3> QED BY <2>1, <3>2, CancelScheduled
  <2>3. CASE UNCHANGED <<slot, heap>> BY <2>1, <2>3 DEF Scheduled, Queued
  <2> QED BY <1>2, <2>2, <2>3 DEF cancel
<1>3. ASSUME NEW i \in Impls, CopyHandle(i) PROVE Scheduled'
  <2>1. /\ UNCHANGED <<tq, slot, heap, tmr>> /\ handles' = [handles EXCEPT ![i] = handles[i] + 1]
    BY <1>3 DEF CopyHandle, fields
  <2>2. \A j \in Impls : handles[j] > 0 => handles'[j] > 0 BY <1>0, <2>1 DEF TypeOK
  <2> QED BY <2>1, <2>2 DEF Scheduled, Queued
<1>4. ASSUME NEW i \in Impls, DropHandle(i) PROVE Scheduled'
  <2>1. /\ UNCHANGED <<tq, expiry, phase, queue, tmr>> /\ Release(i)
        /\ handles' = [handles EXCEPT ![i] = handles[i] - 1] /\ handles[i] > 0
    BY <1>4 DEF DropHandle, fields
  <2>2. /\ handles'[i] = handles[i] - 1 /\ handles[i] \in Nat
        /\ \A j \in Impls \ {i} : handles'[j] = handles[j]
    BY <1>0, <2>1 DEF TypeOK
  <2> DEFINE rc == [ref_count EXCEPT ![i] = ref_count[i] - 1]
  <2>3. rc[i] = ref_count[i] - 1 BY <1>0 DEF TypeOK
  <2>4. CASE rc[i] = 1 /\ slot[i]
    <3>1. PICK c : c = rc OBVIOUS
    <3>2. QueueCancel(i, c) BY <2>1, <2>4, <3>1 DEF Release
    <3> QED BY <2>1, <2>2, <3>2, CancelScheduled
  <2>5. CASE ~(rc[i] = 1 /\ slot[i])
    <3>1. UNCHANGED <<slot, heap>> BY <2>1, <2>5 DEF Release
    <3>2. ASSUME slot[i] PROVE handles'[i] > 0
      <4>1. ref_count[i] = handles[i] + HeapRef(i) + LocalRef(i) BY <1>0 DEF Counts
      <4>2. (Queued(i) \/ tmr = i) /\ ~(Queued(i) /\ tmr = i)
        BY <1>0, <3>2, ConstantsAssumption DEF Scheduled, Shape
      <4>3. HeapRef(i) + LocalRef(i) = 1 BY <4>2 DEF HeapRef, LocalRef
      <4>4. HeapRef(i) \in Nat /\ LocalRef(i) \in Nat BY DEF HeapRef, LocalRef
      <4>5. ref_count[i] = handles[i] + 1 BY <2>2, <4>1, <4>3, <4>4
      <4> QED BY <2>1, <2>2, <2>3, <2>5, <3>2, <4>5
    <3> QED BY <2>1, <2>2, <3>1, <3>2 DEF Scheduled, Queued
  <2> QED BY <2>4, <2>5
<1>5. CASE UNCHANGED <<tq, slot, heap, handles, tmr>> BY <1>5 DEF Scheduled, Queued
<1>6. CASE DispatchPop
  <2>1. UNCHANGED <<tq, slot, handles, tmr>> BY <1>6 DEF DispatchPop, fields
  <2>0. PICK q \in Queues : q = queue BY <1>0 DEF TypeOK
  <2>2. PICK i \in heap[q] : ~slot[i] /\ Remove(q, {i}, ref_count)
    BY <1>6, <2>0 DEF DispatchPop, Fronts
  <2>3. PICK gone \in SUBSET heap[q] : gone = {i} BY <2>2
  <2>4. PICK rc : rc = ref_count OBVIOUS
  <2>5. Remove(q, gone, rc) /\ \A j \in gone : ~slot'[j] BY <2>1, <2>2, <2>3, <2>4
  <2>6. \A j \in Impls : slot'[j] => slot[j] /\ handles'[j] > 0 BY <2>1 DEF Scheduled
  <2> QED BY <2>1, <2>5, <2>6, StillScheduled
<1>7. CASE Expire
  <2>0. PICK q \in Queues : q = queue BY <1>0 DEF TypeOK
  <2>1. PICK i \in heap[q] : heap' = [heap EXCEPT ![q] = heap[q] \ {i}] /\ tmr' = i
    BY <1>7, <2>0 DEF Expire, Fronts
  <2>2. UNCHANGED <<tq, slot, handles>> /\ tmr = None BY <1>0, <1>7 DEF Expire, fields, Shape
  <2>3. \A j \in Impls \ {i} : Queued(j) => Queued(j)' BY <1>0, <2>1, <2>2 DEF Queued, TypeOK
  <2> QED BY <2>1, <2>2, <2>3, ConstantsAssumption DEF Scheduled
<1>8. CASE ExpireEnd
  <2>1. UNCHANGED <<tq, handles, queue>> /\ tmr' = None BY <1>8 DEF ExpireEnd
  <2>2. CASE Reschedule
    <3>1. /\ tmr \in Impls /\ heap' = [heap EXCEPT ![queue] = heap[queue] \cup {tmr}] /\ slot' = slot
          /\ tq[tmr] = queue
      BY <1>0, <2>2 DEF Reschedule, TypeOK, Shape
    <3>2. \A j \in Impls : Queued(j) \/ tmr = j => Queued(j)'
      BY <1>0, <2>1, <3>1 DEF Queued, TypeOK
    <3> QED BY <2>1, <3>1, <3>2 DEF Scheduled
  <2>3. CASE Retire
    <3>1. tmr \in Impls /\ slot' = [slot EXCEPT ![tmr] = FALSE] /\ heap' = heap
      BY <1>0, <2>3 DEF Retire, TypeOK
    <3>2. ASSUME NEW j \in Impls, slot'[j] PROVE slot[j] /\ j # tmr
      BY <1>0, <3>1, <3>2 DEF TypeOK
    <3> QED BY <2>1, <3>1, <3>2 DEF Scheduled, Queued
  <2>4. CASE tmr = None /\ UNCHANGED <<expiry, heap, slot, ref_count, free, cancelled>>
    BY <2>1, <2>4, ConstantsAssumption DEF Scheduled, Queued
  <2> QED BY <1>8, <2>2, <2>3, <2>4 DEF ExpireEnd
<1>9. CASE DispatchEnd
  <2>1. UNCHANGED <<tq, slot, handles, tmr>> BY <1>9 DEF DispatchEnd, fields
  <2>2. PICK q \in Queues : q = queue BY <1>0 DEF TypeOK
  <2>3. PICK gone \in SUBSET heap[q] : Remove(q, gone, ref_count) /\ \A j \in gone : ~slot[j]
    <3> DEFINE gone == IF Collects(heap[q], cancelled[q]) THEN heap[q] \ Live(heap[q]) ELSE {}
    <3>1. gone \in SUBSET heap[q] /\ \A j \in gone : ~slot[j] BY DEF Live
    <3>2. Remove(q, gone, ref_count) BY <1>9, <2>2 DEF DispatchEnd
    <3> HIDE DEF gone
    <3> QED BY <3>1, <3>2
  <2>4. PICK rc : rc = ref_count OBVIOUS
  <2>5. Remove(q, gone, rc) /\ \A j \in gone : ~slot'[j] BY <2>1, <2>3, <2>4
  <2>6. \A j \in Impls : slot'[j] => slot[j] /\ handles'[j] > 0 BY <2>1 DEF Scheduled
  <2> QED BY <2>1, <2>5, <2>6, StillScheduled
<1>10. CASE (\E i \in Impls, d \in Intervals : set_interval(i, d)) \/ (\E q \in Queues : dispatch(q))
            \/ Tick \/ UNCHANGED vars
  BY <1>5, <1>10 DEF set_interval, dispatch, Tick, vars, fields
<1>11. CASE ResetArgument BY <1>11, ResetScheduled
<1> QED BY <1>1, <1>2, <1>3, <1>4, <1>6, <1>7, <1>8, <1>9, <1>10, <1>11
        DEF Next, User, Loop

\* A pending timer is not lost, and is cancelled with its last handle, if callbacks reset
\* their argument only while at most one handle is left.
THEOREM PendingStaysScheduled == ResetsArgument <= 2 => (Spec => []PendingIsScheduled)
<1> SUFFICES ASSUME ResetsArgument <= 2 PROVE Spec => []PendingIsScheduled OBVIOUS
<1>1. Init => Scheduled BY DEF Init, Scheduled
<1>2. Inv /\ Scheduled /\ [Next]_vars => Scheduled' BY ScheduledNext
<1>3. Scheduled => PendingIsScheduled BY DEF Scheduled, PendingIsScheduled, Queued
<1> QED BY <1>1, <1>2, <1>3, Invariance, PTL DEF Spec
=============================================================================
