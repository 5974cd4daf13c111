----------------------------- MODULE TimerQueue -----------------------------
(***************************************************************************)
(* toolbox/io/Timer.hpp, Timer.cpp: the timer queues of a reactor and the  *)
(* pool of reference-counted timers that they share.  A timer (an "impl")  *)
(* is referenced by the heap of its queue, by the handles that user code   *)
(* holds, and by the local variable of expire() while its callback runs.   *)
(*                                                                         *)
(* Everything runs on the reactor's thread.  User code runs between calls  *)
(* of dispatch() and inside the callbacks that dispatch() makes; there it  *)
(* may insert, cancel, copy and drop any timer, the one being notified     *)
(* included.                                                               *)
(*                                                                         *)
(* The binary heap is the set of its elements; its front is any element    *)
(* with the least expiry time, which is all that std::push_heap() and      *)
(* std::pop_heap() promise of it.                                          *)
(***************************************************************************)
EXTENDS Integers, FiniteSets, FiniteSetsExt

CONSTANTS Queues,       \* the queues that share the pool, one per priority
          Slabs,        \* the slabs that the pool may allocate: disjoint sets of impls
          Intervals,    \* repeat intervals; zero for a one-shot timer
          ResetsArgument,   \* callbacks may reset the Timer& that they are passed, while
                        \* user code holds fewer handles of the timer than this
          MaxTime,      \* bound on the clock
          MaxInserts,   \* bound on the timers inserted in each queue
          MaxHandles,   \* bound on the handles of one timer
          None          \* no timer

Impls == UNION Slabs

ASSUME ConstantsAssumption ==
    /\ Queues # {}
    /\ Intervals \subseteq Nat
    /\ ResetsArgument \in Nat
    /\ MaxTime \in Nat /\ MaxInserts \in Nat /\ MaxHandles \in Nat
    /\ None \notin Impls
    /\ \A s, t \in Slabs : s # t => s \cap t = {}
    /\ \A s \in Slabs : IsFiniteSet(s) /\ s # {}

VARIABLES now,          \* the time that is passed to dispatch()
          unused,       \* slabs not yet allocated
          free,         \* TimerPool::free_
          tq, expiry, interval, slot, ref_count,    \* fields of each impl
          heap, cancelled, max_id,                  \* fields of each queue
          handles,      \* number of handles that user code holds of each impl
          phase,        \* "idle", in the "loop" of dispatch(), or in a "callback"
          queue,        \* the queue being dispatched
          tmr,          \* the impl that expire() is notifying
          fired         \* history: impls notified by the current dispatch()

fields == <<tq, expiry, interval>>
vars == <<now, unused, free, tq, expiry, interval, slot, ref_count, heap, cancelled,
          max_id, handles, phase, queue, tmr, fired>>

Init ==
    /\ now = 0
    /\ unused = Slabs
    /\ free = {}
    /\ tq \in {[i \in Impls |-> q] : q \in {CHOOSE q \in Queues : TRUE}}
    /\ expiry = [i \in Impls |-> 0]
    /\ interval = [i \in Impls |-> 0]
    /\ slot = [i \in Impls |-> FALSE]
    /\ ref_count = [i \in Impls |-> 0]
    /\ heap = [q \in Queues |-> {}]
    /\ cancelled = [q \in Queues |-> 0]
    /\ max_id = [q \in Queues |-> 0]
    /\ handles = [i \in Impls |-> 0]
    /\ phase = "idle"
    /\ queue \in {CHOOSE q \in Queues : TRUE}
    /\ tmr = None
    /\ fired = {}

-----------------------------------------------------------------------------
Live(h) == {i \in h : slot[i]}

\* The elements that may be at the front of heap h.
Fronts(h) == {i \in h : \A j \in h : expiry[i] <= expiry[j]}

\* What gc() leaves of a heap and of its count of cancelled timers.
Collects(h, n) == n > Cardinality(h) \div 2

-----------------------------------------------------------------------------
(* TimerPool and TimerQueue::insert() *)

\* TimerPool::alloc(): take an impl from the free list, or from a new slab.
PoolAlloc(i) ==
    \/ /\ i \in free
       /\ free' = free \ {i}
       /\ UNCHANGED unused
    \/ /\ free = {}
       /\ \E s \in unused : i \in s /\ free' = s \ {i} /\ unused' = unused \ {s}

UserCode == phase \in {"idle", "callback"}

\* Mutant: the heap's own reference is not counted.
InsertUncounted(q, i, e, d) ==
    /\ UserCode
    /\ max_id[q] < MaxInserts
    /\ PoolAlloc(i)
    /\ max_id' = [max_id EXCEPT ![q] = @ + 1]
    /\ tq' = [tq EXCEPT ![i] = q]
    /\ ref_count' = [ref_count EXCEPT ![i] = 1]
    /\ expiry' = [expiry EXCEPT ![i] = e]
    /\ interval' = [interval EXCEPT ![i] = d]
    /\ slot' = [slot EXCEPT ![i] = TRUE]
    /\ heap' = [heap EXCEPT ![q] = @ \cup {i}]
    /\ handles' = [handles EXCEPT ![i] = 1]
    /\ fired' = fired \ {i}
    /\ UNCHANGED <<now, cancelled, phase, queue, tmr>>

insert(q, i, e, d) ==
    /\ UserCode
    /\ max_id[q] < MaxInserts
    /\ PoolAlloc(i)
    /\ max_id' = [max_id EXCEPT ![q] = @ + 1]
    /\ tq' = [tq EXCEPT ![i] = q]
    /\ ref_count' = [ref_count EXCEPT ![i] = 2]
    /\ expiry' = [expiry EXCEPT ![i] = e]
    /\ interval' = [interval EXCEPT ![i] = d]
    /\ slot' = [slot EXCEPT ![i] = TRUE]
    /\ heap' = [heap EXCEPT ![q] = @ \cup {i}]
    /\ handles' = [handles EXCEPT ![i] = 1]
    /\ fired' = fired \ {i}
    /\ UNCHANGED <<now, cancelled, phase, queue, tmr>>

-----------------------------------------------------------------------------
(* Cancellation and reference counts *)

\* The heap of q gives up its references to the impls in gone; rc are the counts
\* before.  An impl that nothing refers to any more goes back to the pool.
Remove(q, gone, rc) ==
    LET after == [i \in Impls |-> IF i \in gone THEN rc[i] - 1 ELSE rc[i]]
    IN  /\ heap' = [heap EXCEPT ![q] = @ \ gone]
        /\ ref_count' = after
        /\ free' = free \cup {i \in gone : after[i] = 0}

\* The sets of cancelled impls that may be popped until a pending one is in front:
\* the ones that expire before every pending one, and of those that expire with the
\* first pending one any number.
PoppedFromFront(h, s) ==
    LET dead == {i \in h : ~s[i]}
        live == h \ dead
        must == {i \in dead : \A j \in live : expiry[i] < expiry[j]}
        may  == {i \in dead : \A j \in live : expiry[i] <= expiry[j]}
    IN  {must \cup x : x \in SUBSET (may \ must)}

\* Mutant: cancelled timers stay at the front of the heap.
QueueCancelKeepsFront(i, rc) ==
    LET q == tq[i]
        s == [slot EXCEPT ![i] = FALSE]
        n == cancelled[q] + 1
        gone == IF Collects(heap[q], n) THEN {j \in heap[q] : ~s[j]} ELSE {}
    IN  /\ slot' = s
        /\ cancelled' = [cancelled EXCEPT ![q] = IF Collects(heap[q], n) THEN 0 ELSE n]
        /\ Remove(q, gone, rc)

\* TimerQueue::cancel(), called after the slot of impl i has been reset; rc are the
\* reference counts at that moment.
QueueCancel(i, rc) ==
    LET q == tq[i]
        s == [slot EXCEPT ![i] = FALSE]
    IN  \E popped \in PoppedFromFront(heap[q], s) :
          LET h == heap[q] \ popped
              n == cancelled[q] + 1 - Cardinality(popped)
              gone == IF Collects(h, n) THEN popped \cup {j \in h : ~s[j]} ELSE popped
          IN  /\ slot' = s
              /\ cancelled' = [cancelled EXCEPT ![q] = IF Collects(h, n) THEN 0 ELSE n]
              /\ Remove(q, gone, rc)

\* intrusive_ptr_release()
Release(i) ==
    LET rc == [ref_count EXCEPT ![i] = @ - 1]
    IN  \/ /\ rc[i] = 1 /\ slot[i]
           /\ QueueCancel(i, rc)
        \/ /\ ~(rc[i] = 1 /\ slot[i])
           /\ ref_count' = rc
           /\ free' = IF rc[i] = 0 THEN free \cup {i} ELSE free
           /\ UNCHANGED <<slot, heap, cancelled>>

\* Timer::cancel(), through a handle or through the argument of the callback.
cancel(i) ==
    /\ UserCode
    /\ handles[i] > 0 \/ tmr = i
    /\ \/ slot[i] /\ QueueCancel(i, ref_count)
       \/ ~slot[i] /\ UNCHANGED <<slot, cancelled, heap, ref_count, free>>
    /\ UNCHANGED <<now, unused, fields, max_id, handles, phase, queue, tmr, fired>>

\* A handle is copied, from another one or from the argument of the callback.
CopyHandle(i) ==
    /\ UserCode
    /\ handles[i] > 0 \/ tmr = i
    /\ handles[i] < MaxHandles
    /\ handles' = [handles EXCEPT ![i] = @ + 1]
    /\ ref_count' = [ref_count EXCEPT ![i] = @ + 1]
    /\ UNCHANGED <<now, unused, free, fields, slot, heap, cancelled, max_id, phase, queue, tmr, fired>>

\* A handle is reset or destroyed.
DropHandle(i) ==
    /\ UserCode
    /\ handles[i] > 0
    /\ handles' = [handles EXCEPT ![i] = @ - 1]
    /\ Release(i)
    /\ UNCHANGED <<now, unused, fields, max_id, phase, queue, tmr, fired>>

\* The callback resets the Timer& that it was passed.
ResetArgument ==
    /\ phase = "callback"
    /\ tmr # None /\ handles[tmr] < ResetsArgument
    /\ Release(tmr)
    /\ tmr' = None
    /\ UNCHANGED <<now, unused, fields, max_id, handles, phase, queue, fired>>

set_interval(i, d) ==
    /\ UserCode
    /\ handles[i] > 0 \/ tmr = i
    /\ d # interval[i]
    /\ interval' = [interval EXCEPT ![i] = d]
    /\ UNCHANGED <<now, unused, free, tq, expiry, slot, ref_count, heap, cancelled, max_id,
                   handles, phase, queue, tmr, fired>>

-----------------------------------------------------------------------------
(* dispatch() *)

dispatch(q) ==
    /\ phase = "idle"
    /\ phase' = "loop"
    /\ queue' = q
    /\ fired' = {}
    /\ UNCHANGED <<now, unused, free, fields, slot, ref_count, heap, cancelled, max_id, handles, tmr>>

\* Mutant: the loop goes round without popping the cancelled front.
DispatchSkips ==
    /\ phase = "loop"
    /\ \E i \in Fronts(heap[queue]) : ~slot[i]
    /\ UNCHANGED vars

\* The front has been cancelled: pop it.
DispatchPop ==
    /\ phase = "loop"
    /\ \E i \in Fronts(heap[queue]) :
          /\ ~slot[i]
          /\ Remove(queue, {i}, ref_count)
    /\ cancelled' = [cancelled EXCEPT ![queue] = @ - 1]
    /\ UNCHANGED <<now, unused, fields, slot, max_id, handles, phase, queue, tmr, fired>>

\* expire(): the front is due; its reference passes to the local variable and its
\* callback begins.
Expire ==
    /\ phase = "loop"
    /\ \E i \in Fronts(heap[queue]) :
          /\ slot[i]
          /\ expiry[i] <= now
          /\ heap' = [heap EXCEPT ![queue] = @ \ {i}]
          /\ tmr' = i
          /\ fired' = fired \cup {i}
    /\ phase' = "callback"
    /\ UNCHANGED <<now, unused, free, fields, slot, ref_count, cancelled, max_id, handles, queue>>

\* Mutant: missed intervals are not skipped.
NextExpiryCatchesUp(i) == expiry[i] + interval[i]

NextExpiry(i) == Max({expiry[i] + interval[i], now + 1})

\* Mutant: the timer is not pushed back on the heap.
RescheduleNoPush ==
    /\ tmr # None /\ slot[tmr] /\ interval[tmr] > 0
    /\ expiry' = [expiry EXCEPT ![tmr] = NextExpiry(tmr)]
    /\ UNCHANGED <<heap, slot, ref_count, free, cancelled>>

\* The callback returns or throws, and the timer is still pending and periodic.
Reschedule ==
    /\ tmr # None /\ slot[tmr] /\ interval[tmr] > 0
    /\ expiry' = [expiry EXCEPT ![tmr] = NextExpiry(tmr)]
    /\ heap' = [heap EXCEPT ![queue] = @ \cup {tmr}]
    /\ UNCHANGED <<slot, ref_count, free, cancelled>>

\* The callback returns or throws, and the timer is a one-shot or was cancelled: its
\* slot is empty when the local reference goes.
Retire ==
    /\ tmr # None /\ ~(slot[tmr] /\ interval[tmr] > 0)
    /\ slot' = [slot EXCEPT ![tmr] = FALSE]
    /\ ref_count' = [ref_count EXCEPT ![tmr] = @ - 1]
    /\ free' = IF ref_count[tmr] = 1 THEN free \cup {tmr} ELSE free
    /\ UNCHANGED <<expiry, heap, cancelled>>

ExpireEnd ==
    /\ phase = "callback"
    /\ \/ Reschedule
       \/ Retire
       \/ tmr = None /\ UNCHANGED <<expiry, heap, slot, ref_count, free, cancelled>>
    /\ phase' = "loop"
    /\ tmr' = None
    /\ UNCHANGED <<now, unused, tq, interval, max_id, handles, queue, fired>>

\* Nothing more is due: collect garbage and return.
DispatchEnd ==
    LET h == heap[queue]
        collects == Collects(h, cancelled[queue])
    IN  /\ phase = "loop"
        /\ h # {} => \E i \in Fronts(h) : slot[i] /\ expiry[i] > now
        /\ Remove(queue, IF collects THEN h \ Live(h) ELSE {}, ref_count)
        /\ cancelled' = [cancelled EXCEPT ![queue] = IF collects THEN 0 ELSE @]
        /\ phase' = "idle"
        /\ fired' = {}
        /\ UNCHANGED <<now, unused, fields, slot, max_id, handles, queue, tmr>>

\* Time passes between calls of dispatch().
Tick ==
    /\ phase = "idle"
    /\ now < MaxTime
    /\ now' = now + 1
    /\ UNCHANGED <<unused, free, fields, slot, ref_count, heap, cancelled, max_id, handles,
                   phase, queue, tmr, fired>>

-----------------------------------------------------------------------------
User(i) ==
    \/ \E q \in Queues, e \in now..MaxTime, d \in Intervals : insert(q, i, e, d)
    \/ cancel(i) \/ CopyHandle(i) \/ DropHandle(i)
    \/ \E d \in Intervals : set_interval(i, d)

Loop == DispatchPop \/ Expire \/ ExpireEnd \/ DispatchEnd

Next ==
    \/ \E i \in Impls : User(i)
    \/ ResetArgument
    \/ \E q \in Queues : dispatch(q)
    \/ Loop
    \/ Tick

Spec == Init /\ [][Next]_vars

\* Callbacks return, dispatch() runs to its end, and the reactor dispatches each queue
\* again and again.
Fairness ==
    /\ WF_vars(Loop)
    /\ \A q \in Queues : SF_vars(dispatch(q))

FairSpec == Spec /\ Fairness

-----------------------------------------------------------------------------
(* Properties *)

\* The heaps that hold impl i, and the local variable of expire().
Holders(i) == Cardinality({q \in Queues : i \in heap[q]}) + (IF tmr = i THEN 1 ELSE 0)

\* An impl's reference count is the number of handles, heap entries and locals that
\* refer to it, and it is on the free list, or in a slab not yet allocated, exactly
\* when that number is zero: no timer is freed while it is used, or leaked.
RefCounted ==
    \A i \in Impls :
        /\ ref_count[i] = handles[i] + Holders(i)
        /\ (i \in free \cup UNION unused) <=> (ref_count[i] = 0)

\* A pending timer is in the heap of its own queue and somebody has a handle of it, or its
\* callback is running: it cannot be lost between expire(), cancel() and gc(), and it is not
\* notified any more once the last handle is dropped.
PendingIsScheduled ==
    \A i \in Impls : slot[i] => (i \in heap[tq[i]] /\ handles[i] > 0) \/ tmr = i

\* Between calls of dispatch(), what next_expiry() asks of a queue is right: empty()
\* is true only if nothing is pending, and otherwise no pending timer expires before
\* front(), which is pending or expires with a pending timer.  At any time the count of
\* cancelled timers covers those in the heap, so that gc() cannot be put off for ever.
NextExpiryIsRight ==
    \A q \in Queues :
        /\ cancelled[q] >= Cardinality(heap[q] \ Live(heap[q]))
        /\ phase = "idle" =>
              /\ Cardinality(heap[q]) - cancelled[q] = 0 <=> Live(heap[q]) = {}
              /\ heap[q] # {} => \E i \in Fronts(heap[q]) : slot[i]

\* One call of dispatch() notifies a timer at most once, however late it is called
\* and however short the interval.
NotifiedOnce == [][Expire => tmr' \notin fired]_vars

Due(i) == slot[i] /\ expiry[i] <= now

\* A timer that is due is eventually notified, cancelled or rescheduled (none stays due for
\* ever): dispatch() reaches it whatever is ahead of it in the heap, cancelled timers
\* included, and whatever the callbacks do.
DueIsServed == \A i \in Impls : []<>~Due(i)
=============================================================================
