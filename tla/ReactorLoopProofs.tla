-------------------------- MODULE ReactorLoopProofs --------------------------
(***************************************************************************)
(* Proofs about the loop of the reactor's thread, ReactorLoop, for every   *)
(* number of pollers and every spin limit.                                 *)
(***************************************************************************)
EXTENDS ReactorLoop, TLAPS

-----------------------------------------------------------------------------
(* Type correctness *)

\* The values of the variables.  Only a high-priority timer is ever near its expiry.
TypeOK ==
    /\ hook \in BOOLEAN
    /\ state \in {"Closed", "PendingOpen", "Open", "PendingClosed"}
    /\ stop \in BOOLEAN
    /\ timer \in [Priorities -> {"none", "armed", "near", "due"}]
    /\ timer["Low"] # "near"
    /\ ready \subseteq Pollers
    /\ notified \in BOOLEAN
    /\ rpc \in {"start", "opening", "check", "wait", "dispatch", "hooks", "closing", "closed", "done"}
    /\ opc \in {"owns", "state", "stop", "wakeup", "join", "joined"}
    /\ spins \in 0 .. SpinLimit
    /\ mode \in {"zero", "timed", "forever"}
    /\ until \subseteq Priorities
    /\ due \subseteq Priorities
    /\ k \in Pollers
    /\ events \in BOOLEAN
    /\ work \in BOOLEAN

\* The wait ends no later than any timer expires that was pending when wait_until was
\* taken, and none is pending that was not, unless a callback has run since.
FreshWait ==
    rpc \in {"wait", "dispatch"} /\ mode # "zero" /\ ~work
        => \A p \in Priorities : timer[p] # "none" => p \in until

\* With one poller no callback runs between next_expiry() and the wait.
FirstWait == rpc = "wait" /\ k = 1 => ~work
-----------------------------------------------------------------------------
\* The reactor is constructed with variables of their types.
LEMMA TypeInit == Init => TypeOK
<1> SUFFICES ASSUME Init PROVE TypeOK OBVIOUS
<1>1. k \in Pollers /\ spins \in 0 .. SpinLimit BY ConstantsAssumption DEF Init, Pollers
<1>2. timer \in [Priorities -> {"none", "armed", "near", "due"}] /\ timer["Low"] # "near"
  BY DEF Init, Priorities
<1> QED BY <1>1, <1>2 DEF Init, TypeOK

\* Callbacks leave timers of the right types, and none that is near in the low-priority
\* queue.
LEMMA TypeCallbacks ==
    ASSUME TypeOK, NEW fired, NEW called, Callbacks(fired, called)
    PROVE  /\ timer' \in [Priorities -> {"none", "armed", "near", "due"}]
           /\ timer'["Low"] # "near"
           /\ due' \subseteq Priorities
BY DEF TypeOK, Callbacks, Priorities

\* The steps of the reactor's thread preserve the types.
LEMMA TypeRun == TypeOK /\ (Run \/ Interrupted) => TypeOK'
<1> SUFFICES ASSUME TypeOK, Run \/ Interrupted PROVE TypeOK' OBVIOUS
<1> USE ConstantsAssumption DEF TypeOK, loop, Pollers
<1>1. CASE InitFails \/ PendingOpen \/ Open
  <2>1. CASE InitFails BY <2>1, Zenon DEF InitFails
  <2>2. CASE PendingOpen BY <2>2, Zenon DEF PendingOpen
  <2>3. CASE Open BY <2>3, Zenon DEF Open
  <2> QED BY <1>1, <2>1, <2>2, <2>3
<1>2. CASE Check
  <2>1. CASE stop BY <1>2, <2>1 DEF Check
  <2>2. CASE ~stop
    <3>1. mode' \in {"zero", "timed", "forever"} BY <1>2, <2>2 DEF Check, WaitMode
    <3>2. until' \subseteq Priorities /\ due' \subseteq Priorities BY <1>2, <2>2 DEF Check, Due
    <3>3. spins' \in 0 .. SpinLimit /\ k' \in 1 .. ImplsSize BY <1>2, <2>2 DEF Check
    <3> QED BY <1>2, <2>2, <3>1, <3>2, <3>3, Zenon DEF Check
  <2> QED BY <2>1, <2>2
<1>3. CASE Wait
  <2>1. events' \in BOOLEAN BY <1>3 DEF Wait, SocketReady, TimerReady
  <2>2. due' \subseteq Priorities BY <1>3 DEF Wait, Due
  <2> QED BY <1>3, <2>1, <2>2, Zenon DEF Wait
<1>4. CASE Interrupted BY <1>4 DEF Interrupted
<1>5. CASE Dispatch
  <2>1. /\ timer' \in [Priorities -> {"none", "armed", "near", "due"}]
        /\ timer'["Low"] # "near" /\ due' \subseteq Priorities
    BY <1>5, TypeCallbacks DEF Dispatch
  <2>2. k' \in 1 .. ImplsSize /\ ready' \subseteq 1 .. ImplsSize BY <1>5 DEF Dispatch
  <2>3. notified' \in BOOLEAN /\ work' \in BOOLEAN BY <1>5, Zenon DEF Dispatch
  <2> QED BY <1>5, <2>1, <2>2, <2>3 DEF Dispatch
<1>6. CASE Hooks
  <2>1. /\ timer' \in [Priorities -> {"none", "armed", "near", "due"}]
        /\ timer'["Low"] # "near" /\ due' \subseteq Priorities
    BY <1>6, TypeCallbacks DEF Hooks
  <2> QED BY <1>6, <2>1 DEF Hooks
<1>7. CASE PendingClosed \/ Finish BY <1>7 DEF PendingClosed, Finish
<1> QED BY <1>1, <1>2, <1>3, <1>4, <1>5, <1>6, <1>7 DEF Run

\* Every step preserves the types.
LEMMA TypeNext == TypeOK /\ [Next]_vars => TypeOK'
<1> SUFFICES ASSUME TypeOK, [Next]_vars PROVE TypeOK' OBVIOUS
<1>1. CASE Run \/ Interrupted BY <1>1, TypeRun
<1>2. CASE Destroy
  BY <1>2 DEF Destroy, StopCheck, StopState, StopFlag, Wakeup, Join, TypeOK, loop
<1>3. CASE \E p \in Pollers : SocketBecomesReady(p)
  BY <1>3 DEF SocketBecomesReady, TypeOK, loop
<1>4. CASE \E p \in Priorities : TimePasses(p)
  BY <1>4 DEF TimePasses, TypeOK, loop, Priorities
<1>5. CASE UNCHANGED vars BY <1>5 DEF vars, TypeOK
<1> QED BY <1>1, <1>2, <1>3, <1>4, <1>5 DEF Next

\* Every variable of the reactor, its thread and its owner keeps its type.
THEOREM TypeCorrect == Spec => []TypeOK
BY TypeInit, TypeNext, PTL DEF Spec

-----------------------------------------------------------------------------
(* The time until which poll() waits *)

\* The wait that poll() decides on covers every pending timer.
LEMMA FreshCheck ==
    ASSUME TypeOK, Check
    PROVE  FreshWait' /\ FirstWait'
<1>1. CASE stop BY <1>1 DEF Check, FreshWait, FirstWait
<1>2. CASE ~stop
  <2>1. /\ mode' = WaitMode /\ work' = FALSE /\ timer' = timer
        /\ until' = IF WaitMode = "timed" THEN {p \in Priorities : timer[p] = "armed"} ELSE {}
    BY <1>2 DEF Check
  <2>2. CASE WaitMode = "zero" BY <2>1, <2>2 DEF FreshWait, FirstWait
  <2>3. CASE WaitMode # "zero"
    <3>1. /\ timer["High"] \notin {"near", "due"} /\ timer["Low"] # "due"
          /\ WaitMode = IF \E p \in Priorities : timer[p] = "armed" THEN "timed" ELSE "forever"
      BY <2>3 DEF WaitMode
    <3>2. \A p \in Priorities : timer[p] \in {"none", "armed"}
      BY <3>1 DEF TypeOK, Priorities
    <3>3. \A p \in Priorities : timer[p] # "none" => p \in until' BY <2>1, <3>1, <3>2
    <3> QED BY <2>1, <3>3 DEF FreshWait, FirstWait
  <2> QED BY <2>2, <2>3
<1> QED BY <1>1, <1>2

\* A dispatch that calls nothing changes no timer; one that calls something is work.
LEMMA FreshDispatch ==
    ASSUME TypeOK, FreshWait, Dispatch
    PROVE  FreshWait' /\ FirstWait'
<1> DEFINE high == due \cap {"High"}
           low == IF k = ImplsSize /\ ~events THEN due \cap {"Low"} ELSE {}
           called == (events /\ k \in ready) \/ high \cup low # {}
<1>1. /\ rpc = "dispatch" /\ Callbacks(high \cup low, called) /\ mode' = mode /\ until' = until
      /\ work' = (work \/ called)
      /\ rpc' = IF k = ImplsSize THEN "hooks" ELSE "wait"
      /\ k' = IF k = ImplsSize THEN k ELSE k + 1
  BY DEF Dispatch
<1>2. FreshWait'
  <2> SUFFICES ASSUME ~work', mode # "zero" PROVE \A p \in Priorities : timer'[p] = timer[p]
    BY <1>1 DEF FreshWait
  <2>1. ~called BY <1>1 DEF TypeOK
  <2> QED BY <1>1, <2>1 DEF Callbacks
<1>3. FirstWait'
  <2>1. k' # 1 \/ rpc' # "wait" BY <1>1, ConstantsAssumption DEF TypeOK, Pollers
  <2> QED BY <2>1 DEF FirstWait
<1> QED BY <1>2, <1>3

\* Every step preserves both invariants.
LEMMA FreshNext == TypeOK /\ FreshWait /\ FirstWait /\ [Next]_vars => FreshWait' /\ FirstWait'
<1> SUFFICES ASSUME TypeOK, FreshWait, FirstWait, [Next]_vars PROVE FreshWait' /\ FirstWait'
  OBVIOUS
<1>1. CASE InitFails \/ PendingOpen \/ Open
  BY <1>1 DEF InitFails, PendingOpen, Open, FreshWait, FirstWait
<1>2. CASE Check BY <1>2, FreshCheck
<1>3. CASE Wait BY <1>3 DEF Wait, FreshWait, FirstWait
<1>4. CASE Interrupted
  <2>1. k' # 1 \/ rpc' # "wait"
    BY <1>4, ConstantsAssumption DEF Interrupted, TypeOK, Pollers
  <2> QED BY <1>4, <2>1 DEF Interrupted, FreshWait, FirstWait
<1>5. CASE Dispatch BY <1>5, FreshDispatch
<1>6. CASE Hooks BY <1>6 DEF Hooks, FreshWait, FirstWait
<1>7. CASE PendingClosed \/ Finish BY <1>7 DEF PendingClosed, Finish, FreshWait, FirstWait
<1>8. CASE Destroy
  BY <1>8 DEF Destroy, StopCheck, StopState, StopFlag, Wakeup, Join, loop, FreshWait, FirstWait
<1>9. CASE \E p \in Pollers : SocketBecomesReady(p)
  BY <1>9 DEF SocketBecomesReady, loop, FreshWait, FirstWait
<1>10. CASE \E p \in Priorities : TimePasses(p)
  <2>1. PICK q \in Priorities : TimePasses(q) BY <1>10
  <2>2. \A p \in Priorities : timer'[p] # "none" => timer[p] # "none"
    BY <2>1 DEF TimePasses, TypeOK
  <2> QED BY <2>1, <2>2 DEF TimePasses, loop, FreshWait, FirstWait
<1>11. CASE UNCHANGED vars BY <1>11 DEF vars, FreshWait, FirstWait
<1> QED BY <1>1, <1>2, <1>3, <1>4, <1>5, <1>6, <1>7, <1>8, <1>9, <1>10, <1>11 DEF Next, Run

\* However many pollers the reactor has, the wait of poll() covers every pending timer as
\* long as no callback has run since wait_until was taken.
THEOREM WaitIsFresh == Spec => [](FreshWait /\ FirstWait)
<1>1. Init => FreshWait /\ FirstWait BY DEF Init, FreshWait, FirstWait
<1> QED BY <1>1, FreshNext, TypeCorrect, PTL DEF Spec

\* A reactor with one poller, as os::Reactor has, never sleeps past a timer.  With more
\* pollers the statement is false: the callbacks of an earlier poller may arm a timer after
\* wait_until was taken.
THEOREM NeverOversleeps == ImplsSize = 1 => (Spec => []NoOversleep)
<1> SUFFICES ASSUME ImplsSize = 1 PROVE Spec => []NoOversleep OBVIOUS
<1>1. TypeOK /\ FreshWait /\ FirstWait => NoOversleep
  BY DEF TypeOK, Pollers, FreshWait, FirstWait, NoOversleep, Blocks
<1> QED BY <1>1, WaitIsFresh, TypeCorrect, PTL
=============================================================================
