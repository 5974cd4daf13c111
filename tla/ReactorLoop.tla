---------------------------- MODULE ReactorLoop -----------------------------
(***************************************************************************)
(* The event loop of toolbox/io/MultiReactor.hpp and io/Reactor.hpp, run   *)
(* by the thread of a BasicRunner (io/Runner.hpp), and the owner of that   *)
(* runner, whose destructor stops the reactor, wakes it up and joins its   *)
(* thread.                                                                 *)
(*                                                                         *)
(* A timer queue is seen through its next timer: none, armed, near (for    *)
(* the high priority: within 200us of its expiry) or due; TimerQueue is    *)
(* the model of the queue itself.  The sockets are seen through whether    *)
(* one of them is ready; Epoll is the model of their subscriptions.        *)
(***************************************************************************)
EXTENDS Naturals

CONSTANTS ImplsSize,    \* number of pollers of the reactor; os::Reactor has one
          SpinLimit     \* polls without work before a poll may block (100 in the code)

ASSUME ConstantsAssumption ==
    /\ ImplsSize \in Nat \ {0}
    /\ SpinLimit \in Nat

VARIABLES state, stop,      \* Reactor::state_, stop_
          hook,             \* hooks() is not empty
          timer,            \* the next timer of each priority
          ready,            \* the pollers that have a ready descriptor
          notified,         \* the eventfd of the last poller has been written
          rpc, opc,         \* next step of the reactor's thread and of the owner
          spins,            \* i of run(), saturating at SpinLimit
          mode,             \* how long the last poller waits: "zero", "timed", "forever"
          until,            \* the priorities whose next timer wait_until was taken from
          due,              \* the priorities with a timer due at the time that now holds
          k,                \* the poller whose turn it is
          events,           \* the wait() of that poller returned events
          work              \* rn > 0

loop == <<spins, mode, until, due, k, events, work>>
vars == <<hook, state, stop, timer, ready, notified, rpc, opc, spins, mode, until, due, k, events, work>>

Priorities == {"High", "Low"}
Pollers == 1 .. ImplsSize

Init ==
    /\ hook \in BOOLEAN
    /\ state = "Closed"
    /\ stop = FALSE
    /\ timer \in [Priorities -> {"none", "armed"}]
    /\ ready = {}
    /\ notified = FALSE
    /\ rpc = "start"
    /\ opc = "owns"
    /\ spins = 0
    /\ mode = "zero"
    /\ until = {}
    /\ due = {}
    /\ k = 1
    /\ events = FALSE
    /\ work = FALSE

-----------------------------------------------------------------------------
(* run() *)

\* init_() fails: the thread ends without running the reactor.
InitFails ==
    /\ rpc = "start"
    /\ rpc' = "done"
    /\ UNCHANGED <<hook, state, stop, timer, ready, notified, opc, loop>>

\* init_() succeeds: state(PendingOpen), state(Open).
PendingOpen ==
    /\ rpc = "start"
    /\ rpc' = "opening"
    /\ state' = "PendingOpen"
    /\ UNCHANGED <<hook, stop, timer, ready, notified, opc, loop>>

Open ==
    /\ rpc = "opening"
    /\ rpc' = "check"
    /\ state' = "Open"
    /\ UNCHANGED <<hook, stop, timer, ready, notified, opc, loop>>

\* Mutant: next_expiry() leaves out the low-priority queue.
WaitModeHighOnly ==
    IF spins < SpinLimit \/ hook \/ timer["High"] \in {"near", "due"}
    THEN "zero"
    ELSE IF timer["High"] = "armed" THEN "timed" ELSE "forever"

\* Mutant: next_expiry() leaves out the high-priority queue.
WaitModeLowOnly ==
    IF spins < SpinLimit \/ hook \/ timer["Low"] = "due"
    THEN "zero"
    ELSE IF timer["Low"] = "armed" THEN "timed" ELSE "forever"

\* Mutant: hooks do not keep poll() from blocking.
WaitModeIgnoresHooks ==
    IF spins < SpinLimit \/ timer["High"] \in {"near", "due"} \/ timer["Low"] = "due"
    THEN "zero"
    ELSE IF \E p \in Priorities : timer[p] = "armed" THEN "timed" ELSE "forever"

\* poll() with zero timeout, or no timeout once SpinLimit polls found no work: the
\* wait ends at the next expiry, and does not begin if that is not in the future.
WaitMode ==
    IF spins < SpinLimit \/ hook \/ timer["High"] \in {"near", "due"} \/ timer["Low"] = "due"
    THEN "zero"
    ELSE IF \E p \in Priorities : timer[p] = "armed" THEN "timed" ELSE "forever"

Due == {p \in Priorities : timer[p] = "due"}

\* while (!stop_)
Check ==
    /\ rpc = "check"
    /\ \/ /\ stop
          /\ rpc' = "closing"
          /\ UNCHANGED loop
       \/ /\ ~stop
          /\ rpc' = "wait"
          /\ mode' = WaitMode
          /\ until' = IF WaitMode = "timed" THEN {p \in Priorities : timer[p] = "armed"} ELSE {}
          /\ due' = Due
          /\ spins' = IF spins < SpinLimit THEN spins + 1 ELSE spins
          /\ k' = 1
          /\ work' = FALSE
          /\ UNCHANGED events
    /\ UNCHANGED <<hook, state, stop, timer, ready, notified, opc>>

\* Only the last poller blocks.
Blocks == k = ImplsSize /\ mode # "zero"

\* The descriptors that end the wait of poller k: its sockets, and for the last one the
\* eventfd and the timerfd, which wait() sets to wait_until, or disarms if that is zero.
SocketReady == k \in ready \/ (k = ImplsSize /\ notified)
TimerReady == k = ImplsSize /\ \E p \in until : timer[p] # "armed"

\* The time is read again if wait_until is not zero.
Wait ==
    /\ rpc = "wait"
    /\ Blocks => SocketReady \/ TimerReady
    /\ rpc' = "dispatch"
    /\ events' = (SocketReady \/ TimerReady)
    /\ due' = IF mode # "zero" THEN Due ELSE due
    /\ UNCHANGED <<hook, state, stop, timer, ready, notified, opc, spins, mode, until, k, work>>

\* The wait is interrupted by a signal: nothing is dispatched.
Interrupted ==
    /\ rpc = "wait"
    /\ rpc' = IF k = ImplsSize THEN "hooks" ELSE "wait"
    /\ k' = IF k = ImplsSize THEN k ELSE k + 1
    /\ UNCHANGED <<hook, state, stop, timer, ready, notified, opc, spins, mode, until, due, events, work>>

\* What callbacks leave behind: the timers dispatched in fired are gone or armed again,
\* and any callback may arm the others or cancel them.
Callbacks(fired, called) ==
    /\ timer' \in {t \in [Priorities -> {"none", "armed", "near", "due"}] :
                     \A p \in Priorities :
                         \/ p \notin fired /\ t[p] = timer[p]
                         \/ called /\ t[p] \in {"none", "armed"}}
    /\ due' = {p \in due : timer'[p] = "due"}

\* Mutant: low-priority timers are dispatched only if the reactor was about to block.
DispatchLowIfBlocking ==
    LET high == due \cap {"High"}
        low == IF k = ImplsSize /\ mode # "zero" THEN due \cap {"Low"} ELSE {}
        sock == events /\ k \in ready
    IN  /\ rpc = "dispatch"
        /\ Callbacks(high \cup low, sock \/ high \cup low # {})
        /\ ready' = IF events THEN ready \ {k} ELSE ready
        /\ notified' = IF events /\ k = ImplsSize THEN FALSE ELSE notified
        /\ work' = (work \/ sock \/ high \cup low # {})
        /\ rpc' = IF k = ImplsSize THEN "hooks" ELSE "wait"
        /\ k' = IF k = ImplsSize THEN k ELSE k + 1
        /\ UNCHANGED <<hook, state, stop, opc, spins, mode, until, events>>

\* timers(High).dispatch(), the poller's dispatch() and, in an empty cycle, after the
\* last poller, timers(Low).dispatch().
Dispatch ==
    LET high == due \cap {"High"}
        low == IF k = ImplsSize /\ ~events THEN due \cap {"Low"} ELSE {}
        sock == events /\ k \in ready
    IN  /\ rpc = "dispatch"
        /\ Callbacks(high \cup low, sock \/ high \cup low # {})
        /\ ready' = IF events THEN ready \ {k} ELSE ready
        /\ notified' = IF events /\ k = ImplsSize THEN FALSE ELSE notified
        /\ work' = (work \/ sock \/ high \cup low # {})
        /\ rpc' = IF k = ImplsSize THEN "hooks" ELSE "wait"
        /\ k' = IF k = ImplsSize THEN k ELSE k + 1
        /\ UNCHANGED <<hook, state, stop, opc, spins, mode, until, events>>

\* The hooks are called, and the spin count is reset if there was work.
Hooks ==
    /\ rpc = "hooks"
    /\ Callbacks({}, hook)
    /\ spins' = IF work THEN 0 ELSE spins
    /\ rpc' = "check"
    /\ UNCHANGED <<hook, state, stop, ready, notified, opc, mode, until, k, events, work>>

PendingClosed ==
    /\ rpc = "closing"
    /\ rpc' = "closed"
    /\ state' = "PendingClosed"
    /\ UNCHANGED <<hook, stop, timer, ready, notified, opc, loop>>

Finish ==
    /\ rpc = "closed"
    /\ rpc' = "done"
    /\ state' = "Closed"
    /\ UNCHANGED <<hook, stop, timer, ready, notified, opc, loop>>

Run == InitFails \/ PendingOpen \/ Open \/ Check \/ Wait \/ Dispatch \/ Hooks \/ PendingClosed \/ Finish

-----------------------------------------------------------------------------
(* ~BasicRunner(): stop(), wakeup(), join() *)

\* stop() does nothing if the reactor is closed or closing.
StopCheck ==
    /\ opc = "owns"
    /\ opc' = IF state \in {"PendingClosed", "Closed"} THEN "wakeup" ELSE "state"
    /\ UNCHANGED <<hook, state, stop, timer, ready, notified, rpc, loop>>

StopState ==
    /\ opc = "state"
    /\ opc' = "stop"
    /\ state' = "Closed"
    /\ UNCHANGED <<hook, stop, timer, ready, notified, rpc, loop>>

StopFlag ==
    /\ opc = "stop"
    /\ opc' = "wakeup"
    /\ stop' = TRUE
    /\ UNCHANGED <<hook, state, timer, ready, notified, rpc, loop>>

\* wakeup() writes the eventfd only if the reactor is open.
Wakeup ==
    /\ opc = "wakeup"
    /\ opc' = "join"
    /\ notified' = (notified \/ state = "Open")
    /\ UNCHANGED <<hook, state, stop, timer, ready, rpc, loop>>

Join ==
    /\ opc = "join"
    /\ rpc = "done"
    /\ opc' = "joined"
    /\ UNCHANGED <<hook, state, stop, timer, ready, notified, rpc, loop>>

Destroy == StopCheck \/ StopState \/ StopFlag \/ Wakeup \/ Join

-----------------------------------------------------------------------------
(* The environment *)

SocketBecomesReady(p) ==
    /\ p \notin ready
    /\ ready' = ready \cup {p}
    /\ UNCHANGED <<hook, state, stop, timer, notified, rpc, opc, loop>>

TimePasses(p) ==
    /\ timer[p] \in {"armed", "near"}
    /\ timer' = [timer EXCEPT ![p] = IF @ = "armed" /\ p = "High" THEN "near" ELSE "due"]
    /\ UNCHANGED <<hook, state, stop, ready, notified, rpc, opc, loop>>

Next ==
    \/ Run \/ Interrupted
    \/ Destroy
    \/ \E p \in Pollers : SocketBecomesReady(p)
    \/ \E p \in Priorities : TimePasses(p)

Spec == Init /\ [][Next]_vars

\* The thread keeps running and its waits are not interrupted for ever (run_thread blocks
\* all signals), the destructor once begun is carried out, and time passes.
Fairness ==
    /\ WF_vars(Run)
    /\ SF_vars(Wait)
    /\ WF_vars(opc # "owns" /\ Destroy)
    /\ \A p \in Priorities : WF_vars(TimePasses(p))

FairSpec == Spec /\ Fairness

-----------------------------------------------------------------------------
(* Properties *)

\* When poll() blocks, the wait ends at the latest when the next timer of either priority
\* expires: wait_until is not stale when the last poller uses it.
NoOversleep ==
    rpc = "wait" /\ Blocks => \A p \in Priorities : timer[p] # "none" => p \in until

\* A high-priority timer that is due and a socket that is ready are dispatched, unless the
\* loop ends, however long the reactor has been idle and whatever wakes it.
EventsServed ==
    /\ timer["High"] = "due" ~> timer["High"] # "due" \/ rpc = "done"
    /\ \A p \in Pollers : p \in ready ~> p \notin ready \/ rpc = "done"

\* A low-priority timer that is due is dispatched once sockets and high-priority timers
\* stop making work, unless the loop ends: the timerfd that wakes the reactor does
\* not keep counting as an event.
LowTimerServedWhenQuiet ==
    (<>[](ready = {} /\ ~notified)) => (timer["Low"] = "due" ~> timer["Low"] # "due" \/ rpc = "done")

\* A reactor with a hook never blocks: once stop() has found it open or opening, the
\* destructor of its runner returns.
BusyReactorJoins == opc = "state" /\ hook ~> opc = "joined"

\* "Start new thread and run", "wakeup, could be called from another thread": once begun,
\* the destructor of the runner returns, wherever its thread is.
DestructorReturns == opc # "owns" ~> opc = "joined"
=============================================================================
