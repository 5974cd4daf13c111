------------------------------ MODULE Resolver ------------------------------
(***************************************************************************)
(* toolbox/net/Resolver.cpp and net/Runner.cpp: callers queue tasks and    *)
(* get futures for them, the threads of ResolverRunners take the tasks in  *)
(* batches, and stop(), clear() and the destructor of a runner come from   *)
(* other threads.  What happens under the mutex is one step; a thread that *)
(* waits on the condition variable sleeps until it is notified.            *)
(*                                                                         *)
(* The timeout of wait_for() is left out, so that nothing hides a          *)
(* notification that is lost.                                              *)
(***************************************************************************)
EXTENDS Naturals, Sequences, Functions, FiniteSets

CONSTANTS Callers,      \* the calls of resolve(), one by each caller
          Runners,      \* the ResolverRunners, each with its thread
          BatchSize,    \* 16 in the code
          Clears        \* bound on the number of calls of clear()

ASSUME ConstantsAssumption ==
    /\ Callers \cap Runners = {}
    /\ BatchSize \in Nat \ {0} /\ Clears \in Nat

VARIABLES queue, stop,  \* Resolver::queue_, stop_
          pc,           \* next step of each caller and of each runner's thread
          tasks,        \* the batch of each thread, not yet executed
          future,       \* state of the future of each caller's task
          opc,          \* next step of the destructor of each runner
          clears        \* number of calls of clear() so far

vars == <<queue, stop, pc, tasks, future, opc, clears>>

Init ==
    /\ queue = <<>>
    /\ stop = FALSE
    /\ pc = [x \in Callers \cup Runners |-> IF x \in Callers THEN "call" ELSE "run"]
    /\ tasks = [r \in Runners |-> <<>>]
    /\ future = [c \in Callers |-> "none"]
    /\ opc = [r \in Runners |-> "owns"]
    /\ clears = 0

Waiting == {r \in Runners : pc[r] = "waiting"}

\* The threads in woken are notified, and x goes on to step to.
Notify(x, to, woken) ==
    pc' = [y \in Callers \cup Runners |->
              IF y = x THEN to ELSE IF y \in woken THEN "woken" ELSE pc[y]]

\* The promises of the tasks in queue_ are broken.
Break == future' = [c \in Callers |-> IF c \in Range(queue) THEN "broken" ELSE future[c]]

-----------------------------------------------------------------------------
(* resolve() *)

\* A stopped resolver throws.
ResolveThrows(c) ==
    /\ pc[c] = "call"
    /\ stop
    /\ pc' = [pc EXCEPT ![c] = "thrown"]
    /\ UNCHANGED <<queue, stop, tasks, future, opc, clears>>

ResolvePush(c) ==
    /\ pc[c] = "call"
    /\ ~stop
    /\ queue' = Append(queue, c)
    /\ future' = [future EXCEPT ![c] = "pending"]
    /\ pc' = [pc EXCEPT ![c] = "notify"]
    /\ UNCHANGED <<stop, tasks, opc, clears>>

\* Mutant: nobody is notified.
ResolveNotifyNone(c) ==
    /\ pc[c] = "notify"
    /\ Notify(c, "returned", {})
    /\ UNCHANGED <<queue, stop, tasks, future, opc, clears>>

\* cond_.notify_one(), after the mutex is released.
ResolveNotify(c) ==
    /\ pc[c] = "notify"
    /\ \/ Waiting = {} /\ Notify(c, "returned", {})
       \/ \E r \in Waiting : Notify(c, "returned", {r})
    /\ UNCHANGED <<queue, stop, tasks, future, opc, clears>>

-----------------------------------------------------------------------------
(* run(), called again and again by a runner's thread until it returns -1 *)

\* The predicate is false: release the mutex and sleep.
RunWait(r) ==
    /\ pc[r] \in {"run", "woken"}
    /\ queue = <<>> /\ ~stop
    /\ pc' = [pc EXCEPT ![r] = "waiting"]
    /\ UNCHANGED <<queue, stop, tasks, future, opc, clears>>

\* The resolver is stopped: clear the queue, return -1, and the thread ends.
RunStop(r) ==
    /\ pc[r] \in {"run", "woken"}
    /\ stop
    /\ Break
    /\ queue' = <<>>
    /\ pc' = [pc EXCEPT ![r] = "ended"]
    /\ UNCHANGED <<stop, tasks, opc, clears>>

\* Mutant: the batch is copied and not erased from the queue.
RunTakeKeeps(r) ==
    LET n == IF Len(queue) < BatchSize THEN Len(queue) ELSE BatchSize
    IN  /\ pc[r] \in {"run", "woken"}
        /\ queue # <<>> /\ ~stop
        /\ tasks' = [tasks EXCEPT ![r] = SubSeq(queue, 1, n)]
        /\ pc' = [pc EXCEPT ![r] = "execute"]
        /\ UNCHANGED <<queue, stop, future, opc, clears>>

\* Take a batch of tasks.
RunTake(r) ==
    LET n == IF Len(queue) < BatchSize THEN Len(queue) ELSE BatchSize
    IN  /\ pc[r] \in {"run", "woken"}
        /\ queue # <<>> /\ ~stop
        /\ tasks' = [tasks EXCEPT ![r] = SubSeq(queue, 1, n)]
        /\ queue' = SubSeq(queue, n + 1, Len(queue))
        /\ pc' = [pc EXCEPT ![r] = "execute"]
        /\ UNCHANGED <<stop, future, opc, clears>>

\* Execute the first task of the batch: its future has a value or an exception.
RunExecute(r) ==
    /\ pc[r] = "execute"
    /\ tasks[r] # <<>>
    /\ future' = [future EXCEPT ![Head(tasks[r])] = "ready"]
    /\ tasks' = [tasks EXCEPT ![r] = Tail(@)]
    /\ UNCHANGED <<queue, stop, pc, opc, clears>>

RunReturn(r) ==
    /\ pc[r] = "execute"
    /\ tasks[r] = <<>>
    /\ pc' = [pc EXCEPT ![r] = "run"]
    /\ UNCHANGED <<queue, stop, tasks, future, opc, clears>>

Run(r) == RunWait(r) \/ RunStop(r) \/ RunTake(r) \/ RunExecute(r) \/ RunReturn(r)

-----------------------------------------------------------------------------
(* clear(), and ~ResolverRunner(): stop() and join() *)

clear ==
    /\ clears < Clears
    /\ clears' = clears + 1
    /\ Break
    /\ queue' = <<>>
    /\ UNCHANGED <<stop, pc, tasks, opc>>

StopFlag(r) ==
    /\ opc[r] = "owns"
    /\ stop' = TRUE
    /\ opc' = [opc EXCEPT ![r] = "notify"]
    /\ UNCHANGED <<queue, pc, tasks, future, clears>>

\* Mutant: stop() notifies one of the threads.
StopNotifyOne(r) ==
    /\ opc[r] = "notify"
    /\ \/ Waiting = {} /\ UNCHANGED pc
       \/ \E w \in Waiting : pc' = [pc EXCEPT ![w] = "woken"]
    /\ opc' = [opc EXCEPT ![r] = "join"]
    /\ UNCHANGED <<queue, stop, tasks, future, clears>>

\* cond_.notify_all(), after the mutex is released.
StopNotify(r) ==
    /\ opc[r] = "notify"
    /\ pc' = [x \in DOMAIN pc |-> IF x \in Waiting THEN "woken" ELSE pc[x]]
    /\ opc' = [opc EXCEPT ![r] = "join"]
    /\ UNCHANGED <<queue, stop, tasks, future, clears>>

Join(r) ==
    /\ opc[r] = "join"
    /\ pc[r] = "ended"
    /\ opc' = [opc EXCEPT ![r] = "joined"]
    /\ UNCHANGED <<queue, stop, pc, tasks, future, clears>>

Destroy(r) == StopFlag(r) \/ StopNotify(r) \/ Join(r)

Resolve(c) == ResolveThrows(c) \/ ResolvePush(c) \/ ResolveNotify(c)

Next ==
    \/ \E c \in Callers : Resolve(c)
    \/ \E r \in Runners : Run(r) \/ Destroy(r)
    \/ clear

Spec == Init /\ [][Next]_vars

\* Every thread that has begun something keeps running; nobody has to call stop() or
\* clear().
Fairness ==
    /\ \A c \in Callers : WF_vars(Resolve(c))
    /\ \A r \in Runners : WF_vars(Run(r)) /\ WF_vars(opc[r] # "owns" /\ Destroy(r))

FairSpec == Spec /\ Fairness

-----------------------------------------------------------------------------
(* Properties *)

\* The places where caller c's task is.
Places(c) ==
    {<<"queue", i>> : i \in {i \in 1..Len(queue) : queue[i] = c}}
    \cup UNION {{<<"tasks", r, i>> : i \in {i \in 1..Len(tasks[r]) : tasks[r][i] = c}} : r \in Runners}

\* A task whose future is pending is in exactly one place, the queue or one thread's
\* batch, and a task whose future has a result is nowhere: no task is lost between the
\* queue and a batch, executed twice, or executed after its promise was broken.
TaskInOnePlace ==
    \A c \in Callers : Cardinality(Places(c)) = (IF future[c] = "pending" THEN 1 ELSE 0)

\* Every future that resolve() returns gets a result or a broken promise, whenever
\* stop() and clear() are called: its notification is not lost, and no task is left
\* behind in a queue that no thread serves any more.
EveryFutureEnds == \A c \in Callers : future[c] = "pending" ~> future[c] \in {"ready", "broken"}

\* The destructor of every runner returns, although one stop() ends all the threads and
\* the others may be asleep or executing a batch.
DestructorReturns == \A r \in Runners : opc[r] # "owns" ~> opc[r] = "joined"
=============================================================================
