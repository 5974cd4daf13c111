------------------------------ MODULE HttpClnt ------------------------------
(***************************************************************************)
(* toolbox/http/Clnt.hpp and net/StreamConnector.hpp, composed with the    *)
(* Resolver: a client that keeps one connection open.  Its timer connects  *)
(* when there is neither a connection nor an attempt; an attempt that      *)
(* fails makes the resolver's threads look the address up again, and the   *)
(* timer waits for the answer.  Meanwhile the connection may break, the    *)
(* server may move to another address, lookups may fail, and other threads *)
(* may clear or stop the resolver.                                         *)
(*                                                                         *)
(* The client is the caller Clnt of the Resolver.  All of its code runs in *)
(* the reactor's thread, which is busy in resolve() while cpc names the    *)
(* function that called it.                                                *)
(*                                                                         *)
(* The constructor of a connection asks the reactor for the poller of a    *)
(* socket that it has moved from.  BasicMultiReactor returns nullptr, and  *)
(* the process crashes; what follows in the code is reached with a reactor *)
(* that returns its poller.                                                *)
(***************************************************************************)
EXTENDS Resolver

CONSTANTS Clnt,         \* the client's calls of resolve()
          Addrs,        \* addresses of the server
          Unreachable,  \* those at which connect() fails at once if the server is not there
          Pollers,      \* what poller() may return for an empty socket: "null", "found"
          Failed,       \* the result of a lookup that throws
          MaxFaults     \* bound on the number of faults of the environment

VARIABLES conns,        \* number of connections in conn_list_
          attempt,      \* StreamConnector: sock_ and sub_ are set
          inprogress,   \* HttpClnt::inprogress_
          ep,           \* HttpClnt::ep_
          valid,        \* aifuture_.valid()
          cpc,          \* the function whose call of resolve() is in progress, "idle" or
                        \* "crashed"
          home,         \* the address at which the server is
          answer,       \* result of the client's last lookup
          faults        \* number of faults so far

clntVars == <<conns, attempt, inprogress, ep, valid, cpc, home, answer, faults>>
allVars == <<vars, clntVars>>

InitClnt ==
    /\ queue = <<>> /\ stop = FALSE /\ clears = 0
    /\ pc = [x \in Callers \cup Runners |->
                IF x = Clnt THEN "returned" ELSE IF x \in Callers THEN "call" ELSE "run"]
    /\ opc = [r \in Runners |-> "owns"]
    /\ tasks = [r \in Runners |-> <<>>]
    /\ future = [c \in Callers |-> "none"]
    /\ conns = 0 /\ attempt = FALSE /\ inprogress = FALSE /\ valid = FALSE
    /\ home \in Addrs /\ ep = home
    /\ cpc = "idle" /\ answer = Failed /\ faults = 0

\* A fault of the client's environment.
Fault == faults < MaxFaults /\ faults' = faults + 1

\* The process has not crashed.
Up == cpc # "crashed"

\* new Conn: the connection is added to the list, or its constructor dereferences the null
\* pointer that it took for its poller.
NewConn ==
    \/ "found" \in Pollers /\ conns' = conns + 1 /\ UNCHANGED cpc
    \/ "null" \in Pollers /\ cpc' = "crashed" /\ UNCHANGED conns

\* The client calls resolve() from function f; its last future is gone.
BeginResolve(f) ==
    /\ cpc' = f
    /\ pc' = [pc EXCEPT ![Clnt] = "call"]
    /\ future' = [future EXCEPT ![Clnt] = "none"]
    /\ UNCHANGED <<queue, stop, tasks, opc, clears>>

-----------------------------------------------------------------------------
(* HttpClnt::on_timer() and StreamConnector::connect() *)

\* Mutant: an attempt in progress does not keep the timer from connecting.
IdleUnlessConnected == conns = 0

Idle == conns = 0 /\ ~inprogress

\* The lookup has a result: an address, an exception or a broken promise.
Ready == future[Clnt] \in {"ready", "broken"}
Resolved == future[Clnt] = "ready" /\ answer # Failed

\* on_timer() goes on to connect to address a, and the future, if any, is consumed.
Reconnect(a) ==
    /\ cpc = "idle"
    /\ Idle
    /\ \/ ~valid /\ a = ep
       \/ valid /\ Resolved /\ a = answer
    /\ ep' = a
    /\ valid' = FALSE
    /\ UNCHANGED <<vars, home, answer>>

\* connect() succeeds at once, and on_sock_connect() makes the connection.
ConnectNow ==
    /\ Reconnect(home)
    /\ NewConn
    /\ UNCHANGED <<attempt, inprogress, faults>>

\* EINPROGRESS: sub_ waits for the outcome.
ConnectLater ==
    /\ \E a \in Addrs \ (Unreachable \ {home}) : Reconnect(a)
    /\ attempt' = TRUE
    /\ inprogress' = TRUE
    /\ UNCHANGED <<conns, cpc, faults>>

\* Any other error: connect() throws, and so does on_timer().
ConnectThrows ==
    /\ \E a \in Addrs :
          /\ Reconnect(a)
          /\ IF a \in Unreachable \ {home} THEN UNCHANGED faults ELSE Fault
    /\ UNCHANGED <<conns, attempt, inprogress, cpc>>

\* The lookup failed: look up again.
ResolveAgain ==
    /\ cpc = "idle"
    /\ Idle
    /\ valid /\ Ready /\ ~Resolved
    /\ valid' = FALSE
    /\ BeginResolve("on_timer")
    /\ UNCHANGED <<conns, attempt, inprogress, ep, home, answer, faults>>

OnTimer == ConnectNow \/ ConnectLater \/ ConnectThrows \/ ResolveAgain

-----------------------------------------------------------------------------
(* StreamConnector::on_io_event(), on_sock_connect() and on_sock_connect_error() *)

Connected ==
    /\ attempt /\ cpc = "idle"
    /\ ep = home
    /\ attempt' = FALSE
    /\ inprogress' = FALSE
    /\ NewConn
    /\ UNCHANGED <<vars, ep, valid, home, answer, faults>>

\* The attempt fails: on_sock_connect_error() begins with resolve().
ConnectError ==
    /\ attempt /\ cpc = "idle"
    /\ IF ep = home THEN Fault ELSE UNCHANGED faults
    /\ attempt' = FALSE
    /\ BeginResolve("on_sock_connect_error")
    /\ UNCHANGED <<conns, inprogress, ep, valid, home, answer>>

\* on_sock_connect() throws when it makes the connection: on_sock_connect_error() follows.
ConnThrows ==
    /\ attempt /\ cpc = "idle"
    /\ ep = home
    /\ Fault
    /\ attempt' = FALSE
    /\ inprogress' = FALSE
    /\ BeginResolve("on_sock_connect_error")
    /\ UNCHANGED <<conns, ep, valid, home, answer>>

OnIoEvent == Connected \/ ConnectError \/ ConnThrows


\* resolve() has returned the future, and the function that called it goes on.
ResolveReturned ==
    /\ cpc # "idle" /\ Up
    /\ pc[Clnt] = "returned"
    /\ valid' = TRUE
    /\ inprogress' = (inprogress /\ cpc = "on_timer")
    /\ cpc' = "idle"
    /\ UNCHANGED <<vars, conns, attempt, ep, home, answer, faults>>

\* resolve() has thrown through the function that called it.
ResolveThrown ==
    /\ cpc # "idle" /\ Up
    /\ pc[Clnt] = "thrown"
    /\ cpc' = "idle"
    /\ UNCHANGED <<vars, conns, attempt, inprogress, ep, valid, home, answer, faults>>

-----------------------------------------------------------------------------
(* The connection, the server and the resolver *)

ConnCloses ==
    /\ Up
    /\ conns > 0
    /\ Fault
    /\ conns' = conns - 1
    /\ UNCHANGED <<vars, attempt, inprogress, ep, valid, cpc, home, answer>>

ServerMoves ==
    /\ Up
    /\ Fault
    /\ home' \in Addrs \ {home}
    /\ conns' = 0
    /\ UNCHANGED <<vars, attempt, inprogress, ep, valid, cpc, answer>>

\* A step of a resolver's thread; a lookup for the client ends with the address or throws.
Lookup(r) ==
    /\ Up
    /\ Run(r)
    /\ IF future[Clnt] # "ready" /\ future'[Clnt] = "ready"
       THEN \/ answer' = home /\ UNCHANGED faults
            \/ answer' = Failed /\ Fault
       ELSE UNCHANGED <<answer, faults>>
    /\ UNCHANGED <<conns, attempt, inprogress, ep, valid, cpc, home>>

Calls(c) == Up /\ (c = Clnt => cpc # "idle") /\ Resolve(c)

Destroys(r) == Up /\ Destroy(r)

ResolverStep ==
    \/ \E c \in Callers : Calls(c)
    \/ \E r \in Runners : Destroys(r)
    \/ Up /\ clear

NextClnt ==
    \/ OnTimer \/ OnIoEvent
    \/ ResolveReturned \/ ResolveThrown
    \/ ConnCloses \/ ServerMoves
    \/ \E r \in Runners : Lookup(r)
    \/ ResolverStep /\ UNCHANGED clntVars

\* The timer fires again and again, the kernel reports the outcome of every attempt, and
\* threads keep running.  Nothing makes a fault happen, or stop() and clear() be called.
FairClnt ==
    /\ WF_allVars(OnTimer) /\ WF_allVars(OnIoEvent)
    /\ WF_allVars(ResolveReturned \/ ResolveThrown)
    /\ \A c \in Callers : WF_allVars(Calls(c) /\ UNCHANGED clntVars)
    /\ \A r \in Runners : /\ WF_allVars(Lookup(r))
                          /\ WF_allVars(opc[r] # "owns" /\ Destroys(r) /\ UNCHANGED clntVars)

SpecClnt == InitClnt /\ [][NextClnt]_allVars /\ FairClnt

-----------------------------------------------------------------------------
(* Properties *)

\* The client never has two connections, or an attempt beside a connection: however
\* failures, lookups and the timer interleave, sock_ and sub_ of an attempt are never
\* overwritten by another one.
OneAtATime == conns + (IF attempt THEN 1 ELSE 0) <= 1


=============================================================================
