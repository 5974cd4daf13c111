------------------------------- MODULE Epoll --------------------------------
(***************************************************************************)
(* toolbox/io/Epoll.hpp, Epoll.cpp with PollHandle of io/Reactor.hpp and   *)
(* the open, close, read/write interest and event loop of BasicSocket      *)
(* (io/Socket.hpp): who is subscribed to which file descriptor, in the     *)
(* socket's handle, in the poller's table data_ and in the kernel, while   *)
(* sockets are opened and closed inside the callbacks of a batch of        *)
(* events.  One thread; the kernel is external.                            *)
(*                                                                         *)
(* A socket in Batched is a BasicSocket, whose on_io_event() holds back    *)
(* the commits of its handle while it runs; the others use a PollHandle    *)
(* directly, as the acceptor, the connector and the HTTP connection do.    *)
(***************************************************************************)
EXTENDS Integers, FiniteSets, FiniteSetsExt

CONSTANTS Sockets,            \* the sockets
          Batched,            \* those that are BasicSockets
          FDs,                \* file descriptors: a set of positive numbers
          ClosesInCallback,   \* BasicSockets may be closed in their own callback
          Reopens,            \* BasicSockets may be opened again after they were closed
          MaxOpens,           \* bound on the number of times a socket is opened
          None                \* no socket

ASSUME ConstantsAssumption ==
    /\ Batched \subseteq Sockets
    /\ FDs \subseteq Nat \ {0} /\ IsFiniteSet(FDs)
    /\ ClosesInCallback \in BOOLEAN /\ Reopens \in BOOLEAN
    /\ MaxOpens \in Nat
    /\ None \notin Sockets

\* PollEvents: read, write; Error is reported whether it is asked for or not.
Interest == {"Read", "Write"}

VARIABLES handle,       \* the PollHandle of each socket: [fd, sid, events, slot]
          io_slot,      \* sockets opened before; a BasicSocket's io_slot_ is bound from then on
          inst,         \* inst[s]: number of the open() that s is from, 0 if closed
          opens,        \* number of open() calls so far
          data,         \* Epoll::data_: [slot, sid, events] for each descriptor
          kern,         \* the kernel's interest list: [on, sid, events] for each descriptor
          batch,        \* the events of the last wait() not yet dispatched
          phase,        \* "user" code outside, "dispatch" loop, or "callback"
          running,      \* the socket whose callback runs
          delivered,    \* history: the open() whose event caused that callback
          uncommitted,  \* history: sockets whose handle has been given other events since
                        \* its last commit
          terminated    \* an exception has left a noexcept function

vars == <<handle, io_slot, inst, opens, data, kern, batch, phase, running, delivered, uncommitted,
          terminated>>

Closed == [fd |-> 0, sid |-> 0, events |-> {}, slot |-> FALSE]
NoData == [slot |-> None, sid |-> 0, events |-> {}]
NoKern == [on |-> FALSE, sid |-> 0, events |-> {}]

Init ==
    /\ handle = [s \in Sockets |-> Closed]
    /\ io_slot = {}
    /\ inst = [s \in Sockets |-> 0]
    /\ opens = 0
    /\ data = [f \in FDs |-> NoData]
    /\ kern = [f \in FDs |-> NoKern]
    /\ batch = {}
    /\ phase = "user"
    /\ running = None
    /\ delivered = 0
    /\ uncommitted = {}
    /\ terminated = FALSE

UserCode == phase \in {"user", "callback"} /\ ~terminated

IsOpen(s) == inst[s] # 0

\* The batching flag of a socket's handle is set while its on_io_event() runs.
Batching(s) == running = s /\ s \in Batched

-----------------------------------------------------------------------------
(* Epoll::ctl() for handle h of socket s.  A call of epoll_ctl() that fails    *)
(* throws, and PollHandle::commit() is noexcept.                               *)

\* The handle is empty: remove the subscription of its descriptor, if there is one.
CtlDel(s, h) ==
    /\ ~h.slot
    /\ handle' = [handle EXCEPT ![s] = h]
    /\ IF h.fd # 0 /\ data[h.fd].slot # None
       THEN /\ terminated' = ~kern[h.fd].on
            /\ kern' = [kern EXCEPT ![h.fd] = NoKern]
            /\ data' = [data EXCEPT ![h.fd] = NoData]
       ELSE UNCHANGED <<kern, data, terminated>>

\* The descriptor has no subscription: make one, unless there is nothing to ask for.
CtlAdd(s, h) ==
    /\ h.slot /\ data[h.fd].slot = None
    /\ IF h.events # {}
       THEN /\ handle' = [handle EXCEPT ![s] = [h EXCEPT !.sid = @ + 1]]
            /\ data' = [data EXCEPT ![h.fd] = [slot |-> s, sid |-> h.sid + 1, events |-> h.events]]
            /\ terminated' = kern[h.fd].on
            /\ kern' = [kern EXCEPT ![h.fd] = [on |-> TRUE, sid |-> h.sid + 1, events |-> h.events]]
       ELSE /\ handle' = [handle EXCEPT ![s] = h]
            /\ UNCHANGED <<data, kern, terminated>>

\* Mutant: the table keeps the old events.
CtlModKeepsEvents(s, h) ==
    /\ h.slot /\ data[h.fd].slot # None
    /\ handle' = [handle EXCEPT ![s] = h]
    /\ UNCHANGED data
    /\ IF data[h.fd].sid = h.sid /\ h.events # data[h.fd].events
       THEN /\ terminated' = ~kern[h.fd].on
            /\ kern' = [kern EXCEPT ![h.fd] = [@ EXCEPT !.sid = h.sid, !.events = h.events]]
       ELSE UNCHANGED <<kern, terminated>>

\* The descriptor has a subscription: change it, unless it is another handle's.
CtlMod(s, h) ==
    /\ h.slot /\ data[h.fd].slot # None
    /\ handle' = [handle EXCEPT ![s] = h]
    /\ IF data[h.fd].sid # h.sid
       THEN UNCHANGED <<data, kern, terminated>>
       ELSE /\ data' = [data EXCEPT ![h.fd].events = h.events, ![h.fd].slot = s]
            /\ IF h.events # data[h.fd].events
               THEN /\ terminated' = ~kern[h.fd].on
                    /\ kern' = [kern EXCEPT ![h.fd] = [@ EXCEPT !.sid = h.sid, !.events = h.events]]
               ELSE UNCHANGED <<kern, terminated>>

ctl(s, h) == CtlDel(s, h) \/ CtlAdd(s, h) \/ CtlMod(s, h)

\* PollHandle::commit(): held back while the handle is batching.
commit(s, h) ==
    IF Batching(s)
    THEN handle' = [handle EXCEPT ![s] = h] /\ UNCHANGED <<data, kern, terminated>>
    ELSE ctl(s, h)

-----------------------------------------------------------------------------
(* Sockets *)

\* The kernel gives out the lowest descriptor that is not in use.
FreeFDs == FDs \ {handle[s].fd : s \in {t \in Sockets : IsOpen(t)}}

\* open(): a new descriptor and a new handle.  A BasicSocket binds its slot the first
\* time; io_slot() does nothing if the slot is bound already.
open(s) ==
    /\ UserCode
    /\ ~IsOpen(s)
    /\ opens < MaxOpens
    /\ s \in Batched /\ ~Reopens => s \notin io_slot
    /\ FreeFDs # {}
    /\ opens' = opens + 1
    /\ inst' = [inst EXCEPT ![s] = opens + 1]
    /\ io_slot' = io_slot \cup {s}
    /\ LET h == [Closed EXCEPT !.fd = Min(FreeFDs)]
       IN  IF s \in Batched /\ s \notin io_slot
           THEN commit(s, [h EXCEPT !.slot = TRUE])
           ELSE handle' = [handle EXCEPT ![s] = h] /\ UNCHANGED <<data, kern, terminated>>
    /\ UNCHANGED <<batch, phase, running, delivered, uncommitted>>

\* Mutant: the entry of the table is not reset.
CloseKeepsEntry(s) ==
    /\ UserCode
    /\ IsOpen(s)
    /\ Batching(s) => ClosesInCallback
    /\ inst' = [inst EXCEPT ![s] = 0]
    /\ handle' = [handle EXCEPT ![s] = Closed]
    /\ LET f == handle[s].fd
           commits == (handle[s].slot \/ handle[s].events # {}) /\ ~Batching(s)
       IN  /\ kern' = [kern EXCEPT ![f] = NoKern]
           /\ IF commits /\ data[f].slot # None
              THEN terminated' = ~kern[f].on
              ELSE UNCHANGED terminated
    /\ uncommitted' = uncommitted \ {s}
    /\ UNCHANGED <<data, io_slot, opens, batch, phase, running, delivered>>

\* close(): PollHandle::reset(), which commits an empty handle and then forgets the
\* descriptor, and ::close(), which takes the descriptor off the interest list.
close(s) ==
    /\ UserCode
    /\ IsOpen(s)
    /\ Batching(s) => ClosesInCallback
    /\ inst' = [inst EXCEPT ![s] = 0]
    /\ handle' = [handle EXCEPT ![s] = Closed]
    /\ LET f == handle[s].fd
           commits == (handle[s].slot \/ handle[s].events # {}) /\ ~Batching(s)
       IN  /\ kern' = [kern EXCEPT ![f] = NoKern]
           /\ IF commits /\ data[f].slot # None
              THEN terminated' = ~kern[f].on /\ data' = [data EXCEPT ![f] = NoData]
              ELSE UNCHANGED <<data, terminated>>
    /\ uncommitted' = uncommitted \ {s}
    /\ UNCHANGED <<io_slot, opens, batch, phase, running, delivered>>

\* add(): interest is added to the handle; with async_read() and async_write() the
\* slot is kept, and nothing is committed while there is none.  A socket that uses
\* its handle directly passes its slot.
add(s, e) ==
    LET h == [handle[s] EXCEPT !.events = @ \cup {e}, !.slot = @ \/ s \notin Batched]
    IN  /\ UserCode
        /\ IsOpen(s)
        /\ h # handle[s]
        /\ IF h.slot
           THEN commit(s, h)
           ELSE handle' = [handle EXCEPT ![s] = h] /\ UNCHANGED <<data, kern, terminated>>
        /\ uncommitted' = uncommitted \ {s}
        /\ UNCHANGED <<io_slot, inst, opens, batch, phase, running, delivered>>

\* del(): interest is removed, the slot is kept.
del(s, e) ==
    /\ UserCode
    /\ IsOpen(s)
    /\ e \in handle[s].events
    /\ commit(s, [handle[s] EXCEPT !.events = @ \ {e}])
    /\ uncommitted' = uncommitted \ {s}
    /\ UNCHANGED <<io_slot, inst, opens, batch, phase, running, delivered>>

\* events(): the interest of a handle is replaced and nothing is committed.  The HTTP
\* connection does so when its output buffer is not written at once, and when it is drained.
events(s, E) ==
    /\ UserCode
    /\ IsOpen(s) /\ s \notin Batched /\ handle[s].slot
    /\ E # handle[s].events
    /\ handle' = [handle EXCEPT ![s].events = E]
    /\ uncommitted' = uncommitted \cup {s}
    /\ UNCHANGED <<io_slot, inst, opens, data, kern, batch, phase, running, delivered, terminated>>

-----------------------------------------------------------------------------
(* The poller *)

\* The open() that the kernel's entry for descriptor f comes from.
InstOf(f) == CHOOSE n \in 0..MaxOpens : \E s \in Sockets : IsOpen(s) /\ handle[s].fd = f /\ n = inst[s]

\* wait(): some of the descriptors on the interest list are ready.
wait ==
    /\ phase = "user" /\ ~terminated
    /\ \E ready \in SUBSET {f \in FDs : kern[f].on} :
          /\ ready # {}
          /\ \E ev \in [ready -> (SUBSET (Interest \cup {"Error"})) \ {{}}] :
                /\ \A f \in ready : ev[f] \subseteq kern[f].events \cup {"Error"}
                /\ batch' = {[fd |-> f, sid |-> kern[f].sid, events |-> ev[f], inst |-> InstOf(f)] :
                                f \in ready}
    /\ phase' = "dispatch"
    /\ UNCHANGED <<handle, io_slot, inst, opens, data, kern, running, delivered, uncommitted, terminated>>

\* The events that an entry of the batch is dispatched with.
Filtered(ev) == ev.events \cap (data[ev.fd].events \cup {"Error"})

\* An event is skipped if its descriptor has no slot, if the subscription is newer
\* than the event, or if nobody is interested any more.
Skipped(ev) ==
    \/ data[ev.fd].slot = None
    \/ data[ev.fd].sid > ev.sid
    \/ Filtered(ev) = {}

DispatchSkip ==
    /\ phase = "dispatch" /\ ~terminated
    /\ \E ev \in batch : Skipped(ev) /\ batch' = batch \ {ev}
    /\ UNCHANGED <<handle, io_slot, inst, opens, data, kern, phase, running, delivered, uncommitted,
                   terminated>>

\* The slot is called.
DispatchCall ==
    /\ phase = "dispatch" /\ ~terminated
    /\ \E ev \in batch :
          /\ ~Skipped(ev)
          /\ batch' = batch \ {ev}
          /\ running' = data[ev.fd].slot
          /\ delivered' = ev.inst
    /\ phase' = "callback"
    /\ UNCHANGED <<handle, io_slot, inst, opens, data, kern, uncommitted, terminated>>

\* Mutant: what was held back is not committed.
CallbackEndUncommitted ==
    /\ phase = "callback" /\ ~terminated
    /\ phase' = "dispatch"
    /\ running' = None
    /\ delivered' = 0
    /\ UNCHANGED <<handle, data, kern, terminated, io_slot, inst, opens, batch, uncommitted>>

\* The callback returns; on_io_event() commits the handle in any case.
CallbackEnd ==
    /\ phase = "callback" /\ ~terminated
    /\ IF running \in Batched
       THEN ctl(running, handle[running])
       ELSE UNCHANGED <<handle, data, kern, terminated>>
    /\ phase' = "dispatch"
    /\ running' = None
    /\ delivered' = 0
    /\ UNCHANGED <<io_slot, inst, opens, batch, uncommitted>>

DispatchEnd ==
    /\ phase = "dispatch" /\ ~terminated
    /\ batch = {}
    /\ phase' = "user"
    /\ UNCHANGED <<handle, io_slot, inst, opens, data, kern, batch, running, delivered, uncommitted,
                   terminated>>

Next ==
    \/ \E s \in Sockets :
          \/ open(s) \/ close(s)
          \/ \E e \in Interest : add(s, e) \/ del(s, e)
          \/ \E E \in {{"Read"}, Interest} : events(s, E)
    \/ wait \/ DispatchSkip \/ DispatchCall \/ CallbackEnd \/ DispatchEnd

Spec == Init /\ [][Next]_vars

-----------------------------------------------------------------------------
(* Properties *)

\* The poller's table and the kernel's interest list agree on every descriptor, so
\* that no epoll_ctl() can fail on an entry that is missing or there already.  An entry
\* refers to the open socket that has the descriptor: reset() "closes subscription".
TableMatchesKernel ==
    \A f \in FDs :
        /\ (data[f].slot # None) <=> kern[f].on
        /\ data[f].slot # None =>
              /\ data[f].events = kern[f].events /\ data[f].sid = kern[f].sid
              /\ IsOpen(data[f].slot) /\ handle[data[f].slot].fd = f

\* Every open socket that is interested in something, and is not in the middle of its
\* own event loop, is registered in the kernel for just that: whatever sockets are opened
\* and closed in the callbacks of a batch, and whatever was committed or held back.  Only
\* a handle whose events() were set and not committed since is not, and the next add() or
\* del() that commits puts it right.
InterestRegistered ==
    \A s \in Sockets \ uncommitted :
        IsOpen(s) /\ handle[s].events # {} /\ ~Batching(s) =>
            LET f == handle[s].fd
            IN  data[f].slot = s /\ kern[f].on /\ kern[f].events = handle[s].events

\* No exception leaves the noexcept commit() of a handle.
NeverTerminates == ~terminated

\* "Skip this socket if it was modified after the call to wait()": an event is
\* delivered to the open file that it happened on, never to another one that has
\* since been given the same descriptor.
DeliveredToRightSocket ==
    [][phase = "dispatch" /\ phase' = "callback" => inst[running'] = delivered']_vars
=============================================================================
