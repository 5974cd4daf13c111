------------------------------ MODULE SocketIo ------------------------------
(***************************************************************************)
(* The read and write operations of a DgramSocket: SocketRead, SocketWrite *)
(* and SocketWriteQueue (io/Socket.hpp, io/DgramSocket.hpp), driven by     *)
(* on_io_event(), whose completion handlers start further operations.      *)
(*                                                                         *)
(* A byte of datagram n is n itself.  wbuf_ is the sequence of bytes that  *)
(* were copied and not yet consumed.  The subscription is seen through the *)
(* interest of the handle and the interest that was committed to the       *)
(* poller; Epoll is the model of how that is done.                         *)
(***************************************************************************)
EXTENDS Naturals, Sequences, SequencesExt

CONSTANTS Sizes,            \* sizes of datagrams
          MaxSends,         \* bound on the number of datagrams
          MaxCycles         \* cycles of on_io_event(); 64 in the code

ASSUME ConstantsAssumption ==
    /\ Sizes \subseteq Nat \ {0}
    /\ MaxSends \in Nat
    /\ MaxCycles \in Nat \ {0}

VARIABLES reading,      \* the slot of read_impl_ is not empty
          queue,        \* queue_: [id, size] of each write that is pending
          wbuf,         \* wbuf_
          interest,     \* events_ of the handle
          committed,    \* the interest that the poller knows of
          batching,     \* BatchCtl is set in the handle
          sends,        \* number of datagrams so far
          wire,         \* history: what was sent
          done,         \* history: the writes whose handlers were called
          pc,           \* next step of on_io_event(); "idle" outside
          events,       \* its argument, without what would block
          again, cycle, \* its locals
          old           \* and old_batching

ops == <<reading, queue, wbuf, sends>>
poll == <<interest, committed, batching>>
locals == <<events, again, cycle, old>>
vars == <<reading, queue, wbuf, interest, committed, batching, sends, wire, done, pc,
          events, again, cycle, old>>

Init ==
    /\ reading = FALSE
    /\ queue = <<>>
    /\ wbuf = <<>>
    /\ interest = {}
    /\ committed = {}
    /\ batching = FALSE
    /\ sends = 0
    /\ wire = <<>>
    /\ done = <<>>
    /\ pc = "idle"
    /\ events = {}
    /\ again = FALSE
    /\ cycle = 0
    /\ old = FALSE

Datagram(id, size) == [n \in 1 .. size |-> id]

\* PollHandle::add() and del(): the change is committed unless the handle is batching.
Interest(new) ==
    /\ interest' = new
    /\ committed' = IF batching THEN committed ELSE new

-----------------------------------------------------------------------------
(* Starting operations, outside of on_io_event() and in its handlers *)

UserCode == pc \in {"idle", "on_read", "on_write"}

\* async_recvfrom(); it throws if a read is in progress.
async_recvfrom ==
    /\ UserCode
    /\ ~reading
    /\ reading' = TRUE
    /\ Interest(interest \cup {"Read"})
    /\ UNCHANGED <<queue, wbuf, sends, batching, wire, done, pc, locals>>

\* async_sendto(): the datagram is copied and the write is queued.
async_sendto(size) ==
    /\ UserCode
    /\ sends < MaxSends
    /\ sends' = sends + 1
    /\ wbuf' = wbuf \o Datagram(sends + 1, size)
    /\ queue' = Append(queue, [id |-> sends + 1, size |-> size])
    /\ Interest(interest \cup {"Write"})
    /\ UNCHANGED <<reading, batching, wire, done, pc, locals>>

-----------------------------------------------------------------------------
(* on_io_event() *)

\* The poller reports some of the events that it knows of.
OnIoEvent(evs) ==
    /\ pc = "idle"
    /\ evs # {} /\ evs \subseteq committed
    /\ events' = evs
    /\ again' = FALSE
    /\ cycle' = 0
    /\ old' = batching
    /\ batching' = TRUE
    /\ pc' = "read"
    /\ UNCHANGED <<ops, interest, committed, wire, done>>

\* Nothing to read.
ReadNothing ==
    /\ pc = "read"
    /\ "Read" \notin events \/ ~reading
    /\ pc' = "write"
    /\ UNCHANGED <<ops, poll, wire, done, locals>>

\* SocketRead::complete(): recvfrom() would block.
ReadBlocks ==
    /\ pc = "read"
    /\ "Read" \in events /\ reading
    /\ Interest(interest \cup {"Read"})
    /\ events' = events \ {"Read"}
    /\ pc' = "write"
    /\ UNCHANGED <<ops, batching, wire, done, again, cycle, old>>

\* A datagram or an error: notify() resets the slot and calls the handler.
ReadDone ==
    /\ pc = "read"
    /\ "Read" \in events /\ reading
    /\ reading' = FALSE
    /\ pc' = "on_read"
    /\ UNCHANGED <<queue, wbuf, sends, poll, wire, done, locals>>

\* The handler returns.
OnReadReturn ==
    /\ pc = "on_read"
    /\ Interest(IF reading THEN interest ELSE interest \ {"Read"})
    /\ again' = TRUE
    /\ pc' = "read"
    /\ UNCHANGED <<ops, batching, wire, done, events, cycle, old>>

\* Nothing to write.
WriteNothing ==
    /\ pc = "write"
    /\ "Write" \notin events \/ queue = <<>>
    /\ pc' = "cycle"
    /\ UNCHANGED <<ops, poll, wire, done, locals>>

\* Mutant: interest in writing is not restored.
WriteBlocksSilently ==
    /\ pc = "write"
    /\ "Write" \in events /\ queue # <<>>
    /\ events' = events \ {"Write"}
    /\ pc' = "cycle"
    /\ UNCHANGED <<ops, poll, wire, done, again, cycle, old>>

\* SocketWriteQueue::complete(): sendto() would block.
WriteBlocks ==
    /\ pc = "write"
    /\ "Write" \in events /\ queue # <<>>
    /\ Interest(interest \cup {"Write"})
    /\ events' = events \ {"Write"}
    /\ pc' = "cycle"
    /\ UNCHANGED <<ops, batching, wire, done, again, cycle, old>>

\* The first write of the queue is sent from the beginning of wbuf_, or fails; notify()
\* resets the operation and calls the handler.
WriteDone ==
    /\ pc = "write"
    /\ "Write" \in events /\ queue # <<>>
    /\ \E data \in {<<SubSeq(wbuf, 1, Head(queue).size)>>, <<>>} : wire' = wire \o data
    /\ done' = Append(done, Head(queue).id)
    /\ pc' = "on_write"
    /\ UNCHANGED <<ops, poll, locals>>

\* Mutant: everything in the buffer is consumed.
OnWriteReturnClears ==
    /\ pc = "on_write"
    /\ Interest(interest \ {"Write"})
    /\ wbuf' = <<>>
    /\ queue' = Tail(queue)
    /\ again' = (again \/ Tail(queue) = <<>>)
    /\ pc' = "write"
    /\ UNCHANGED <<reading, sends, batching, wire, done, events, cycle, old>>

\* The handler returns: the operation is empty, whether or not others are queued; its
\* bytes are consumed.  complete() returns true when the queue is empty.
OnWriteReturn ==
    /\ pc = "on_write"
    /\ Interest(interest \ {"Write"})
    /\ wbuf' = SubSeq(wbuf, Head(queue).size + 1, Len(wbuf))
    /\ queue' = Tail(queue)
    /\ again' = (again \/ Tail(queue) = <<>>)
    /\ pc' = "write"
    /\ UNCHANGED <<reading, sends, batching, wire, done, events, cycle, old>>

\* Another cycle, or the end of the loop.
Cycle ==
    /\ pc = "cycle"
    /\ IF again /\ events # {} /\ cycle + 1 < MaxCycles
       THEN pc' = "read" /\ cycle' = cycle + 1 /\ again' = FALSE
       ELSE pc' = "commit" /\ UNCHANGED <<cycle, again>>
    /\ UNCHANGED <<ops, poll, wire, done, events, old>>

\* Mutant: commits stay disabled.
CommitBatching ==
    /\ pc = "commit"
    /\ committed' = interest
    /\ pc' = "idle"
    /\ events' = {} /\ again' = FALSE /\ cycle' = 0 /\ old' = FALSE
    /\ UNCHANGED <<ops, interest, batching, wire, done>>

Commit ==
    /\ pc = "commit"
    /\ batching' = old
    /\ committed' = interest
    /\ pc' = "idle"
    /\ events' = {} /\ again' = FALSE /\ cycle' = 0 /\ old' = FALSE
    /\ UNCHANGED <<ops, interest, wire, done>>

OnIoEventSteps ==
    \/ ReadNothing \/ ReadBlocks \/ ReadDone \/ OnReadReturn
    \/ WriteNothing \/ WriteBlocks \/ WriteDone \/ OnWriteReturn
    \/ Cycle \/ Commit

Next ==
    \/ async_recvfrom
    \/ \E size \in Sizes : async_sendto(size)
    \/ \E evs \in SUBSET {"Read", "Write"} : OnIoEvent(evs)
    \/ OnIoEventSteps

Spec == Init /\ [][Next]_vars

\* The reactor's thread runs on, a writable socket is reported again and again, sending
\* does not always block, and the peer does not always send faster than it is read.
Fairness ==
    /\ WF_vars(OnIoEventSteps)
    /\ SF_vars(\E evs \in SUBSET {"Read", "Write"} : "Write" \in evs /\ OnIoEvent(evs))
    /\ SF_vars(ReadBlocks)
    /\ SF_vars(WriteDone)

FairSpec == Spec /\ Fairness

-----------------------------------------------------------------------------
(* Properties *)

\* Every datagram on the wire is whole and is one that the user sent, and they are in the
\* order of the calls.
WireIntact ==
    /\ \A k \in 1 .. Len(wire) : wire[k] = Datagram(wire[k][1], Len(wire[k])) /\ Len(wire[k]) \in Sizes
    /\ \A j, k \in 1 .. Len(wire) : j < k => wire[j][1] < wire[k][1]

\* The datagrams on the wire are intact, and the bytes in wbuf_ stay in step with the sizes in
\* queue_, although handlers queue further writes before the bytes of theirs are consumed:
\* wbuf_ can be cut into the datagrams of the queue, the k-th of them from at[k] on.
DatagramsIntact ==
    /\ WireIntact
    /\ \E at \in [1 .. Len(queue) + 1 -> 0 .. Len(wbuf)] :
          /\ at[1] = 0 /\ at[Len(queue) + 1] = Len(wbuf)
          /\ \A k \in 1 .. Len(queue) :
                /\ at[k + 1] = at[k] + queue[k].size
                /\ \A n \in 1 .. queue[k].size : wbuf[at[k] + n] = queue[k].id

\* Outside of on_io_event() the poller knows of just the operations in progress, whatever
\* the handlers started: no operation waits for an event that is not subscribed to, and
\* no event is subscribed to that nothing waits for.
OperationsAwaited ==
    pc = "idle" => committed = (IF reading THEN {"Read"} ELSE {})
                               \cup (IF queue # <<>> THEN {"Write"} ELSE {})

\* The handler of every write is called, however the datagram fares and whatever is read
\* and written at the same time.
EveryWriteCompletes == \A id \in 1 .. MaxSends : (sends >= id) ~> Contains(done, id)
=============================================================================
