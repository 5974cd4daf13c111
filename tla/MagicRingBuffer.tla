--------------------------- MODULE MagicRingBuffer --------------------------
(***************************************************************************)
(* toolbox/ipc/MagicRingBuffer.hpp over MmapAllocator (ipc/Mmap.hpp): the  *)
(* ring of bytes between one producer and one consumer, whose memory is    *)
(* mapped twice in a row so that a message that runs over the end is       *)
(* contiguous.                                                             *)
(*                                                                         *)
(* The byte that is written at position p is p itself, which tells all     *)
(* bytes apart.  The pages are mapped with a period that the allocator     *)
(* computes from the capacity; offset o of the buffer is the same memory   *)
(* as offset o + period.  A thread loads the other thread's position with  *)
(* a relaxed load: the model has the order of x86, where it is an acquire. *)
(***************************************************************************)
EXTENDS Integers, Sequences

CONSTANTS Capacity,     \* capacity that the constructor is given
          PageSize,     \* size of a page; Impl, the header, has just this size
          Sizes,        \* the sizes that are read and written
          MaxBytes      \* bound on the number of bytes written

VARIABLES rpos, wpos,   \* the positions, shared
          mem,          \* the memory of one period
          wpc, wlen,    \* the write() in progress: next step and size
          rpc, ready,   \* the read() in progress: next step, the bytes that are there
          consumed,     \* and the bytes that its callback consumes
          got           \* the bytes that the callback saw

producer == <<wpc, wlen>>
consumer == <<rpc, ready, consumed, got>>
vars == <<rpos, wpos, mem, wpc, wlen, rpc, ready, consumed, got>>

\* (n + (PageSize >> 1)) & ~(PageSize - 1)
round_up_page_size(n) == ((n + PageSize \div 2) \div PageSize) * PageSize

\* plen - hlen_ of allocate(): the length of each of the two mappings.
Period == round_up_page_size(PageSize + Capacity) - round_up_page_size(PageSize)

\* Byte n of a message at position p: the buffer begins at p & mask_.
Memory(p, n) == ((p % Capacity) + n) % Period

Init ==
    /\ rpos = 0
    /\ wpos = 0
    /\ mem = [i \in 0 .. Period - 1 |-> 0]
    /\ wpc = "idle"
    /\ wlen = 0
    /\ rpc = "idle"
    /\ ready = 0
    /\ consumed = 0
    /\ got = <<>>

-----------------------------------------------------------------------------
(* write(), by the producer *)

\* Mutant: one byte more than there is room for.
WriteBeginOneMore(size) ==
    /\ wpc = "idle"
    /\ wpos + size <= MaxBytes
    /\ Capacity - (wpos - rpos) + 1 >= size
    /\ wpc' = "fn"
    /\ wlen' = size
    /\ UNCHANGED <<rpos, wpos, mem, consumer>>

\* The positions are loaded and there is room: the callback is called.  If capacity is
\* exceeded write() returns false, and nothing changes.
WriteBegin(size) ==
    /\ wpc = "idle"
    /\ wpos + size <= MaxBytes
    /\ Capacity - (wpos - rpos) >= size
    /\ wpc' = "fn"
    /\ wlen' = size
    /\ UNCHANGED <<rpos, wpos, mem, consumer>>

\* The callback fills the bytes.
WriteFn ==
    /\ wpc = "fn"
    /\ mem' = [i \in DOMAIN mem |->
                  IF \E n \in 0 .. wlen - 1 : Memory(wpos, n) = i
                  THEN wpos + (CHOOSE n \in 0 .. wlen - 1 : Memory(wpos, n) = i)
                  ELSE mem[i]]
    /\ wpc' = "commit"
    /\ UNCHANGED <<rpos, wpos, wlen, consumer>>

WriteCommit ==
    /\ wpc = "commit"
    /\ wpos' = wpos + wlen
    /\ wpc' = "idle"
    /\ wlen' = 0
    /\ UNCHANGED <<rpos, mem, consumer>>

-----------------------------------------------------------------------------
(* read(), by the consumer *)

\* read(size, fn) finds at least size bytes and calls fn with all that are there; fn
\* says that it consumes n of them.  Otherwise it returns false.
ReadBegin(size, n) ==
    /\ rpc = "idle"
    /\ wpos - rpos # 0 /\ wpos - rpos >= size
    /\ ready' = wpos - rpos
    /\ consumed' = n
    /\ rpc' = "fn"
    /\ UNCHANGED <<rpos, wpos, mem, producer, got>>

\* read(buf, size): as many bytes as there are, at most size.
ReadUpTo(size) == ReadBegin(0, IF size < wpos - rpos THEN size ELSE wpos - rpos)

\* read(val): all the bytes of val.
ReadExactly(size) == ReadBegin(size, size)

\* The callback sees all the bytes that are there.
ReadFn ==
    /\ rpc = "fn"
    /\ got' = [n \in 1 .. ready |-> mem[Memory(rpos, n - 1)]]
    /\ rpc' = "commit"
    /\ UNCHANGED <<rpos, wpos, mem, producer, ready, consumed>>

ReadCommit ==
    /\ rpc = "commit"
    /\ rpos' = rpos + consumed
    /\ rpc' = "idle"
    /\ ready' = 0
    /\ consumed' = 0
    /\ got' = <<>>
    /\ UNCHANGED <<wpos, mem, producer>>

-----------------------------------------------------------------------------
Next ==
    \/ \E size \in Sizes : WriteBegin(size) \/ ReadUpTo(size) \/ ReadExactly(size)
    \/ WriteFn \/ WriteCommit
    \/ ReadFn \/ ReadCommit

Spec == Init /\ [][Next]_vars

-----------------------------------------------------------------------------
(* Properties *)

\* The memory of the message that is being written, and of the bytes that are being read.
Written == {Memory(wpos, n) : n \in 0 .. wlen - 1}
BeingRead == {Memory(rpos, n) : n \in 0 .. ready - 1}

\* The two callbacks never touch the same byte at the same time.
NoDataRace == Written \cap BeingRead = {}

\* The callback of read() sees the bytes that were written, in order, each once, also
\* where a message was written across the end of the ring and is read in parts.
BytesIntact == rpc = "commit" => got = [n \in 1 .. ready |-> rpos + n - 1]
=============================================================================
