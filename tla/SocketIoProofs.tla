--------------------------- MODULE SocketIoProofs ---------------------------
(***************************************************************************)
(* Proofs about the operations of a DgramSocket, for datagrams of any      *)
(* sizes, any number of them and any number of cycles: what the poller     *)
(* knows of is what is in progress, and what is on the wire is what was    *)
(* sent.                                                                   *)
(***************************************************************************)
EXTENDS SocketIo, SequenceTheorems, TLAPS

-----------------------------------------------------------------------------
(* What the poller knows of *)

\* The change of interest is committed outside of on_io_event(), and batched inside.
Batches ==
    /\ pc = "idle" => ~batching /\ committed = interest
    /\ pc # "idle" => batching /\ ~old

\* A read in progress is awaited; interest in a read that is done stays until its handler
\* has returned.
ReadAwaited ==
    /\ reading => "Read" \in interest
    /\ "Read" \in interest => reading \/ pc = "on_read"

\* A write in progress is awaited, or the loop over the queue still has to come to it.
WriteAwaited ==
    /\ queue # <<>> => "Write" \in interest \/ (pc \in {"write", "on_write"} /\ "Write" \in events)
    /\ "Write" \in interest => queue # <<>>
    /\ pc = "on_write" => queue # <<>> /\ "Write" \in events

\* The inductive invariant about interest.
AwaitInv ==
    /\ queue \in Seq([id : Nat, size : Sizes]) /\ sends \in Nat
    /\ interest \subseteq {"Read", "Write"}
    /\ batching \in BOOLEAN /\ old \in BOOLEAN /\ reading \in BOOLEAN
    /\ Batches /\ ReadAwaited /\ WriteAwaited

\* The initial state.
LEMMA AwaitInit == Init => AwaitInv
<1> SUFFICES ASSUME Init PROVE AwaitInv OBVIOUS
<1>1. queue \in Seq([id : Nat, size : Sizes]) BY EmptySeq DEF Init
<1>2. Batches /\ ReadAwaited /\ WriteAwaited BY DEF Init, Batches, ReadAwaited, WriteAwaited
<1> QED BY <1>1, <1>2 DEF Init, AwaitInv

\* Every step of the user, the poller and on_io_event().
LEMMA AwaitStep == AwaitInv /\ [Next]_vars => AwaitInv'
<1> SUFFICES ASSUME AwaitInv, [Next]_vars PROVE AwaitInv' OBVIOUS
<1> USE DEF AwaitInv, Batches, ReadAwaited, WriteAwaited, Interest, ops, poll, locals
<1>1. CASE async_recvfrom BY <1>1 DEF async_recvfrom, UserCode
<1>2. ASSUME NEW size \in Sizes, async_sendto(size) PROVE AwaitInv'
  <2> DEFINE op == [id |-> sends + 1, size |-> size]
  <2>1. op \in [id : Nat, size : Sizes] OBVIOUS
  <2>2. queue' = Append(queue, op) BY <1>2 DEF async_sendto
  <2> HIDE DEF op
  <2>3. queue' \in Seq([id : Nat, size : Sizes]) /\ queue' # <<>> BY <2>1, <2>2, AppendProperties
  <2>4. /\ sends' \in Nat /\ pc \in {"idle", "on_read", "on_write"}
        /\ interest' = interest \cup {"Write"}
        /\ committed' = IF batching THEN committed ELSE interest \cup {"Write"}
        /\ UNCHANGED <<reading, batching, pc, events, old>>
    BY <1>2 DEF async_sendto, UserCode
  <2> QED BY <2>3, <2>4
<1>3. ASSUME NEW evs \in SUBSET {"Read", "Write"}, OnIoEvent(evs) PROVE AwaitInv'
  BY <1>3 DEF OnIoEvent
<1>4. CASE ReadNothing BY <1>4 DEF ReadNothing
<1>5. CASE ReadBlocks BY <1>5 DEF ReadBlocks
<1>6. CASE ReadDone BY <1>6 DEF ReadDone
<1>7. CASE OnReadReturn BY <1>7 DEF OnReadReturn
<1>8. CASE WriteNothing BY <1>8 DEF WriteNothing
<1>9. CASE WriteBlocks BY <1>9 DEF WriteBlocks
<1>10. CASE WriteDone BY <1>10 DEF WriteDone
<1>11. CASE OnWriteReturn
  <2>1. queue # <<>> /\ queue' = Tail(queue) BY <1>11 DEF OnWriteReturn
  <2>2. queue' \in Seq([id : Nat, size : Sizes]) BY <2>1, HeadTailProperties
  <2> QED BY <1>11, <2>1, <2>2 DEF OnWriteReturn
<1>12. CASE Cycle BY <1>12 DEF Cycle
<1>13. CASE Commit BY <1>13 DEF Commit
<1>14. CASE UNCHANGED vars BY <1>14 DEF vars
<1> QED BY <1>1, <1>2, <1>3, <1>4, <1>5, <1>6, <1>7, <1>8, <1>9, <1>10, <1>11, <1>12, <1>13,
           <1>14 DEF Next, OnIoEventSteps

\* Outside of on_io_event() the poller knows of just the operations in progress, although
\* del() of a completed write also drops the interest of the ones that are still queued, and
\* handlers start operations while commits are disabled.
THEOREM OperationsAreAwaited == Spec => []OperationsAwaited
<1>1. AwaitInv => OperationsAwaited
  BY DEF AwaitInv, Batches, ReadAwaited, WriteAwaited, OperationsAwaited
<1> QED BY <1>1, AwaitInit, AwaitStep, PTL DEF Spec

-----------------------------------------------------------------------------
(* What is on the wire *)

Ops == [id : Nat, size : Sizes]

\* The bytes b are the datagrams of the writes q one after another: that of the k-th write
\* begins behind the first off[k] bytes.
Laid(q, b) ==
    \E off \in [1 .. Len(q) + 1 -> Nat] :
        /\ off[1] = 0 /\ off[Len(q) + 1] = Len(b)
        /\ \A j, k \in 1 .. Len(q) + 1 : j <= k => off[j] <= off[k]
        /\ \A k \in 1 .. Len(q) :
              /\ off[k + 1] = off[k] + q[k].size
              /\ \A n \in 1 .. q[k].size : b[off[k] + n] = q[k].id

\* A datagram is a sequence of its bytes.
LEMMA DatagramSeq ==
    ASSUME NEW id \in Nat, NEW size \in Nat
    PROVE  /\ Datagram(id, size) \in Seq(Nat) /\ Len(Datagram(id, size)) = size
           /\ \A n \in 1 .. size : Datagram(id, size)[n] = id
<1>1. Datagram(id, size) = [n \in 1 .. size |-> id] BY DEF Datagram
<1> QED BY <1>1

\* No writes, no bytes.
LEMMA LaidEmpty == Laid(<<>>, <<>>)
<1> DEFINE off == [k \in 1 .. 1 |-> 0]
<1>1. Len(<<>>) = 0 BY EmptySeq
<1>2. off \in [1 .. Len(<<>>) + 1 -> Nat] BY <1>1
<1>3. /\ off[1] = 0 /\ off[Len(<<>>) + 1] = Len(<<>>)
      /\ \A j, k \in 1 .. Len(<<>>) + 1 : j <= k => off[j] <= off[k]
  BY <1>1
<1>4. \A k : k \notin 1 .. Len(<<>>) BY <1>1
<1> HIDE DEF off
<1> QED BY <1>2, <1>3, <1>4 DEF Laid

\* A write is queued and its bytes are copied.
LEMMA LaidAppend ==
    ASSUME NEW q \in Seq(Ops), NEW b \in Seq(Nat), Laid(q, b), NEW id \in Nat, NEW size \in Sizes
    PROVE  Laid(Append(q, [id |-> id, size |-> size]), b \o Datagram(id, size))
<1> DEFINE op == [id |-> id, size |-> size]
           d == Datagram(id, size)
           m == Len(q)
<1>0. size \in Nat /\ op \in Ops /\ op.id = id /\ op.size = size BY ConstantsAssumption DEF Ops
<1>1. d \in Seq(Nat) /\ Len(d) = size /\ \A n \in 1 .. size : d[n] = id BY <1>0, DatagramSeq
<1> HIDE DEF op, d
<1>2. PICK off \in [1 .. m + 1 -> Nat] :
        /\ off[1] = 0 /\ off[m + 1] = Len(b)
        /\ \A j, k \in 1 .. m + 1 : j <= k => off[j] <= off[k]
        /\ \A k \in 1 .. m :
              /\ off[k + 1] = off[k] + q[k].size
              /\ \A n \in 1 .. q[k].size : b[off[k] + n] = q[k].id
  BY DEF Laid
<1> DEFINE t == Append(q, op)
           c == b \o d
           new == [k \in 1 .. m + 2 |-> IF k = m + 2 THEN Len(b) + size ELSE off[k]]
<1>3. /\ m \in Nat /\ Len(t) = m + 1 /\ t[m + 1] = op
      /\ \A k \in 1 .. m : t[k] = q[k]
  BY <1>0, AppendProperties, LenProperties
<1>4. /\ Len(b) \in Nat /\ Len(c) = Len(b) + size
      /\ \A i \in 1 .. Len(b) : c[i] = b[i]
      /\ \A n \in 1 .. size : c[Len(b) + n] = id
  <2>1. /\ Len(b) \in Nat /\ Len(c) = Len(b) + Len(d)
        /\ \A i \in 1 .. Len(b) + Len(d) : c[i] = IF i <= Len(b) THEN b[i] ELSE d[i - Len(b)]
    BY <1>1, ConcatProperties, LenProperties
  <2> HIDE DEF c
  <2>2. ASSUME NEW n \in 1 .. size PROVE c[Len(b) + n] = id
    <3>1. Len(b) + n \in 1 .. Len(b) + Len(d) /\ ~(Len(b) + n <= Len(b)) /\ Len(b) + n - Len(b) = n
      BY <1>0, <1>1, <2>1
    <3> QED BY <1>1, <2>1, <3>1
  <2> QED BY <1>0, <1>1, <2>1, <2>2
<1> HIDE DEF t, c
<1>5. new \in [1 .. Len(t) + 1 -> Nat] BY <1>0, <1>2, <1>3, <1>4
<1>6. /\ new[1] = 0 /\ new[Len(t) + 1] = Len(c)
      /\ \A k \in 1 .. m + 1 : new[k] = off[k]
      /\ new[m + 2] = Len(b) + size /\ Len(t) + 1 = m + 2
  BY <1>0, <1>2, <1>3, <1>4
<1> HIDE DEF new
<1>7. \A j, k \in 1 .. Len(t) + 1 : j <= k => new[j] <= new[k]
  <2> SUFFICES ASSUME NEW j \in 1 .. m + 2, NEW k \in 1 .. m + 2, j <= k PROVE new[j] <= new[k]
    BY <1>6
  <2>1. CASE k \in 1 .. m + 1 BY <1>2, <1>3, <1>6, <2>1
  <2>2. CASE k = m + 2 /\ j = m + 2 BY <1>0, <1>4, <1>6, <2>2
  <2>3. CASE k = m + 2 /\ j \in 1 .. m + 1
    <3>1. m + 1 \in 1 .. m + 1 /\ j <= m + 1 BY <1>3, <2>3
    <3>2. off[j] <= off[m + 1] /\ off[j] \in Nat BY <1>2, <2>3, <3>1
    <3> QED BY <1>0, <1>2, <1>4, <1>6, <2>3, <3>2
  <2> QED BY <1>3, <2>1, <2>2, <2>3
<1>8. ASSUME NEW k \in 1 .. Len(t)
      PROVE  /\ new[k + 1] = new[k] + t[k].size
             /\ \A n \in 1 .. t[k].size : c[new[k] + n] = t[k].id
  <2>1. CASE k = m + 1
    <3>1. t[k].size = size /\ t[k].id = id /\ new[k] = Len(b) /\ new[k + 1] = Len(b) + size
      BY <1>0, <1>2, <1>3, <1>6, <2>1
    <3> QED BY <1>4, <3>1
  <2>2. CASE k \in 1 .. m
    <3>1. t[k] = q[k] /\ new[k] = off[k] /\ new[k + 1] = off[k + 1] BY <1>3, <1>6, <2>2
    <3>2. off[k + 1] = off[k] + q[k].size /\ \A n \in 1 .. q[k].size : b[off[k] + n] = q[k].id
      BY <1>2, <2>2
    <3>3. q[k].size \in Nat /\ off[k] \in Nat /\ off[k + 1] <= Len(b)
      <4>1. q[k] \in Ops BY <2>2, ElementOfSeq
      <4>2. k \in 1 .. m + 1 /\ k + 1 \in 1 .. m + 1 /\ m + 1 \in 1 .. m + 1 /\ k + 1 <= m + 1
        BY <1>3, <2>2
      <4>3. off[k + 1] <= off[m + 1] BY <1>2, <4>2
      <4> QED BY <1>2, <4>1, <4>2, <4>3, ConstantsAssumption DEF Ops
    <3>4. ASSUME NEW n \in 1 .. q[k].size PROVE c[off[k] + n] = q[k].id
      <4> DEFINE o == off[k]
                 z == q[k].size
      <4>1. o \in Nat /\ z \in Nat /\ o + z <= Len(b) /\ n \in 1 .. z BY <3>2, <3>3
      <4> HIDE DEF o, z
      <4>2. o + n \in 1 .. Len(b) BY <1>4, <4>1
      <4>3. c[o + n] = b[o + n] BY <1>4, <4>2
      <4> QED BY <3>2, <4>3 DEF o
    <3> QED BY <3>1, <3>2, <3>4
  <2> QED BY <1>3, <2>1, <2>2
<1>9. Laid(t, c) BY <1>5, <1>6, <1>7, <1>8 DEF Laid
<1> QED BY <1>9 DEF t, c, op, d

\* The first write is sent: its bytes are the datagram, and the others remain.
LEMMA LaidHead ==
    ASSUME NEW q \in Seq(Ops), NEW b \in Seq(Nat), Laid(q, b), q # <<>>
    PROVE  LET op == Head(q)
               rest == SubSeq(b, op.size + 1, Len(b))
           IN  /\ op \in Ops
               /\ SubSeq(b, 1, op.size) = Datagram(op.id, op.size)
               /\ rest \in Seq(Nat) /\ Laid(Tail(q), rest)
<1> DEFINE op == Head(q)
           size == op.size
           m == Len(q)
           rest == SubSeq(b, op.size + 1, Len(b))
           t == Tail(q)
<1>1. m \in Nat \ {0} /\ Len(b) \in Nat BY EmptySeq, LenProperties
<1>2. /\ op \in Ops /\ op = q[1] /\ t \in Seq(Ops) /\ Len(t) = m - 1
      /\ \A k \in 1 .. m - 1 : t[k] = q[k + 1]
  BY HeadTailProperties
<1> HIDE DEF op, t
<1>3. size \in Nat /\ op.id \in Nat BY <1>2, ConstantsAssumption DEF Ops
<1>4. PICK off \in [1 .. m + 1 -> Nat] :
        /\ off[1] = 0 /\ off[m + 1] = Len(b)
        /\ \A j, k \in 1 .. m + 1 : j <= k => off[j] <= off[k]
        /\ \A k \in 1 .. m :
              /\ off[k + 1] = off[k] + q[k].size
              /\ \A n \in 1 .. q[k].size : b[off[k] + n] = q[k].id
  BY DEF Laid
<1>5. /\ 1 \in 1 .. m /\ 2 \in 1 .. m + 1 /\ m + 1 \in 1 .. m + 1 /\ 2 <= m + 1 BY <1>1
<1>6. off[2] = size /\ size <= Len(b) /\ \A n \in 1 .. size : b[n] = op.id
  <2>1. off[1 + 1] = off[1] + q[1].size /\ \A n \in 1 .. q[1].size : b[off[1] + n] = q[1].id
    BY <1>4, <1>5
  <2>2. off[2] <= off[m + 1] BY <1>4, <1>5
  <2>3. off[2] = size BY <1>2, <1>3, <1>4, <2>1
  <2>4. ASSUME NEW n \in 1 .. size PROVE b[n] = op.id
    <3>1. b[off[1] + n] = op.id /\ off[1] + n = n BY <1>2, <1>4, <2>1
    <3> QED BY <3>1
  <2> QED BY <1>4, <2>2, <2>3, <2>4
<1> HIDE DEF size
<1>7. SubSeq(b, 1, size) = Datagram(op.id, size)
  <2>1. \A i \in 1 .. size : b[i] \in Nat BY <1>1, <1>3, <1>6
  <2>2. /\ SubSeq(b, 1, size) \in Seq(Nat)
        /\ Len(SubSeq(b, 1, size)) = IF 1 <= size THEN size - 1 + 1 ELSE 0
        /\ \A i \in 1 .. size - 1 + 1 : SubSeq(b, 1, size)[i] = b[1 + i - 1]
    BY <1>3, <2>1, SubSeqProperties
  <2> DEFINE s == SubSeq(b, 1, size)
  <2> HIDE DEF s
  <2>3. s \in Seq(Nat) /\ Len(s) = size /\ \A i \in 1 .. size : s[i] = op.id
    <3>1. s \in Seq(Nat) /\ Len(s) = size BY <1>3, <2>2 DEF s
    <3>2. ASSUME NEW i \in 1 .. size PROVE s[i] = op.id
      <4>1. i \in 1 .. size - 1 + 1 /\ 1 + i - 1 = i BY <1>3
      <4>2. s[i] = b[i] BY <2>2, <4>1 DEF s
      <4> QED BY <1>6, <4>2
    <3> QED BY <3>1, <3>2
  <2>4. s = [i \in 1 .. size |-> s[i]] BY <2>3
  <2>5. s = [i \in 1 .. size |-> op.id] BY <2>3, <2>4
  <2> QED BY <2>5 DEF s, Datagram
<1>8. /\ rest \in Seq(Nat) /\ Len(rest) = Len(b) - size
      /\ \A i \in 1 .. Len(b) - size : rest[i] = b[size + i]
  <2> DEFINE n == Len(b)
             r == SubSeq(b, size + 1, n)
  <2>0. rest = r BY DEF size
  <2>1. n \in Int /\ size + 1 \in Int /\ \A i \in size + 1 .. n : b[i] \in Nat BY <1>1, <1>3
  <2>2. /\ r \in Seq(Nat) /\ Len(r) = IF size + 1 <= n THEN n - (size + 1) + 1 ELSE 0
        /\ \A i \in 1 .. n - (size + 1) + 1 : r[i] = b[(size + 1) + i - 1]
    <3> HIDE DEF n
    <3> QED BY <2>1, SubSeqProperties
  <2> HIDE DEF r
  <2>3. Len(r) = n - size BY <1>1, <1>3, <1>6, <2>2
  <2>4. ASSUME NEW i \in 1 .. n - size PROVE r[i] = b[size + i]
    <3>1. i \in 1 .. n - (size + 1) + 1 /\ (size + 1) + i - 1 = size + i BY <1>1, <1>3
    <3> QED BY <2>2, <3>1
  <2> QED BY <2>0, <2>2, <2>3, <2>4
<1> HIDE DEF rest
<1> DEFINE new == [k \in 1 .. m |-> off[k + 1] - size]
<1>9. \A k \in 1 .. m : k + 1 \in 1 .. m + 1 /\ 2 <= k + 1 BY <1>1
<1>10. \A k \in 1 .. m : off[k + 1] - size \in Nat
  <2> TAKE k \in 1 .. m
  <2>1. off[2] <= off[k + 1] /\ off[k + 1] \in Nat BY <1>4, <1>5, <1>9
  <2> QED BY <1>3, <1>6, <2>1
<1>11. Len(t) + 1 = m BY <1>1, <1>2
<1>12. new \in [1 .. Len(t) + 1 -> Nat] BY <1>10, <1>11
<1>13. \A k \in 1 .. m : new[k] = off[k + 1] - size OBVIOUS
<1> HIDE DEF new
<1>14. new[1] = 0 /\ new[Len(t) + 1] = Len(rest)
  <2>1. 1 \in 1 .. m /\ m \in 1 .. m /\ 1 + 1 = 2 BY <1>1
  <2>2. new[1] = off[2] - size /\ new[m] = off[m + 1] - size BY <1>13, <2>1
  <2> QED BY <1>1, <1>3, <1>4, <1>6, <1>8, <1>11, <2>2
<1>15. \A j, k \in 1 .. Len(t) + 1 : j <= k => new[j] <= new[k]
  <2> SUFFICES ASSUME NEW j \in 1 .. m, NEW k \in 1 .. m, j <= k PROVE new[j] <= new[k]
    BY <1>11
  <2>1. j + 1 \in 1 .. m + 1 /\ k + 1 \in 1 .. m + 1 /\ j + 1 <= k + 1 BY <1>1
  <2>2. off[j + 1] <= off[k + 1] /\ off[j + 1] \in Nat /\ off[k + 1] \in Nat BY <1>4, <2>1
  <2> QED BY <1>3, <1>13, <2>2
<1>16. ASSUME NEW k \in 1 .. Len(t)
       PROVE  /\ new[k + 1] = new[k] + t[k].size
              /\ \A n \in 1 .. t[k].size : rest[new[k] + n] = t[k].id
  <2>1. k \in 1 .. m /\ k + 1 \in 1 .. m /\ t[k] = q[k + 1] /\ (k + 1) + 1 \in 1 .. m + 1
        /\ k + 1 \in 1 .. m + 1 /\ k \in 1 .. m - 1
    BY <1>1, <1>2
  <2>2. /\ new[k] = off[k + 1] - size /\ new[k + 1] = off[(k + 1) + 1] - size
        /\ off[k + 1] \in Nat /\ off[(k + 1) + 1] \in Nat
    BY <1>4, <1>13, <2>1
  <2>3. /\ off[(k + 1) + 1] = off[k + 1] + t[k].size
        /\ \A n \in 1 .. t[k].size : b[off[k + 1] + n] = t[k].id
    BY <1>4, <2>1
  <2>4. t[k].size \in Nat
    <3>1. t[k] \in Ops BY <1>2, ElementOfSeq
    <3> QED BY <3>1, ConstantsAssumption DEF Ops
  <2>5. off[(k + 1) + 1] <= Len(b) /\ off[k + 1] - size \in Nat
    <3>1. (k + 1) + 1 <= m + 1 BY <1>1, <2>1
    <3>2. off[(k + 1) + 1] <= off[m + 1] BY <1>4, <1>5, <2>1, <3>1
    <3> QED BY <1>4, <1>10, <2>1, <3>2
  <2>6. ASSUME NEW n \in 1 .. t[k].size PROVE rest[new[k] + n] = t[k].id
    <3>1. new[k] + n \in 1 .. Len(b) - size /\ size + (new[k] + n) = off[k + 1] + n
      <4> DEFINE o == off[k + 1]
                 z == t[k].size
                 w == new[k]
      <4>1. /\ o \in Nat /\ z \in Nat /\ o + z <= Len(b) /\ n \in 1 .. z
            /\ w = o - size /\ w \in Nat
        BY <2>2, <2>3, <2>4, <2>5
      <4> HIDE DEF o, z, w
      <4>2. w + n \in 1 .. Len(b) - size /\ size + (w + n) = o + n BY <1>1, <1>3, <4>1
      <4> QED BY <4>2 DEF o, w
    <3>2. rest[new[k] + n] = b[off[k + 1] + n] BY <1>8, <3>1
    <3> QED BY <2>3, <3>2
  <2> QED BY <1>3, <2>2, <2>3, <2>4, <2>6
<1>17. Laid(t, rest) BY <1>12, <1>14, <1>15, <1>16 DEF Laid
<1> QED BY <1>2, <1>7, <1>8, <1>17 DEF op, t, rest, size

\* The writes in the queue are the latest ones, in the order of the calls.
QueueOrdered ==
    /\ \A k \in 1 .. Len(queue) : queue[k].id <= sends
    /\ \A j, k \in 1 .. Len(queue) : j < k => queue[j].id < queue[k].id

\* What is on the wire was queued before all that is queued now, but for the first write
\* while its handler runs.
WireBehind ==
    \A i \in 1 .. Len(wire) :
        /\ wire[i] # <<>> /\ wire[i][1] \in Nat /\ wire[i][1] <= sends
        /\ \A k \in 1 .. Len(queue) :
              \/ wire[i][1] < queue[k].id
              \/ k = 1 /\ pc = "on_write" /\ wire[i][1] = queue[1].id

\* The inductive invariant about the wire, for which that about interest is needed to know
\* that the handler's write is still the first of the queue.
WireInv ==
    /\ AwaitInv
    /\ wbuf \in Seq(Nat) /\ wire \in Seq(Seq(Nat)) /\ Laid(queue, wbuf)
    /\ QueueOrdered /\ WireBehind /\ WireIntact

\* The initial state.
LEMMA WireInit == Init => WireInv
<1> SUFFICES ASSUME Init PROVE WireInv OBVIOUS
<1>1. queue = <<>> /\ wbuf = <<>> /\ wire = <<>> BY DEF Init
<1>2. Len(queue) = 0 /\ Len(wire) = 0 /\ wbuf \in Seq(Nat) /\ wire \in Seq(Seq(Nat)) BY <1>1, EmptySeq
<1>3. QueueOrdered /\ WireBehind /\ WireIntact BY <1>2 DEF QueueOrdered, WireBehind, WireIntact
<1> QED BY <1>1, <1>2, <1>3, AwaitInit, LaidEmpty DEF WireInv

\* async_sendto() queues a write.
LEMMA WireSend ==
    ASSUME WireInv, NEW size \in Sizes, async_sendto(size)
    PROVE  WireInv'
<1> DEFINE op == [id |-> sends + 1, size |-> size]
           m == Len(queue)
<1>0. /\ AwaitInv /\ wbuf \in Seq(Nat) /\ wire \in Seq(Seq(Nat)) /\ Laid(queue, wbuf)
      /\ QueueOrdered /\ WireBehind /\ WireIntact
  BY DEF WireInv
<1>1. queue \in Seq(Ops) /\ sends \in Nat BY <1>0 DEF AwaitInv, Ops
<1>2. /\ sends' = sends + 1 /\ queue' = Append(queue, op) /\ wbuf' = wbuf \o Datagram(sends + 1, size)
      /\ wire' = wire /\ pc' = pc
  BY DEF async_sendto
<1>3. AwaitInv' BY <1>0, AwaitStep DEF Next
<1>4. sends + 1 \in Nat /\ size \in Nat /\ op \in Ops /\ op.id = sends + 1
  BY <1>1, ConstantsAssumption DEF Ops
<1>5. Laid(queue', wbuf') BY <1>0, <1>1, <1>2, <1>4, LaidAppend
<1> HIDE DEF op
<1>6. wbuf' \in Seq(Nat) BY <1>0, <1>2, <1>4, DatagramSeq, ConcatProperties
<1>7. /\ m \in Nat /\ Len(queue') = m + 1 /\ queue'[m + 1] = op
      /\ \A k \in 1 .. m : queue'[k] = queue[k]
  BY <1>1, <1>2, <1>4, AppendProperties, LenProperties
<1>8. \A k \in 1 .. m : queue[k].id \in Nat /\ queue[k].id <= sends
  <2>1. \A k \in 1 .. m : queue[k] \in Ops BY <1>1, ElementOfSeq
  <2> QED BY <1>0, <2>1 DEF QueueOrdered, Ops
<1>9. QueueOrdered'
  <2>1. ASSUME NEW k \in 1 .. m + 1 PROVE queue'[k].id <= sends + 1
    <3>1. CASE k = m + 1 BY <1>1, <1>4, <1>7, <3>1
    <3>2. CASE k \in 1 .. m BY <1>1, <1>7, <1>8, <3>2
    <3> QED BY <1>7, <3>1, <3>2
  <2>2. ASSUME NEW j \in 1 .. m + 1, NEW k \in 1 .. m + 1, j < k PROVE queue'[j].id < queue'[k].id
    <3>1. CASE k = m + 1
      <4>1. j \in 1 .. m BY <1>7, <2>2, <3>1
      <4> QED BY <1>1, <1>4, <1>7, <1>8, <3>1, <4>1
    <3>2. CASE k \in 1 .. m
      <4>1. j \in 1 .. m BY <1>7, <2>2, <3>2
      <4> QED BY <1>0, <1>7, <2>2, <3>2, <4>1 DEF QueueOrdered
    <3> QED BY <1>7, <3>1, <3>2
  <2> QED BY <1>2, <1>7, <2>1, <2>2 DEF QueueOrdered
<1>10. WireBehind'
  <2> SUFFICES ASSUME NEW i \in 1 .. Len(wire)
               PROVE  /\ wire[i] # <<>> /\ wire[i][1] \in Nat /\ wire[i][1] <= sends + 1
                      /\ \A k \in 1 .. m + 1 :
                            \/ wire[i][1] < queue'[k].id
                            \/ k = 1 /\ pc = "on_write" /\ wire[i][1] = queue'[1].id
    BY <1>2, <1>7 DEF WireBehind
  <2>1. wire[i] # <<>> /\ wire[i][1] \in Nat /\ wire[i][1] <= sends BY <1>0 DEF WireBehind
  <2>2. ASSUME NEW k \in 1 .. m + 1
        PROVE  wire[i][1] < queue'[k].id \/ (k = 1 /\ pc = "on_write" /\ wire[i][1] = queue'[1].id)
    <3>1. CASE k = m + 1 BY <1>1, <1>4, <1>7, <2>1, <3>1
    <3>2. CASE k \in 1 .. m BY <1>0, <1>7, <3>2 DEF WireBehind
    <3> QED BY <1>7, <3>1, <3>2
  <2>3. wire[i][1] <= sends + 1 BY <1>1, <2>1
  <2> QED BY <2>1, <2>2, <2>3
<1>11. WireIntact' BY <1>0, <1>2 DEF WireIntact
<1> QED BY <1>0, <1>2, <1>3, <1>5, <1>6, <1>9, <1>10, <1>11 DEF WireInv

\* The first datagram is sent, or fails to be.
LEMMA WireSent ==
    ASSUME WireInv, WriteDone
    PROVE  WireInv'
<1> DEFINE op == Head(queue)
           w == Len(wire)
           d == Datagram(op.id, op.size)
<1>0. /\ AwaitInv /\ wbuf \in Seq(Nat) /\ wire \in Seq(Seq(Nat)) /\ Laid(queue, wbuf)
      /\ QueueOrdered /\ WireBehind /\ WireIntact
  BY DEF WireInv
<1>1. queue \in Seq(Ops) /\ sends \in Nat BY <1>0 DEF AwaitInv, Ops
<1>2. /\ queue # <<>> /\ pc = "write" /\ pc' = "on_write" /\ UNCHANGED <<queue, wbuf, sends>>
      /\ wire' = wire \o <<SubSeq(wbuf, 1, op.size)>> \/ wire' = wire \o <<>>
  BY DEF WriteDone, ops
<1>3. AwaitInv' BY <1>0, AwaitStep DEF Next, OnIoEventSteps
<1>4. op \in Ops /\ SubSeq(wbuf, 1, op.size) = d BY <1>0, <1>1, <1>2, LaidHead
<1>5. op = queue[1] /\ 1 \in 1 .. Len(queue) BY <1>1, <1>2, HeadTailProperties, EmptySeq
<1>6. op.id \in Nat /\ op.size \in Nat \ {0} /\ op.size \in Sizes BY <1>4, ConstantsAssumption DEF Ops
<1> HIDE DEF op
<1>7. d \in Seq(Nat) /\ Len(d) = op.size /\ d[1] = op.id /\ d # <<>>
  <2>1. d \in Seq(Nat) /\ Len(d) = op.size /\ \A n \in 1 .. op.size : d[n] = op.id
    BY <1>6, DatagramSeq
  <2>2. 1 \in 1 .. op.size BY <1>6
  <2>3. d # <<>> BY <1>6, <2>1, EmptySeq
  <2> QED BY <2>1, <2>2, <2>3
<1>8. d = Datagram(d[1], Len(d)) BY <1>7
<1>9. w \in Nat BY <1>0, LenProperties
<1> HIDE DEF d
<1>10. \A i \in 1 .. w : wire[i][1] < op.id BY <1>0, <1>2, <1>5 DEF WireBehind
<1>11. QueueOrdered' BY <1>0, <1>2 DEF QueueOrdered
<1>12. CASE wire' = wire \o <<>>
  <2>1. wire' = wire BY <1>0, <1>12, ConcatEmptySeq
  <2>2. WireBehind' BY <1>0, <1>2, <2>1 DEF WireBehind
  <2>3. WireIntact' BY <1>0, <2>1 DEF WireIntact
  <2> QED BY <1>0, <1>2, <1>3, <1>11, <2>1, <2>2, <2>3 DEF WireInv
<1>13. CASE wire' = wire \o <<SubSeq(wbuf, 1, op.size)>>
  <2>1. wire' = Append(wire, d) BY <1>0, <1>4, <1>7, <1>13, AppendIsConcat
  <2>2. /\ wire' \in Seq(Seq(Nat)) /\ Len(wire') = w + 1 /\ wire'[w + 1] = d
        /\ \A i \in 1 .. w : wire'[i] = wire[i]
    BY <1>0, <1>7, <2>1, AppendProperties
  <2>3. WireBehind'
    <3> SUFFICES ASSUME NEW i \in 1 .. w + 1
                 PROVE  /\ wire'[i] # <<>> /\ wire'[i][1] \in Nat /\ wire'[i][1] <= sends
                        /\ \A k \in 1 .. Len(queue) :
                              \/ wire'[i][1] < queue[k].id
                              \/ k = 1 /\ wire'[i][1] = queue[1].id
      BY <1>2, <2>2 DEF WireBehind
    <3>1. CASE i = w + 1
      <4>1. wire'[i] = d BY <2>2, <3>1
      <4>2. op.id <= sends BY <1>0, <1>5 DEF QueueOrdered
      <4>3. ASSUME NEW k \in 1 .. Len(queue) PROVE k = 1 \/ op.id < queue[k].id
        <5>1. k = 1 \/ 1 < k BY LenProperties
        <5> QED BY <1>0, <1>5, <5>1 DEF QueueOrdered
      <4> QED BY <1>5, <1>6, <1>7, <4>1, <4>2, <4>3
    <3>2. CASE i \in 1 .. w BY <1>0, <1>2, <2>2, <3>2 DEF WireBehind
    <3> QED BY <1>9, <3>1, <3>2
  <2>4. WireIntact'
    <3>1. ASSUME NEW i \in 1 .. w + 1
          PROVE  wire'[i] = Datagram(wire'[i][1], Len(wire'[i])) /\ Len(wire'[i]) \in Sizes
      <4>1. CASE i = w + 1 BY <1>6, <1>7, <1>8, <2>2, <4>1
      <4>2. CASE i \in 1 .. w BY <1>0, <2>2, <4>2 DEF WireIntact
      <4> QED BY <1>9, <4>1, <4>2
    <3>2. ASSUME NEW i \in 1 .. w + 1, NEW j \in 1 .. w + 1, i < j PROVE wire'[i][1] < wire'[j][1]
      <4>1. i \in 1 .. w BY <1>9, <3>2
      <4>2. CASE j = w + 1 BY <1>7, <1>10, <2>2, <4>1, <4>2
      <4>3. CASE j \in 1 .. w BY <1>0, <2>2, <3>2, <4>1, <4>3 DEF WireIntact
      <4> QED BY <1>9, <4>2, <4>3
    <3> QED BY <2>2, <3>1, <3>2 DEF WireIntact
  <2> QED BY <1>0, <1>2, <1>3, <1>11, <2>2, <2>3, <2>4 DEF WireInv
<1> QED BY <1>2, <1>12, <1>13 DEF op

\* The handler returns, and the bytes of its write are consumed.
LEMMA WireConsumed ==
    ASSUME WireInv, OnWriteReturn
    PROVE  WireInv'
<1>0. /\ AwaitInv /\ wbuf \in Seq(Nat) /\ wire \in Seq(Seq(Nat)) /\ Laid(queue, wbuf)
      /\ QueueOrdered /\ WireBehind /\ WireIntact
  BY DEF WireInv
<1>1. queue \in Seq(Ops) /\ sends \in Nat BY <1>0 DEF AwaitInv, Ops
<1>2. /\ pc = "on_write" /\ queue' = Tail(queue) /\ UNCHANGED <<sends, wire>>
      /\ wbuf' = SubSeq(wbuf, Head(queue).size + 1, Len(wbuf))
  BY DEF OnWriteReturn
<1>3. queue # <<>> BY <1>0, <1>2 DEF AwaitInv, WriteAwaited
<1>4. AwaitInv' BY <1>0, AwaitStep DEF Next, OnIoEventSteps
<1>5. wbuf' \in Seq(Nat) /\ Laid(queue', wbuf') BY <1>0, <1>1, <1>2, <1>3, LaidHead
<1> DEFINE m == Len(queue)
<1>6. /\ m \in Nat \ {0} /\ Len(queue') = m - 1
      /\ \A k \in 1 .. m - 1 : queue'[k] = queue[k + 1]
  BY <1>1, <1>2, <1>3, HeadTailProperties, EmptySeq, LenProperties
<1>7. \A k \in 1 .. m : queue[k].id \in Nat
  <2>1. \A k \in 1 .. m : queue[k] \in Ops BY <1>1, ElementOfSeq
  <2> QED BY <2>1 DEF Ops
<1>8. \A k \in 1 .. m - 1 : k + 1 \in 1 .. m /\ 1 \in 1 .. m /\ 1 < k + 1 BY <1>6
<1>9. QueueOrdered'
  <2>1. \A k \in 1 .. m - 1 : queue'[k].id <= sends BY <1>0, <1>6, <1>8 DEF QueueOrdered
  <2>2. ASSUME NEW j \in 1 .. m - 1, NEW k \in 1 .. m - 1, j < k PROVE queue'[j].id < queue'[k].id
    <3>1. j + 1 < k + 1 BY <1>6, <2>2
    <3>2. queue[j + 1].id < queue[k + 1].id BY <1>0, <1>8, <3>1 DEF QueueOrdered
    <3> QED BY <1>6, <3>2
  <2> QED BY <1>2, <1>6, <2>1, <2>2 DEF QueueOrdered
<1>10. WireBehind'
  <2> SUFFICES ASSUME NEW i \in 1 .. Len(wire)
               PROVE  /\ wire[i] # <<>> /\ wire[i][1] \in Nat /\ wire[i][1] <= sends
                      /\ \A k \in 1 .. m - 1 : wire[i][1] < queue'[k].id
    BY <1>2, <1>6 DEF WireBehind
  <2>1. ASSUME NEW k \in 1 .. m - 1 PROVE wire[i][1] < queue'[k].id
    <3>1. queue[1].id < queue[k + 1].id BY <1>0, <1>8 DEF QueueOrdered
    <3>2. wire[i][1] < queue[k + 1].id \/ (k + 1 = 1 /\ wire[i][1] = queue[1].id)
      BY <1>0, <1>8 DEF WireBehind
    <3>3. k + 1 # 1 BY <1>8
    <3> QED BY <1>6, <3>2, <3>3
  <2> QED BY <1>0, <2>1 DEF WireBehind
<1>11. WireIntact' BY <1>0, <1>2 DEF WireIntact
<1> QED BY <1>0, <1>2, <1>4, <1>5, <1>9, <1>10, <1>11 DEF WireInv

\* Every step.
LEMMA WireStep == WireInv /\ [Next]_vars => WireInv'
<1> SUFFICES ASSUME WireInv, [Next]_vars PROVE WireInv' OBVIOUS
<1>1. ASSUME UNCHANGED <<queue, wbuf, sends, wire>>, pc # "on_write" \/ pc' = pc PROVE WireInv'
  <2>1. AwaitInv' BY AwaitStep DEF WireInv
  <2>2. QueueOrdered' BY <1>1 DEF WireInv, QueueOrdered
  <2>3. WireBehind' BY <1>1 DEF WireInv, WireBehind
  <2>4. WireIntact' BY <1>1 DEF WireInv, WireIntact
  <2> QED BY <1>1, <2>1, <2>2, <2>3, <2>4 DEF WireInv
<1>2. ASSUME NEW size \in Sizes, async_sendto(size) PROVE WireInv' BY <1>2, WireSend
<1>3. CASE WriteDone BY <1>3, WireSent
<1>4. CASE OnWriteReturn BY <1>4, WireConsumed
<1>5. CASE async_recvfrom BY <1>1, <1>5 DEF async_recvfrom
<1>6. ASSUME NEW evs \in SUBSET {"Read", "Write"}, OnIoEvent(evs) PROVE WireInv'
  BY <1>1, <1>6 DEF OnIoEvent, ops
<1>7. CASE ReadNothing \/ ReadBlocks \/ ReadDone \/ OnReadReturn
  BY <1>1, <1>7 DEF ReadNothing, ReadBlocks, ReadDone, OnReadReturn, ops
<1>8. CASE WriteNothing \/ WriteBlocks \/ Cycle \/ Commit
  BY <1>1, <1>8 DEF WriteNothing, WriteBlocks, Cycle, Commit, ops
<1>9. CASE UNCHANGED vars BY <1>1, <1>9 DEF vars
<1> QED BY <1>2, <1>3, <1>4, <1>5, <1>6, <1>7, <1>8, <1>9 DEF Next, OnIoEventSteps

\* The bytes in wbuf_ are the datagrams of the queue.
LEMMA LaidInBounds ==
    ASSUME NEW q \in Seq(Ops), NEW b \in Seq(Nat), Laid(q, b)
    PROVE  \E at \in [1 .. Len(q) + 1 -> 0 .. Len(b)] :
              /\ at[1] = 0 /\ at[Len(q) + 1] = Len(b)
              /\ \A k \in 1 .. Len(q) :
                    /\ at[k + 1] = at[k] + q[k].size
                    /\ \A n \in 1 .. q[k].size : b[at[k] + n] = q[k].id
<1> DEFINE m == Len(q)
<1>1. m \in Nat /\ Len(b) \in Nat BY LenProperties
<1>2. PICK off \in [1 .. m + 1 -> Nat] :
        /\ off[1] = 0 /\ off[m + 1] = Len(b)
        /\ \A j, k \in 1 .. m + 1 : j <= k => off[j] <= off[k]
        /\ \A k \in 1 .. m :
              /\ off[k + 1] = off[k] + q[k].size
              /\ \A n \in 1 .. q[k].size : b[off[k] + n] = q[k].id
  BY DEF Laid
<1>3. ASSUME NEW k \in 1 .. m + 1 PROVE off[k] \in 0 .. Len(b)
  <2>1. m + 1 \in 1 .. m + 1 /\ k <= m + 1 BY <1>1
  <2>2. off[k] <= off[m + 1] /\ off[k] \in Nat BY <1>2, <2>1
  <2> QED BY <1>1, <1>2, <2>2
<1>4. off \in [1 .. m + 1 -> 0 .. Len(b)] BY <1>2, <1>3
<1> QED BY <1>2, <1>4

\* Every datagram on the wire is whole, is one that was sent, and comes after all those that
\* were sent before it, and wbuf_ holds just the datagrams of the queue, whatever fails and
\* whatever the handlers queue.
THEOREM DatagramsStayIntact == Spec => []DatagramsIntact
<1>1. ASSUME WireInv PROVE DatagramsIntact
  <2>1. queue \in Seq(Ops) BY <1>1 DEF WireInv, AwaitInv, Ops
  <2>2. wbuf \in Seq(Nat) /\ Laid(queue, wbuf) /\ WireIntact BY <1>1 DEF WireInv
  <2> QED BY <2>1, <2>2, LaidInBounds DEF DatagramsIntact
<1> QED BY <1>1, WireInit, WireStep, PTL DEF Spec
=============================================================================
