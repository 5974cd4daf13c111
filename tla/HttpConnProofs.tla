--------------------------- MODULE HttpConnProofs ---------------------------
(***************************************************************************)
(* Proofs about HttpConn for every set of connections, every number of     *)
(* requests and every size of a response: the deferred disposal of a       *)
(* connection, the requests that its parser sees, and the responses that   *)
(* it writes.                                                              *)
(***************************************************************************)
EXTENDS HttpConn, SequenceTheorems, FiniteSetTheorems, FunctionTheorems, TLAPS

-----------------------------------------------------------------------------
(* The disposer's inductive invariant *)

HandlerPCs == {"timeout", "read", "parse", "message", "error", "flush", "unlock"}

\* The values of the variables of the disposer and of the reactor's thread.
TypeOK ==
    /\ life \in [Conns -> {"none", "alive", "deleted"}]
    /\ locks \in [Conns -> Nat]
    /\ dispose \in [Conns -> BOOLEAN]
    /\ disconnects \in [Conns -> Nat]
    /\ disposing \in Seq(Conns)
    /\ armed \in [Conns -> BOOLEAN]
    /\ pc \in {"idle", "accept", "crashed"} \cup HandlerPCs
    /\ pc \in HandlerPCs => cur \in Conns

\* A handler of connection c is running, and holds its lock.
Handling(c) == pc \in HandlerPCs /\ cur = c

\* Connection c is in dispose_now().
InDispose(c) == \E k \in 1 .. Len(disposing) : disposing[k] = c

\* The lock of a connection is held by its handler or, for ever, by dispose_now(), and
\* never by both; the callback is called on entry to dispose_now(); a connection is
\* marked for disposal only while it is locked.
Disposal(c) ==
    /\ ~(InDispose(c) /\ Handling(c))
    /\ InDispose(c) \/ Handling(c) \/ armed[c] => life[c] = "alive"
    /\ disconnects[c] = IF InDispose(c) \/ life[c] = "deleted" THEN 1 ELSE 0
    /\ life[c] = "none" => locks[c] = 0 /\ ~dispose[c]
    /\ life[c] = "alive" => /\ locks[c] = IF InDispose(c) \/ Handling(c) THEN 1 ELSE 0
                            /\ dispose[c] => locks[c] = 1

\* dispose_now() is not entered twice for one connection.
DisposingOnce == \A j, k \in 1 .. Len(disposing) : disposing[j] = disposing[k] => j = k

Inv ==
    /\ TypeOK
    /\ \A c \in Conns : Disposal(c)
    /\ DisposingOnce
-----------------------------------------------------------------------------
(* The stack of dispose_now() *)

\* Entering dispose_now() adds the connection to those that are being disposed of.
LEMMA EnterStack ==
    ASSUME disposing \in Seq(Conns), NEW c \in Conns, disposing' = Append(disposing, c)
    PROVE  /\ disposing' \in Seq(Conns)
           /\ \A d \in Conns : InDispose(d)' <=> InDispose(d) \/ d = c
           /\ DisposingOnce /\ ~InDispose(c) => DisposingOnce'
<1> DEFINE n == Len(disposing)
<1>1. /\ disposing' \in Seq(Conns) /\ Len(disposing') = n + 1 /\ n \in Nat
      /\ \A k \in 1 .. n : disposing'[k] = disposing[k]
      /\ disposing'[n + 1] = c
  BY AppendProperties, LenProperties
<1> HIDE DEF n
<1>2. ASSUME NEW d \in Conns PROVE InDispose(d)' <=> InDispose(d) \/ d = c
  <2>1. ASSUME InDispose(d)' PROVE InDispose(d) \/ d = c
    <3>1. PICK k \in 1 .. n + 1 : disposing'[k] = d BY <1>1, <2>1 DEF InDispose
    <3>2. CASE k = n + 1 BY <1>1, <3>1, <3>2
    <3>3. CASE k \in 1 .. n BY <1>1, <3>1, <3>3 DEF InDispose, n
    <3> QED BY <1>1, <3>2, <3>3
  <2>2. ASSUME InDispose(d) PROVE InDispose(d)'
    <3>1. PICK k \in 1 .. n : disposing[k] = d BY <2>2 DEF InDispose, n
    <3>2. k \in 1 .. n + 1 /\ disposing'[k] = d BY <1>1, <3>1
    <3> QED BY <1>1, <3>2 DEF InDispose
  <2>3. ASSUME d = c PROVE InDispose(d)'
    <3>1. n + 1 \in 1 .. Len(disposing') BY <1>1
    <3> QED BY <1>1, <2>3, <3>1 DEF InDispose
  <2> QED BY <2>1, <2>2, <2>3
<1>3. ASSUME DisposingOnce, ~InDispose(c) PROVE DisposingOnce'
  <2> SUFFICES ASSUME NEW j \in 1 .. n + 1, NEW k \in 1 .. n + 1, disposing'[j] = disposing'[k]
               PROVE  j = k
    BY <1>1 DEF DisposingOnce
  <2>1. \A i \in 1 .. n : disposing[i] # c BY <1>3 DEF InDispose, n
  <2>2. CASE j = n + 1 /\ k = n + 1 BY <2>2
  <2>3. CASE j = n + 1 /\ k \in 1 .. n BY <1>1, <2>1, <2>3
  <2>4. CASE j \in 1 .. n /\ k = n + 1 BY <1>1, <2>1, <2>4
  <2>5. CASE j \in 1 .. n /\ k \in 1 .. n
    <3>1. disposing[j] = disposing[k] BY <1>1, <2>5
    <3> QED BY <1>3, <2>5, <3>1 DEF DisposingOnce, n
  <2> QED BY <1>1, <2>2, <2>3, <2>4, <2>5
<1> QED BY <1>1, <1>2, <1>3

\* Leaving it removes the innermost one, and no other.
LEMMA LeaveStack ==
    ASSUME disposing \in Seq(Conns), DisposingOnce, disposing # << >>,
           disposing' = Front(disposing)
    PROVE  /\ disposing' \in Seq(Conns) /\ Last(disposing) \in Conns /\ InDispose(Last(disposing))
           /\ \A d \in Conns : InDispose(d)' <=> InDispose(d) /\ d # Last(disposing)
           /\ DisposingOnce'
<1> DEFINE n == Len(disposing)
<1>1. n \in Nat /\ n > 0 /\ \A k \in 1 .. n : disposing[k] \in Conns
  BY LenProperties, EmptySeq, ElementOfSeq
<1>2. /\ disposing' \in Seq(Conns) /\ Len(disposing') = n - 1
      /\ \A k \in 1 .. n - 1 : disposing'[k] = disposing[k]
  <2>1. disposing' = SubSeq(disposing, 1, n - 1) BY DEF Front
  <2>2. \A k \in 1 .. n - 1 : disposing[k] \in Conns BY <1>1
  <2>3. n - 1 \in Int /\ n - 1 - 1 + 1 = n - 1 BY <1>1
  <2> HIDE DEF n
  <2>4. /\ SubSeq(disposing, 1, n - 1) \in Seq(Conns)
        /\ Len(SubSeq(disposing, 1, n - 1)) = IF 1 <= n - 1 THEN (n - 1) - 1 + 1 ELSE 0
        /\ \A k \in 1 .. (n - 1) - 1 + 1 : SubSeq(disposing, 1, n - 1)[k] = disposing[1 + k - 1]
    BY <2>2, <2>3, SubSeqProperties
  <2> QED BY <1>1, <2>1, <2>4
<1>3. Last(disposing) = disposing[n] BY DEF Last
<1>4. \A j, k \in 1 .. n : disposing[j] = disposing[k] => j = k BY DEF DisposingOnce
<1>5. InDispose(Last(disposing)) BY <1>1, <1>3 DEF InDispose
<1>6. ASSUME NEW d \in Conns PROVE InDispose(d)' <=> InDispose(d) /\ d # Last(disposing)
  <2>1. ASSUME InDispose(d)' PROVE InDispose(d) /\ d # Last(disposing)
    <3>1. PICK k \in 1 .. n - 1 : disposing'[k] = d BY <1>2, <2>1 DEF InDispose
    <3>2. k \in 1 .. n /\ k # n /\ disposing[k] = d BY <1>1, <1>2, <3>1
    <3> QED BY <1>1, <1>3, <1>4, <3>2 DEF InDispose
  <2>2. ASSUME InDispose(d), d # Last(disposing) PROVE InDispose(d)'
    <3>1. PICK k \in 1 .. n : disposing[k] = d BY <2>2 DEF InDispose
    <3>2. k # n BY <1>3, <2>2, <3>1
    <3>3. k \in 1 .. n - 1 BY <1>1, <3>1, <3>2
    <3> QED BY <1>2, <3>1, <3>3 DEF InDispose
  <2> QED BY <2>1, <2>2
<1>7. DisposingOnce'
  <2> SUFFICES ASSUME NEW j \in 1 .. n - 1, NEW k \in 1 .. n - 1, disposing'[j] = disposing'[k]
               PROVE  j = k
    BY <1>2 DEF DisposingOnce
  <2>1. j \in 1 .. n /\ k \in 1 .. n /\ disposing[j] = disposing[k] BY <1>1, <1>2
  <2> QED BY <1>4, <2>1
<1> QED BY <1>1, <1>2, <1>3, <1>5, <1>6, <1>7

-----------------------------------------------------------------------------
(* Every step preserves the invariant *)

\* There are no connections initially.
LEMMA InvInit == Init => Inv
<1> SUFFICES ASSUME Init PROVE Inv OBVIOUS
<1>1. disposing \in Seq(Conns) /\ Len(disposing) = 0 BY EmptySeq DEF Init
<1>2. TypeOK BY <1>1 DEF Init, TypeOK, HandlerPCs
<1>3. \A c \in Conns : ~InDispose(c) /\ ~Handling(c)
  BY <1>1 DEF Init, InDispose, Handling, HandlerPCs
<1>4. DisposingOnce BY <1>1 DEF DisposingOnce
<1>5. \A c \in Conns : Disposal(c) BY <1>3 DEF Init, Disposal
<1> QED BY <1>2, <1>4, <1>5 DEF Inv

\* A step of a handler or of a peer that leaves the disposer alone.
LEMMA InvQuiet ==
    ASSUME Inv, UNCHANGED disposer,
           armed' = armed \/ (pc \in HandlerPCs /\ armed' = [armed EXCEPT ![cur] = TRUE]),
           \/ pc' = pc /\ cur' = cur
           \/ pc \in HandlerPCs /\ pc' \in HandlerPCs /\ cur' = cur
           \/ pc \in {"idle", "accept"} /\ pc' \in {"idle", "crashed"}
    PROVE  Inv'
<1>1. UNCHANGED <<life, locks, dispose, disconnects, disposing>> BY DEF disposer
<1>2. \A c \in Conns : (Handling(c)' <=> Handling(c)) /\ (InDispose(c)' <=> InDispose(c))
  BY <1>1 DEF Handling, InDispose, HandlerPCs
<1>3. TypeOK'
  <2>1. pc' \in {"idle", "accept", "crashed"} \cup HandlerPCs /\ (pc' \in HandlerPCs => cur' \in Conns)
    BY DEF Inv, TypeOK, HandlerPCs
  <2>2. armed' \in [Conns -> BOOLEAN] BY DEF Inv, TypeOK
  <2> QED BY <1>1, <2>1, <2>2 DEF Inv, TypeOK
<1>4. \A c \in Conns : armed'[c] => armed[c] \/ Handling(c)
  BY DEF Inv, TypeOK, Handling
<1>5. ASSUME NEW c \in Conns PROVE Disposal(c)'
  <2>1. Disposal(c) BY DEF Inv
  <2> QED BY <1>1, <1>2, <1>4, <2>1 DEF Disposal
<1>6. DisposingOnce' BY <1>1 DEF Inv, DisposingOnce
<1> QED BY <1>3, <1>5, <1>6 DEF Inv

\* dispose() called by the handler of the connection only marks it: the lock is held.
LEMMA InvHandlerDisposes ==
    ASSUME Inv, pc \in HandlerPCs, Dispose(cur), life' = life, armed' = armed,
           pc' = "unlock", cur' = cur
    PROVE  Inv'
<1>1. cur \in Conns /\ Handling(cur) BY DEF Inv, TypeOK, Handling
<1>2. life[cur] = "alive" /\ locks[cur] = 1 BY <1>1 DEF Inv, Disposal
<1>3. /\ dispose' = [dispose EXCEPT ![cur] = TRUE]
      /\ locks' = locks /\ disposing' = disposing /\ disconnects' = disconnects
  BY <1>2 DEF Dispose
<1>4. \A c \in Conns : (Handling(c)' <=> Handling(c)) /\ (InDispose(c)' <=> InDispose(c))
  BY <1>3 DEF Handling, InDispose, HandlerPCs
<1>5. TypeOK' BY <1>1, <1>3 DEF Inv, TypeOK, HandlerPCs
<1>6. ASSUME NEW c \in Conns PROVE Disposal(c)'
  <2>1. Disposal(c) BY DEF Inv
  <2>2. CASE c = cur BY <1>1, <1>2, <1>3, <1>4, <2>1, <2>2 DEF Disposal, Inv, TypeOK
  <2>3. CASE c # cur
    <3>1. dispose'[c] = dispose[c] BY <1>3, <2>3 DEF Inv, TypeOK
    <3> QED BY <1>3, <1>4, <2>1, <3>1 DEF Disposal
  <2> QED BY <2>2, <2>3
<1>7. DisposingOnce' BY <1>3 DEF Inv, DisposingOnce
<1> QED BY <1>5, <1>6, <1>7 DEF Inv

\* dispose_now() is entered for a connection that is alive and not in it already, when no
\* handler of the connection remains.
LEMMA InvEnter ==
    ASSUME Inv, NEW c \in Conns, life[c] = "alive", ~InDispose(c), EnterDispose(c),
           life' = life, armed' = armed, dispose' = dispose,
           pc' \in {"idle", "accept", "crashed"} \cup HandlerPCs,
           pc' \in HandlerPCs => cur' \in Conns,
           ~Handling(c)',
           \A d \in Conns \ {c} : Handling(d)' <=> Handling(d)
    PROVE  Inv'
<1>1. /\ locks' = [locks EXCEPT ![c] = 1]
      /\ disposing' = Append(disposing, c)
      /\ disconnects' = [disconnects EXCEPT ![c] = disconnects[c] + 1]
  BY DEF EnterDispose
<1>2. /\ disposing' \in Seq(Conns) /\ DisposingOnce'
      /\ \A d \in Conns : InDispose(d)' <=> InDispose(d) \/ d = c
  <2>1. disposing \in Seq(Conns) /\ DisposingOnce BY DEF Inv, TypeOK
  <2> QED BY <1>1, <2>1, EnterStack
<1>3. disconnects[c] = 0 /\ disconnects'[c] = 1 /\ locks'[c] = 1
  BY <1>1 DEF Inv, TypeOK, Disposal
<1>4. TypeOK'
  <2>1. locks' \in [Conns -> Nat] /\ disconnects' \in [Conns -> Nat] BY <1>1, <1>3 DEF Inv, TypeOK
  <2> QED BY <1>2, <2>1 DEF Inv, TypeOK
<1>5. ASSUME NEW d \in Conns PROVE Disposal(d)'
  <2>1. Disposal(d) BY DEF Inv
  <2>2. CASE d = c BY <1>2, <1>3, <2>1, <2>2 DEF Disposal
  <2>3. CASE d # c
    <3>1. locks'[d] = locks[d] /\ disconnects'[d] = disconnects[d] BY <1>1, <2>3 DEF Inv, TypeOK
    <3> QED BY <1>2, <2>1, <2>3, <3>1 DEF Disposal
  <2> QED BY <2>2, <2>3
<1> QED BY <1>2, <1>4, <1>5 DEF Inv

\* The end of a handler's lock: the connection is disposed of now, if it was asked for.
LEMMA InvUnlock ==
    ASSUME Inv, Unlock
    PROVE  Inv'
<1>1. /\ pc = "unlock" /\ pc' = "idle" /\ cur \in Conns /\ Handling(cur)
      /\ life' = life /\ dispose' = dispose /\ armed' = armed
  BY DEF Unlock, Inv, TypeOK, Handling, HandlerPCs
<1>2. life[cur] = "alive" /\ locks[cur] = 1 /\ ~InDispose(cur) BY <1>1 DEF Inv, Disposal
<1>3. \A d \in Conns : ~Handling(d)' /\ (Handling(d) <=> d = cur)
  BY <1>1 DEF Handling, HandlerPCs
<1>4. CASE dispose[cur]
  <2>1. EnterDispose(cur) BY <1>2, <1>4 DEF Unlock
  <2>2. PICK c \in Conns : c = cur BY <1>1
  <2> QED BY <1>1, <1>2, <1>3, <2>1, <2>2, InvEnter DEF HandlerPCs
<1>5. CASE ~dispose[cur]
  <2>1. locks' = [locks EXCEPT ![cur] = locks[cur] - 1] /\ disposing' = disposing /\ disconnects' = disconnects
    BY <1>5 DEF Unlock
  <2>2. locks'[cur] = 0 BY <1>1, <1>2, <2>1 DEF Inv, TypeOK
  <2>3. TypeOK' BY <1>1, <1>2, <2>1 DEF Inv, TypeOK, HandlerPCs
  <2>4. \A d \in Conns : InDispose(d)' <=> InDispose(d) BY <2>1 DEF InDispose
  <2>5. ASSUME NEW d \in Conns PROVE Disposal(d)'
    <3>1. Disposal(d) BY DEF Inv
    <3>2. CASE d = cur BY <1>1, <1>2, <1>3, <1>5, <2>1, <2>2, <2>4, <3>1, <3>2 DEF Disposal
    <3>3. CASE d # cur
      <4>1. locks'[d] = locks[d] BY <2>1, <3>3 DEF Inv, TypeOK
      <4> QED BY <1>1, <1>3, <2>1, <2>4, <3>1, <3>3, <4>1 DEF Disposal
    <3> QED BY <3>2, <3>3
  <2>6. DisposingOnce' BY <2>1 DEF Inv, DisposingOnce
  <2> QED BY <2>3, <2>5, <2>6 DEF Inv
<1> QED BY <1>4, <1>5

\* on_http_disconnect() returns and the object is deleted.
LEMMA InvDisposeReturn ==
    ASSUME Inv, DisposeReturn
    PROVE  Inv'
<1> DEFINE c == Last(disposing)
<1>1. /\ disposing # << >> /\ disposing' = Front(disposing)
      /\ life' = [life EXCEPT ![c] = "deleted"] /\ armed' = [armed EXCEPT ![c] = FALSE]
      /\ UNCHANGED <<locks, dispose, disconnects, pc, cur>>
  BY DEF DisposeReturn, control
<1>2. /\ disposing' \in Seq(Conns) /\ c \in Conns /\ InDispose(c) /\ DisposingOnce'
      /\ \A d \in Conns : InDispose(d)' <=> InDispose(d) /\ d # c
  <2>1. disposing \in Seq(Conns) /\ DisposingOnce BY DEF Inv, TypeOK
  <2> QED BY <1>1, <2>1, LeaveStack
<1> HIDE DEF c
<1>3. TypeOK' BY <1>1, <1>2 DEF Inv, TypeOK
<1>4. ASSUME NEW d \in Conns PROVE Disposal(d)'
  <2>1. Disposal(d) /\ (Handling(d)' <=> Handling(d)) BY <1>1 DEF Inv, Handling
  <2>2. CASE d = c
    <3>1. life'[d] = "deleted" /\ ~armed'[d] BY <1>1, <2>2 DEF Inv, TypeOK
    <3> QED BY <1>1, <1>2, <2>1, <2>2, <3>1 DEF Disposal
  <2>3. CASE d # c
    <3>1. life'[d] = life[d] /\ armed'[d] = armed[d] BY <1>1, <2>3 DEF Inv, TypeOK
    <3> QED BY <1>1, <1>2, <2>1, <2>3, <3>1 DEF Disposal
  <2> QED BY <2>2, <2>3
<1> QED BY <1>2, <1>3, <1>4 DEF Inv

\* User code disposes of a connection: at once if it is not locked, else it is marked.
LEMMA InvUserDisposes ==
    ASSUME Inv, NEW c \in Conns, UserDisposes(c)
    PROVE  Inv'
<1>1. /\ life[c] = "alive" /\ Dispose(c) /\ UNCHANGED <<life, pc, cur, armed>>
  BY DEF UserDisposes, control
<1>2. CASE locks[c] = 0
  <2>1. ~InDispose(c) /\ ~Handling(c) BY <1>1, <1>2 DEF Inv, Disposal
  <2>2. EnterDispose(c) /\ dispose' = dispose BY <1>1, <1>2 DEF Dispose
  <2>3. \A d \in Conns : Handling(d)' <=> Handling(d) BY <1>1 DEF Handling
  <2>4. pc' \in {"idle", "accept", "crashed"} \cup HandlerPCs /\ (pc' \in HandlerPCs => cur' \in Conns)
    BY <1>1 DEF Inv, TypeOK
  <2> QED BY <1>1, <2>1, <2>2, <2>3, <2>4, InvEnter
<1>3. CASE locks[c] # 0
  <2>1. /\ dispose' = [dispose EXCEPT ![c] = TRUE]
        /\ locks' = locks /\ disposing' = disposing /\ disconnects' = disconnects
    BY <1>1, <1>3 DEF Dispose
  <2>2. locks[c] = 1 BY <1>1, <1>3 DEF Inv, Disposal
  <2>3. \A d \in Conns : (Handling(d)' <=> Handling(d)) /\ (InDispose(d)' <=> InDispose(d))
    BY <1>1, <2>1 DEF Handling, InDispose
  <2>4. TypeOK' BY <1>1, <2>1 DEF Inv, TypeOK
  <2>5. ASSUME NEW d \in Conns PROVE Disposal(d)'
    <3>1. Disposal(d) BY DEF Inv
    <3>2. CASE d = c BY <1>1, <2>1, <2>2, <2>3, <3>1, <3>2 DEF Disposal
    <3>3. CASE d # c
      <4>1. dispose'[d] = dispose[d] BY <2>1, <3>3 DEF Inv, TypeOK
      <4> QED BY <1>1, <2>1, <2>3, <3>1, <4>1 DEF Disposal
    <3> QED BY <3>2, <3>3
  <2>6. DisposingOnce' BY <2>1 DEF Inv, DisposingOnce
  <2> QED BY <2>4, <2>5, <2>6 DEF Inv
<1> QED BY <1>2, <1>3

\* The server is destroyed: connections without a lock are deleted, the others marked.
LEMMA InvDestroyServ ==
    ASSUME Inv, DestroyServ
    PROVE  Inv'
<1> DEFINE free == {c \in Conns : life[c] = "alive" /\ locks[c] = 0}
           held == {c \in Conns : life[c] = "alive" /\ locks[c] > 0}
<1>1. /\ life' = [c \in Conns |-> IF c \in free THEN "deleted" ELSE life[c]]
      /\ locks' = [c \in Conns |-> IF c \in free THEN 1 ELSE locks[c]]
      /\ disconnects' = [c \in Conns |-> disconnects[c] + IF c \in free THEN 1 ELSE 0]
      /\ dispose' = [c \in Conns |-> dispose[c] \/ c \in held]
      /\ armed' = [c \in Conns |-> armed[c] /\ c \notin free]
      /\ UNCHANGED <<disposing, pc, cur>>
  BY DEF DestroyServ
<1>2. TypeOK'
  <2>1. life' \in [Conns -> {"none", "alive", "deleted"}] BY <1>1 DEF Inv, TypeOK
  <2>2. locks' \in [Conns -> Nat] BY <1>1 DEF Inv, TypeOK
  <2>3. disconnects' \in [Conns -> Nat]
    <3>1. \A c \in Conns : disconnects[c] + (IF c \in free THEN 1 ELSE 0) \in Nat
      BY DEF Inv, TypeOK
    <3> QED BY <1>1, <3>1
  <2>4. dispose' \in [Conns -> BOOLEAN] /\ armed' \in [Conns -> BOOLEAN] BY <1>1
  <2> QED BY <1>1, <2>1, <2>2, <2>3, <2>4 DEF Inv, TypeOK
<1>3. ASSUME NEW c \in Conns PROVE Disposal(c)'
  <2>1. Disposal(c) /\ (Handling(c)' <=> Handling(c)) /\ (InDispose(c)' <=> InDispose(c))
    BY <1>1 DEF Inv, Handling, InDispose
  <2>2. CASE c \in free
    <3>1. /\ life'[c] = "deleted" /\ disconnects'[c] = disconnects[c] + 1 /\ ~armed'[c]
          /\ life[c] = "alive" /\ locks[c] = 0
      BY <1>1, <2>2
    <3> QED BY <2>1, <3>1 DEF Disposal
  <2>3. CASE c \notin free
    <3>1. /\ life'[c] = life[c] /\ disconnects'[c] = disconnects[c] /\ locks'[c] = locks[c]
          /\ armed'[c] => armed[c]
          /\ dispose'[c] => dispose[c] \/ (life[c] = "alive" /\ locks[c] > 0)
      BY <1>1, <2>3 DEF Inv, TypeOK
    <3> QED BY <2>1, <3>1 DEF Disposal
  <2> QED BY <2>2, <2>3
<1>4. DisposingOnce' BY <1>1 DEF Inv, DisposingOnce
<1> QED BY <1>2, <1>3, <1>4 DEF Inv

\* A new connection.
LEMMA InvAccept ==
    ASSUME Inv, NEW c \in Conns, Accept(c)
    PROVE  Inv'
<1>1. /\ pc = "idle" /\ pc' = "accept" /\ life[c] = "none"
      /\ life' = [life EXCEPT ![c] = "alive"] /\ armed' = [armed EXCEPT ![c] = TRUE]
      /\ UNCHANGED <<locks, dispose, disposing, disconnects>>
  BY DEF Accept, Idle
<1>2. TypeOK' BY <1>1 DEF Inv, TypeOK, HandlerPCs
<1>3. ASSUME NEW d \in Conns PROVE Disposal(d)'
  <2>1. Disposal(d) /\ ~Handling(d) /\ ~Handling(d)' /\ (InDispose(d)' <=> InDispose(d))
    BY <1>1 DEF Inv, Handling, InDispose, HandlerPCs
  <2>2. CASE d = c
    <3>1. life'[d] = "alive" BY <1>1, <2>2 DEF Inv, TypeOK
    <3> QED BY <1>1, <2>1, <2>2, <3>1 DEF Disposal
  <2>3. CASE d # c
    <3>1. life'[d] = life[d] /\ armed'[d] = armed[d] BY <1>1, <2>3 DEF Inv, TypeOK
    <3> QED BY <1>1, <2>1, <3>1 DEF Disposal
  <2> QED BY <2>2, <2>3
<1>4. DisposingOnce' BY <1>1 DEF Inv, DisposingOnce
<1> QED BY <1>2, <1>3, <1>4 DEF Inv

\* The reactor calls a handler, which locks its connection.
LEMMA InvCall ==
    ASSUME Inv, NEW c \in Conns, Timeout(c) \/ OnIoEvent(c)
    PROVE  Inv'
<1>1. /\ pc = "idle" /\ disposing = << >> /\ pc' \in HandlerPCs /\ cur' = c
      /\ locks' = [locks EXCEPT ![c] = locks[c] + 1]
      /\ armed' \in {armed, [armed EXCEPT ![c] = FALSE]}
      /\ UNCHANGED <<life, dispose, disposing, disconnects>>
  BY DEF Timeout, OnIoEvent, Idle, HandlerPCs
<1>2. \A d \in Conns : ~InDispose(d) /\ ~InDispose(d)' /\ ~Handling(d)
  <2>1. Len(disposing) = 0 BY <1>1, EmptySeq
  <2> QED BY <1>1, <2>1 DEF InDispose, Handling, HandlerPCs
<1>3. life[c] = "alive"
  BY DEF Timeout, OnIoEvent, Readable, Inv, Disposal
<1>4. locks[c] = 0 /\ locks'[c] = 1 /\ ~dispose[c]
  BY <1>1, <1>2, <1>3 DEF Inv, TypeOK, Disposal
<1>5. TypeOK'
  <2>1. locks' \in [Conns -> Nat] BY <1>1, <1>4 DEF Inv, TypeOK
  <2>2. armed' \in [Conns -> BOOLEAN] BY <1>1 DEF Inv, TypeOK
  <2> QED BY <1>1, <2>1, <2>2 DEF Inv, TypeOK
<1>6. ASSUME NEW d \in Conns PROVE Disposal(d)'
  <2>1. Disposal(d) /\ (Handling(d)' <=> d = c) BY <1>1 DEF Inv, Handling
  <2>2. CASE d = c BY <1>1, <1>2, <1>3, <1>4, <2>1, <2>2 DEF Disposal
  <2>3. CASE d # c
    <3>1. locks'[d] = locks[d] /\ armed'[d] = armed[d] BY <1>1, <2>3 DEF Inv, TypeOK
    <3> QED BY <1>1, <1>2, <2>1, <2>3, <3>1 DEF Disposal
  <2> QED BY <2>2, <2>3
<1>7. DisposingOnce' BY <1>1 DEF Inv, DisposingOnce
<1> QED BY <1>5, <1>6, <1>7 DEF Inv

\* Every step preserves the invariant.
LEMMA InvNext == Inv /\ [Next]_vars => Inv'
<1> SUFFICES ASSUME Inv, [Next]_vars PROVE Inv' OBVIOUS
<1>1. CASE \E c \in Conns : PeerSends(c) \/ PeerCloses(c)
  BY <1>1, InvQuiet DEF PeerSends, PeerCloses, control
<1>2. CASE \E c \in Conns : UserDisposes(c) BY <1>2, InvUserDisposes
<1>3. CASE \E c \in Conns : Accept(c) BY <1>3, InvAccept
<1>4. CASE \E c \in Conns : Timeout(c) \/ OnIoEvent(c) BY <1>4, InvCall
<1>5. CASE DestroyServ BY <1>5, InvDestroyServ
<1>6. CASE AcceptReturn BY <1>6, InvQuiet DEF AcceptReturn
<1>7. CASE TimeoutReturn \/ ErrorReturn
  BY <1>7, InvHandlerDisposes DEF TimeoutReturn, ErrorReturn, HandlerPCs
<1>8. CASE Unlock BY <1>8, InvUnlock
<1>9. CASE DisposeReturn BY <1>9, InvDisposeReturn
<1>10. CASE ReadSome \/ ReadEof \/ ReadThrows
  BY <1>10, InvQuiet DEF ReadSome, ReadEof, ReadThrows, HandlerPCs
<1>11. CASE ParseThrows \/ ParseHead \/ ParseHeadThrows \/ ParseEnd
  BY <1>11, InvQuiet DEF ParseThrows, ParseHead, ParseHeadThrows, ParseEnd, control, HandlerPCs
<1>12. CASE ParseReturn
  <2>1. CASE atEof
    BY <1>12, <2>1, InvHandlerDisposes DEF ParseReturn, HandlerPCs
  <2>2. CASE ~atEof
    BY <1>12, <2>2, InvQuiet DEF ParseReturn, HandlerPCs, disposer
  <2> QED BY <2>1, <2>2
<1>13. CASE MessageReturn \/ MessageThrows
  BY <1>13, InvQuiet DEF MessageReturn, MessageThrows, HandlerPCs
<1>14. CASE FlushNothing \/ FlushSome \/ FlushThrows
  BY <1>14, InvQuiet DEF FlushNothing, FlushSome, FlushThrows, HandlerPCs
<1>15. CASE FlushAll
  <2>1. CASE ~inProgress[cur] /\ ~keep[cur]
    BY <1>15, <2>1, InvHandlerDisposes DEF FlushAll, HandlerPCs
  <2>2. CASE ~(~inProgress[cur] /\ ~keep[cur])
    BY <1>15, <2>2, InvQuiet DEF FlushAll, HandlerPCs, disposer
  <2> QED BY <2>1, <2>2
<1>16. CASE UNCHANGED vars BY <1>16, InvQuiet DEF vars, control
<1>17. CASE \E c \in Conns : AcceptCrashes(c) BY <1>17, InvQuiet DEF AcceptCrashes, Idle
<1> QED BY <1>1, <1>2, <1>3, <1>4, <1>5, <1>6, <1>7, <1>8, <1>9, <1>10, <1>11, <1>12, <1>13, <1>14,
           <1>15, <1>16, <1>17 DEF Next, Handler

\* The disposer's invariant holds throughout.
THEOREM Invariance == Spec => []Inv
BY InvInit, InvNext, PTL DEF Spec

-----------------------------------------------------------------------------
(* What follows from it *)

\* However user code disposes of connections or destroys the server in callbacks, no
\* handler runs on a connection that is gone.
THEOREM UseAfterDeleteFreedom == Spec => []NoUseAfterDelete
<1>1. Inv => NoUseAfterDelete
  <2> SUFFICES ASSUME Inv PROVE NoUseAfterDelete OBVIOUS
  <2>1. ASSUME pc \notin {"idle", "accept", "crashed"} PROVE life[cur] = "alive"
    <3>1. cur \in Conns /\ Handling(cur) BY <2>1 DEF Inv, TypeOK, Handling
    <3> QED BY <3>1 DEF Inv, Disposal
  <2>2. ASSUME NEW k \in 1 .. Len(disposing) PROVE life[disposing[k]] = "alive"
    <3>1. disposing[k] \in Conns BY ElementOfSeq DEF Inv, TypeOK
    <3>2. InDispose(disposing[k]) BY DEF InDispose
    <3> QED BY <3>1, <3>2 DEF Inv, Disposal
  <2> QED BY <2>1, <2>2 DEF NoUseAfterDelete
<1> QED BY <1>1, Invariance, PTL

\* on_http_disconnect() is called once, and a deferred disposal is carried out.
THEOREM DisposalIsOnce == Spec => []DisposedOnce
<1>1. Inv => DisposedOnce
  <2> SUFFICES ASSUME Inv PROVE DisposedOnce OBVIOUS
  <2>1. \A c \in Conns : disconnects[c] <= 1 /\ (life[c] = "deleted" => disconnects[c] = 1)
    BY DEF Inv, Disposal
  <2>2. ASSUME Idle, NEW c \in Conns, life[c] = "alive" PROVE ~dispose[c] /\ locks[c] = 0
    <3>1. Len(disposing) = 0 BY <2>2, EmptySeq DEF Idle
    <3>2. ~InDispose(c) /\ ~Handling(c) BY <2>2, <3>1 DEF Idle, InDispose, Handling, HandlerPCs
    <3> QED BY <2>2, <3>2 DEF Inv, Disposal
  <2> QED BY <2>1, <2>2 DEF DisposedOnce, Inv, DisposingOnce
<1> QED BY <1>1, Invariance, PTL

-----------------------------------------------------------------------------
(* Counting requests *)

Pieces == {"head", "tail", "close", "bad"}

\* The end of a request is at one place of a sequence of pieces after another.
LEMMA EndsConcat ==
    ASSUME NEW s \in Seq(Pieces), NEW t \in Seq(Pieces)
    PROVE  Ends(s \o t) = Ends(s) + Ends(t) /\ Ends(s) \in Nat /\ Ends(t) \in Nat
<1> DEFINE u == s \o t
           m == Len(s)
           n == Len(t)
           E == {"tail", "close"}
           A == {k \in 1 .. m : s[k] \in E}
           B == {k \in 1 .. n : t[k] \in E}
           C == {k \in m + 1 .. m + n : t[k - m] \in E}
<1>1. /\ m \in Nat /\ n \in Nat /\ Len(u) = m + n
      /\ \A i \in 1 .. m + n : u[i] = IF i <= m THEN s[i] ELSE t[i - m]
  BY ConcatProperties, LenProperties
<1> HIDE DEF u, m, n
<1>2. IsFiniteSet(A) /\ IsFiniteSet(B) /\ Cardinality(A) \in Nat /\ Cardinality(B) \in Nat
  <2>1. IsFiniteSet(1 .. m) /\ IsFiniteSet(1 .. n) BY <1>1, FS_Interval
  <2>2. A \in SUBSET (1 .. m) /\ B \in SUBSET (1 .. n) OBVIOUS
  <2> HIDE DEF A, B
  <2>3. IsFiniteSet(A) /\ IsFiniteSet(B) BY <2>1, <2>2, FS_Subset
  <2> QED BY <2>3, FS_CardinalityType
<1>3. IsFiniteSet(C) /\ Cardinality(C) = Cardinality(B)
  <2> DEFINE f == [k \in B |-> k + m]
  <2>1. f \in [B -> C]
    <3>1. ASSUME NEW k \in B PROVE k + m \in C
      <4>1. k + m \in m + 1 .. m + n /\ (k + m) - m = k BY <1>1
      <4> QED BY <4>1
    <3> QED BY <3>1
  <2>2. \A j, k \in B : f[j] = f[k] => j = k BY <1>1
  <2>3. ASSUME NEW c \in C PROVE \E k \in B : f[k] = c
    <3>1. c - m \in 1 .. n /\ (c - m) + m = c BY <1>1
    <3>2. c - m \in B BY <3>1
    <3> QED BY <3>1, <3>2
  <2> HIDE DEF f, B, C
  <2>4. f \in Bijection(B, C) BY <2>1, <2>2, <2>3, Fun_IsBij
  <2>5. ExistsBijection(B, C) BY <2>4 DEF ExistsBijection
  <2> QED BY <1>2, <2>5, FS_Bijection
<1>4. {k \in 1 .. Len(u) : u[k] \in E} = A \cup C /\ A \cap C = {}
  <2>1. ASSUME NEW k PROVE k \in {i \in 1 .. m + n : u[i] \in E} <=> k \in A \cup C
    <3>1. CASE k \in 1 .. m BY <1>1, <3>1
    <3>2. CASE k \in m + 1 .. m + n BY <1>1, <3>2
    <3>3. CASE k \notin 1 .. m /\ k \notin m + 1 .. m + n BY <1>1, <3>3
    <3> QED BY <3>1, <3>2, <3>3
  <2>2. A \cap C = {} BY <1>1
  <2> HIDE DEF A, C, E
  <2> QED BY <1>1, <2>1, <2>2
<1>5. Cardinality(A \cup C) = Cardinality(A) + Cardinality(B)
  <2> HIDE DEF A, B, C
  <2>1. Cardinality(A \cup C) = Cardinality(A) + Cardinality(C) - Cardinality({})
    BY <1>2, <1>3, <1>4, FS_Union
  <2>2. Cardinality({}) = 0 BY FS_EmptySet
  <2> QED BY <1>2, <1>3, <2>1, <2>2
<1>6. Ends(u) = Cardinality(A \cup C) BY <1>4 DEF Ends
<1>7. Ends(s) = Cardinality(A) /\ Ends(t) = Cardinality(B) BY DEF Ends, m, n
<1> HIDE DEF A, B, C
<1> QED BY <1>2, <1>5, <1>6, <1>7 DEF u

\* None, and one piece.
LEMMA EndsSmall ==
    /\ Ends(<<>>) = 0
    /\ \A x : Ends(<<x>>) = IF x \in {"tail", "close"} THEN 1 ELSE 0
<1>1. Ends(<<>>) = 0
  <2>1. Len(<<>>) = 0 BY EmptySeq
  <2>2. {k \in 1 .. Len(<<>>) : <<>>[k] \in {"tail", "close"}} = {} BY <2>1
  <2> QED BY <2>2, FS_EmptySet DEF Ends
<1>2. ASSUME NEW x PROVE Ends(<<x>>) = IF x \in {"tail", "close"} THEN 1 ELSE 0
  <2> DEFINE S == {k \in 1 .. Len(<<x>>) : <<x>>[k] \in {"tail", "close"}}
  <2>1. Len(<<x>>) = 1 /\ <<x>>[1] = x OBVIOUS
  <2>2. CASE x \in {"tail", "close"}
    <3>1. S = {1} BY <2>1, <2>2
    <3>2. Cardinality(S) = 1 BY <3>1, FS_Singleton
    <3> QED BY <2>2, <3>2 DEF Ends
  <2>3. CASE x \notin {"tail", "close"}
    <3>1. S = {} BY <2>1, <2>3
    <3>2. Cardinality(S) = 0 BY <3>1, FS_EmptySet
    <3> QED BY <2>3, <3>2 DEF Ends
  <2> QED BY <2>2, <2>3
<1> QED BY <1>1, <1>2

\* What is behind the first p pieces.
Behind(s, p) == SubSeq(s, p + 1, Len(s))

\* The pieces before and behind a place.
LEMMA EndsSplit ==
    ASSUME NEW s \in Seq(Pieces), NEW p \in 0 .. Len(s)
    PROVE  /\ SubSeq(s, 1, p) \in Seq(Pieces) /\ Behind(s, p) \in Seq(Pieces)
           /\ Ends(s) = Ends(SubSeq(s, 1, p)) + Ends(Behind(s, p))
<1> DEFINE n == Len(s)
           pre == SubSeq(s, 1, p)
           post == SubSeq(s, p + 1, n)
<1>1. n \in Nat /\ p \in Nat /\ p <= n /\ \A i \in 1 .. n : s[i] \in Pieces BY LenProperties, ElementOfSeq
<1>2. pre \in Seq(Pieces)
  <2>1. \A i \in 1 .. p : s[i] \in Pieces BY <1>1
  <2> QED BY <1>1, <2>1, SubSeqProperties
<1>3. post \in Seq(Pieces)
  <2>1. n \in Int /\ p + 1 \in Int /\ \A i \in p + 1 .. n : s[i] \in Pieces BY <1>1
  <2> HIDE DEF n
  <2> QED BY <2>1, SubSeqProperties
<1>4. pre \o post = s
  <2>1. 1 \in 1 .. n + 1 /\ p \in 1 - 1 .. n /\ n \in p .. n BY <1>1
  <2>2. pre \o post = SubSeq(s, 1, n) BY <2>1, ConcatAdjacentSubSeq
  <2> QED BY <2>2, SubSeqFull
<1> HIDE DEF pre, post, n
<1>5. Ends(s) = Ends(pre) + Ends(post) BY <1>2, <1>3, <1>4, EndsConcat
<1> QED BY <1>2, <1>3, <1>5 DEF pre, post, n, Behind

\* Pieces are added behind a place.
LEMMA EndsAdded ==
    ASSUME NEW s \in Seq(Pieces), NEW t \in Seq(Pieces), NEW p \in 0 .. Len(s)
    PROVE  /\ p \in 0 .. Len(s \o t)
           /\ Ends(Behind(s \o t, p)) = Ends(Behind(s, p)) + Ends(t)
<1>1. Len(s) \in Nat /\ Len(t) \in Nat /\ s \o t \in Seq(Pieces) /\ Len(s \o t) = Len(s) + Len(t)
  BY LenProperties, ConcatProperties
<1>2. p \in 0 .. Len(s \o t) BY <1>1
<1>3. SubSeq(s \o t, 1, p) = SubSeq(s, 1, p)
  <2>1. CASE p = 0
    <3>1. SubSeq(s \o t, 1, 0) = <<>> /\ SubSeq(s, 1, 0) = <<>> BY SubSeqEmpty
    <3> QED BY <2>1, <3>1
  <2>2. CASE p # 0
    <3>1. 1 \in 1 .. Len(s) /\ p \in 1 .. Len(s) BY <1>1, <2>2
    <3> QED BY <3>1, SubSeqOfConcat1
  <2> QED BY <2>1, <2>2
<1> DEFINE u == s \o t
           pre == SubSeq(s, 1, p)
<1>4. pre \in Seq(Pieces) /\ Behind(s, p) \in Seq(Pieces) /\ Ends(s) = Ends(pre) + Ends(Behind(s, p))
  BY EndsSplit
<1>5. u \in Seq(Pieces) /\ p \in 0 .. Len(u) /\ SubSeq(u, 1, p) = pre /\ Ends(u) = Ends(s) + Ends(t)
  BY <1>1, <1>2, <1>3, EndsConcat
<1> HIDE DEF u, pre
<1>6. Behind(u, p) \in Seq(Pieces) /\ Ends(u) = Ends(pre) + Ends(Behind(u, p)) BY <1>5, EndsSplit
<1>7. /\ Ends(pre) \in Nat /\ Ends(t) \in Nat
      /\ Ends(Behind(u, p)) \in Nat /\ Ends(Behind(s, p)) \in Nat
  BY <1>4, <1>6, EndsConcat
<1>8. Ends(Behind(u, p)) = Ends(Behind(s, p)) + Ends(t)
  <2> DEFINE a == Ends(pre)
             b == Ends(Behind(u, p))
             c == Ends(Behind(s, p))
             d == Ends(t)
  <2>1. a \in Nat /\ b \in Nat /\ c \in Nat /\ d \in Nat /\ a + b = (a + c) + d
    BY <1>4, <1>5, <1>6, <1>7
  <2> HIDE DEF a, b, c, d
  <2>2. b = c + d BY <2>1
  <2> QED BY <2>2 DEF b, c, d
<1> QED BY <1>2, <1>8 DEF u

\* The next piece is parsed.
LEMMA EndsNext ==
    ASSUME NEW s \in Seq(Pieces), NEW p \in 0 .. Len(s), p < Len(s)
    PROVE  /\ p + 1 \in 0 .. Len(s)
           /\ Ends(Behind(s, p)) =
                 (IF s[p + 1] \in {"tail", "close"} THEN 1 ELSE 0) + Ends(Behind(s, p + 1))
<1>1. Len(s) \in Nat /\ p + 1 \in 1 .. Len(s) /\ Len(s) \in p + 1 .. Len(s) /\ p + 1 \in 0 .. Len(s)
  BY LenProperties
<1>2. SubSeq(s, p + 1, Len(s)) = <<s[p + 1]>> \o SubSeq(s, (p + 1) + 1, Len(s))
  BY <1>1, SubSeqRecursiveFirst
<1>3. Behind(s, p) = <<s[p + 1]>> \o Behind(s, p + 1) BY <1>2 DEF Behind
<1>4. s[p + 1] \in Pieces BY <1>1, ElementOfSeq
<1>5. <<s[p + 1]>> \in Seq(Pieces) BY <1>4
<1>6. Behind(s, p + 1) \in Seq(Pieces) BY <1>1, EndsSplit
<1>7. Ends(Behind(s, p)) = Ends(<<s[p + 1]>>) + Ends(Behind(s, p + 1))
  BY <1>3, <1>5, <1>6, EndsConcat
<1> QED BY <1>1, <1>7, EndsSmall

-----------------------------------------------------------------------------
(* The requests of a connection *)

\* The values of the parser's and the peer's variables.
ReqTyped ==
    /\ in \in [Conns -> Seq(Pieces)] /\ rx \in [Conns -> Seq(Pieces)] /\ sent \in [Conns -> Seq(Pieces)]
    /\ parsed \in [Conns -> Nat] /\ handled \in [Conns -> Nat] /\ error \in [Conns -> BOOLEAN]

\* Nothing was sent to a connection that is not there yet.
Fresh(c) ==
    life[c] = "none" => /\ in[c] = <<>> /\ rx[c] = <<>> /\ sent[c] = <<>>
                        /\ parsed[c] = 0 /\ handled[c] = 0

\* The requests that were sent are handled, in the buffer behind what is parsed, or not yet
\* read; this ends with an error of the parser.
Balanced(c) ==
    life[c] = "alive" /\ ~error[c] =>
        /\ parsed[c] \in 0 .. Len(in[c])
        /\ handled[c] + Ends(Behind(in[c], parsed[c])) + Ends(rx[c]) = Ends(sent[c])

\* The inductive invariant about requests; that of the disposer says that the handler's
\* connection is there.
ReqInv == Inv /\ ReqTyped /\ \A c \in Conns : Fresh(c) /\ Balanced(c)

\* The variables of connection c that the invariant is about.
SameConn(c) ==
    /\ life'[c] = life[c] /\ in'[c] = in[c] /\ rx'[c] = rx[c] /\ sent'[c] = sent[c]
    /\ parsed'[c] = parsed[c] /\ handled'[c] = handled[c] /\ error'[c] = error[c]

\* A step that leaves each connection as it was, or deletes it.
LEMMA ReqSame ==
    ASSUME ReqInv, NEW c \in Conns, SameConn(c) \/ life'[c] = "deleted"
    PROVE  Fresh(c)' /\ Balanced(c)'
<1>1. Fresh(c) /\ Balanced(c) BY DEF ReqInv
<1>2. CASE SameConn(c)
  <2>1. Fresh(c)' BY <1>1, <1>2 DEF Fresh, SameConn
  <2>2. Balanced(c)' BY <1>1, <1>2 DEF Balanced, SameConn
  <2> QED BY <2>1, <2>2
<1>3. CASE life'[c] = "deleted" BY <1>3 DEF Fresh, Balanced
<1> QED BY <1>2, <1>3

\* A step that changes none of these variables, for instance one of the disposer.
LEMMA ReqQuiet ==
    ASSUME ReqInv, Inv', UNCHANGED <<life, parser, peer>>
    PROVE  ReqInv'
<1>1. UNCHANGED <<life, in, rx, sent, parsed, handled, error>> BY DEF parser, peer
<1>2. ReqTyped' BY <1>1 DEF ReqInv, ReqTyped
<1>3. \A c \in Conns : SameConn(c) BY <1>1 DEF SameConn
<1> QED BY <1>2, <1>3, ReqSame DEF ReqInv

\* The peer sends a piece.
LEMMA ReqSends ==
    ASSUME ReqInv, Inv', NEW c \in Conns, PeerSends(c)
    PROVE  ReqInv'
<1>0. ReqTyped BY DEF ReqInv
<1>1. PICK piece \in Following(sent[c]) :
        sent' = [sent EXCEPT ![c] = Append(@, piece)] /\ rx' = [rx EXCEPT ![c] = Append(@, piece)]
  BY DEF PeerSends
<1>2. piece \in Pieces BY <1>1 DEF Following, Pieces
<1>3. life[c] = "alive" /\ UNCHANGED <<life, in, parsed, handled, error>>
  BY DEF PeerSends, disposer, parser
<1> DEFINE S == sent[c]
           R == rx[c]
<1>4. S \in Seq(Pieces) /\ R \in Seq(Pieces) /\ sent'[c] = Append(S, piece) /\ rx'[c] = Append(R, piece)
  BY <1>0, <1>1 DEF ReqTyped
<1> HIDE DEF S, R
<1>5. /\ Append(S, piece) \in Seq(Pieces) /\ Append(R, piece) \in Seq(Pieces)
      /\ Append(S, piece) = S \o <<piece>> /\ Append(R, piece) = R \o <<piece>>
  BY <1>2, <1>4, AppendProperties, AppendIsConcat
<1>6. ReqTyped' BY <1>0, <1>1, <1>3, <1>5 DEF ReqTyped, S, R
<1>7. \A d \in Conns \ {c} : SameConn(d) BY <1>0, <1>1, <1>3 DEF SameConn, ReqTyped
<1>8. Fresh(c)' BY <1>3 DEF Fresh
<1>9. Balanced(c)'
  <2>1. <<piece>> \in Seq(Pieces) BY <1>2
  <2>2. /\ Ends(sent'[c]) = Ends(S) + Ends(<<piece>>) /\ Ends(rx'[c]) = Ends(R) + Ends(<<piece>>)
        /\ Ends(S) \in Nat /\ Ends(R) \in Nat /\ Ends(<<piece>>) \in Nat
    BY <1>4, <1>5, <2>1, EndsConcat
  <2> SUFFICES ASSUME ~error[c]
               PROVE  /\ parsed[c] \in 0 .. Len(in[c])
                      /\ handled[c] + Ends(Behind(in[c], parsed[c])) + Ends(rx'[c]) = Ends(sent'[c])
    BY <1>3 DEF Balanced
  <2>3. /\ parsed[c] \in 0 .. Len(in[c])
        /\ handled[c] + Ends(Behind(in[c], parsed[c])) + Ends(R) = Ends(S)
    BY <1>3 DEF ReqInv, Balanced, S, R
  <2>4. handled[c] \in Nat /\ Ends(Behind(in[c], parsed[c])) \in Nat
    <3>1. in[c] \in Seq(Pieces) /\ handled[c] \in Nat BY <1>0 DEF ReqTyped
    <3>2. Behind(in[c], parsed[c]) \in Seq(Pieces) BY <2>3, <3>1, EndsSplit
    <3> QED BY <3>1, <3>2, EndsConcat
  <2> DEFINE h == handled[c]
             b == Ends(Behind(in[c], parsed[c]))
             r == Ends(R)
             e == Ends(<<piece>>)
  <2>5. h \in Nat /\ b \in Nat /\ r \in Nat /\ e \in Nat /\ h + b + r = Ends(S) BY <2>2, <2>3, <2>4
  <2> HIDE DEF h, b, r, e
  <2>6. h + b + (r + e) = (h + b + r) + e BY <2>5
  <2>7. h + b + (r + e) = Ends(S) + e BY <2>5, <2>6
  <2> QED BY <2>2, <2>3, <2>7 DEF h, b, r, e
<1>10. \A d \in Conns : Fresh(d)' /\ Balanced(d)' BY <1>7, <1>8, <1>9, ReqSame
<1> QED BY <1>6, <1>10 DEF ReqInv

\* Some of what was received, or all of it, is read.
LEMMA ReqReads ==
    ASSUME ReqInv, Inv', cur \in Conns, life[cur] = "alive",
           NEW n \in 0 .. Len(rx[cur]),
           in' = [in EXCEPT ![cur] = @ \o SubSeq(rx[cur], 1, n)],
           rx' = [rx EXCEPT ![cur] = SubSeq(rx[cur], n + 1, Len(rx[cur]))],
           UNCHANGED <<life, sent, parsed, handled, error>>
    PROVE  ReqInv'
<1>0. ReqTyped BY DEF ReqInv
<1>1. PICK c \in Conns : c = cur OBVIOUS
<1> DEFINE R == rx[c]
           I == in[c]
           a == SubSeq(R, 1, n)
           b == Behind(R, n)
           p == parsed[c]
<1>2. R \in Seq(Pieces) /\ I \in Seq(Pieces) /\ n \in 0 .. Len(R) BY <1>0, <1>1 DEF ReqTyped
<1>3. a \in Seq(Pieces) /\ b \in Seq(Pieces) /\ Ends(R) = Ends(a) + Ends(b) BY <1>2, EndsSplit
<1>4. in' = [in EXCEPT ![c] = I \o a] /\ rx' = [rx EXCEPT ![c] = b] BY <1>1 DEF Behind
<1> HIDE DEF R, I, a, b
<1>5. I \o a \in Seq(Pieces) BY <1>2, <1>3, ConcatProperties
<1>6. ReqTyped'
  <2>1. in' \in [Conns -> Seq(Pieces)] BY <1>0, <1>4, <1>5 DEF ReqTyped
  <2>2. rx' \in [Conns -> Seq(Pieces)] BY <1>0, <1>3, <1>4 DEF ReqTyped
  <2> QED BY <1>0, <2>1, <2>2 DEF ReqTyped
<1>7. in'[c] = I \o a /\ rx'[c] = b BY <1>0, <1>4 DEF ReqTyped
<1>8. \A d \in Conns \ {c} : SameConn(d) BY <1>0, <1>4 DEF SameConn, ReqTyped
<1>9. Fresh(c)' BY <1>1 DEF Fresh
<1>10. Balanced(c)'
  <2> SUFFICES ASSUME ~error[c]
               PROVE  /\ p \in 0 .. Len(I \o a)
                      /\ handled[c] + Ends(Behind(I \o a, p)) + Ends(b) = Ends(sent[c])
    BY <1>1, <1>7 DEF Balanced
  <2>1. p \in 0 .. Len(I) /\ handled[c] + Ends(Behind(I, p)) + Ends(R) = Ends(sent[c])
    BY <1>1 DEF ReqInv, Balanced, I, R
  <2>2. p \in 0 .. Len(I \o a) /\ Ends(Behind(I \o a, p)) = Ends(Behind(I, p)) + Ends(a)
    BY <1>2, <1>3, <2>1, EndsAdded
  <2>3. handled[c] \in Nat BY <1>0 DEF ReqTyped
  <2>4. Ends(a) \in Nat /\ Ends(b) \in Nat BY <1>3, EndsConcat
  <2>5. Ends(Behind(I, p)) \in Nat
    <3>1. Behind(I, p) \in Seq(Pieces) BY <1>2, <2>1, EndsSplit
    <3> QED BY <3>1, EndsConcat
  <2> DEFINE h == handled[c]
             x == Ends(Behind(I, p))
             y == Ends(a)
             z == Ends(b)
  <2>6. h \in Nat /\ x \in Nat /\ y \in Nat /\ z \in Nat /\ h + x + (y + z) = Ends(sent[c])
    BY <1>3, <2>1, <2>3, <2>4, <2>5
  <2> HIDE DEF h, x, y, z
  <2>7. h + (x + y) + z = h + x + (y + z) BY <2>6
  <2> QED BY <2>2, <2>6, <2>7 DEF h, x, y, z
<1>11. \A d \in Conns : Fresh(d)' /\ Balanced(d)' BY <1>8, <1>9, <1>10, ReqSame
<1> QED BY <1>6, <1>11 DEF ReqInv

\* The next piece is parsed, and the request handled if it ends there.
LEMMA ReqParses ==
    ASSUME ReqInv, Inv', cur \in Conns, life[cur] = "alive", ~error[cur],
           parsed[cur] < Len(in[cur]), NEW n \in {0, 1},
           n = IF in[cur][parsed[cur] + 1] \in {"tail", "close"} THEN 1 ELSE 0,
           parsed' = [parsed EXCEPT ![cur] = @ + 1],
           handled' = [handled EXCEPT ![cur] = @ + n],
           UNCHANGED <<life, in, rx, sent, error>>
    PROVE  ReqInv'
<1>0. ReqTyped BY DEF ReqInv
<1>1. PICK c \in Conns : c = cur OBVIOUS
<1> DEFINE I == in[c]
           p == parsed[c]
           h == handled[c]
           r == Ends(rx[c])
<1>2. I \in Seq(Pieces) /\ p \in Nat /\ h \in Nat /\ rx[c] \in Seq(Pieces) BY <1>0 DEF ReqTyped
<1>3. p \in 0 .. Len(I) /\ h + Ends(Behind(I, p)) + r = Ends(sent[c])
  BY <1>1 DEF ReqInv, Balanced
<1>4. parsed' = [parsed EXCEPT ![c] = p + 1] /\ handled' = [handled EXCEPT ![c] = h + n] BY <1>1
<1>5. p < Len(I) /\ n = IF I[p + 1] \in {"tail", "close"} THEN 1 ELSE 0 BY <1>1
<1>6. p + 1 \in Nat /\ h + n \in Nat BY <1>2
<1>7. ReqTyped'
  <2> DEFINE q == p + 1
             g == h + n
  <2>1. q \in Nat /\ g \in Nat /\ parsed' = [parsed EXCEPT ![c] = q] /\ handled' = [handled EXCEPT ![c] = g]
    BY <1>4, <1>6
  <2> HIDE DEF q, g
  <2>2. parsed' \in [Conns -> Nat] BY <1>0, <2>1 DEF ReqTyped
  <2>3. handled' \in [Conns -> Nat] BY <1>0, <2>1 DEF ReqTyped
  <2>4. in' = in /\ rx' = rx /\ sent' = sent /\ error' = error OBVIOUS
  <2> QED BY <1>0, <2>2, <2>3, <2>4, Zenon DEF ReqTyped
<1>8. parsed'[c] = p + 1 /\ handled'[c] = h + n BY <1>0, <1>4 DEF ReqTyped
<1>9. \A d \in Conns \ {c} : SameConn(d) BY <1>0, <1>4 DEF SameConn, ReqTyped
<1> HIDE DEF I, p, h, r
<1>10. p + 1 \in 0 .. Len(I) /\ Ends(Behind(I, p)) = n + Ends(Behind(I, p + 1))
  BY <1>2, <1>3, <1>5, EndsNext
<1>11. Ends(Behind(I, p + 1)) \in Nat /\ r \in Nat
  <2>1. Behind(I, p + 1) \in Seq(Pieces) BY <1>2, <1>10, EndsSplit
  <2> QED BY <1>2, <2>1, EndsConcat DEF r
<1>12. (h + n) + Ends(Behind(I, p + 1)) + r = Ends(sent[c])
  <2> DEFINE x == Ends(Behind(I, p + 1))
  <2>1. x \in Nat /\ r \in Nat /\ h \in Nat /\ n \in Nat /\ h + (n + x) + r = Ends(sent[c])
    BY <1>2, <1>3, <1>10, <1>11
  <2> HIDE DEF x
  <2>2. (h + n) + x + r = h + (n + x) + r BY <2>1
  <2> QED BY <2>1, <2>2 DEF x
<1>13. Balanced(c)' BY <1>8, <1>10, <1>12 DEF Balanced, I, r
<1>14. Fresh(c)' BY <1>1 DEF Fresh
<1>15. \A d \in Conns : Fresh(d)' /\ Balanced(d)' BY <1>9, <1>13, <1>14, ReqSame
<1> QED BY <1>7, <1>15 DEF ReqInv

\* The parser fails, and stays in its error state.
LEMMA ReqFails ==
    ASSUME ReqInv, Inv', cur \in Conns, life[cur] = "alive",
           error' = [error EXCEPT ![cur] = TRUE], parsed' = [parsed EXCEPT ![cur] = 0],
           UNCHANGED <<life, in, rx, sent, handled>>
    PROVE  ReqInv'
<1>0. ReqTyped BY DEF ReqInv
<1>1. PICK c \in Conns : c = cur OBVIOUS
<1>2. ReqTyped' BY <1>0 DEF ReqTyped
<1>3. error'[c] /\ life'[c] = "alive" BY <1>0, <1>1 DEF ReqTyped
<1>4. \A d \in Conns \ {c} : SameConn(d) BY <1>0, <1>1 DEF SameConn, ReqTyped
<1>5. Fresh(c)' /\ Balanced(c)' BY <1>3 DEF Fresh, Balanced
<1>6. \A d \in Conns : Fresh(d)' /\ Balanced(d)' BY <1>4, <1>5, ReqSame
<1> QED BY <1>2, <1>6 DEF ReqInv

\* parse() returns, and all that is in the buffer is consumed.
LEMMA ReqConsumes ==
    ASSUME ReqInv, Inv', cur \in Conns, life[cur] = "alive", ~error[cur],
           parsed[cur] = Len(in[cur]),
           in' = [in EXCEPT ![cur] = <<>>], parsed' = [parsed EXCEPT ![cur] = 0],
           UNCHANGED <<life, rx, sent, handled, error>>
    PROVE  ReqInv'
<1>0. ReqTyped BY DEF ReqInv
<1>1. PICK c \in Conns : c = cur OBVIOUS
<1>2. <<>> \in Seq(Pieces) /\ Len(<<>>) = 0 BY EmptySeq
<1>3. ReqTyped' BY <1>0, <1>2 DEF ReqTyped
<1>4. in'[c] = <<>> /\ parsed'[c] = 0 BY <1>0, <1>1 DEF ReqTyped
<1>5. \A d \in Conns \ {c} : SameConn(d) BY <1>0, <1>1 DEF SameConn, ReqTyped
<1>6. Behind(in[c], parsed[c]) = <<>> /\ Behind(<<>>, 0) = <<>>
  <2>1. Len(in[c]) \in Nat BY <1>0, LenProperties DEF ReqTyped
  <2> DEFINE m == Len(in[c])
  <2>2. m \in Int /\ m + 1 \in Int /\ m < m + 1 BY <2>1
  <2>3. 0 + 1 \in Int /\ Len(<<>>) \in Int /\ Len(<<>>) < 0 + 1 BY <1>2
  <2>4. SubSeq(in[c], m + 1, m) = <<>>
    <3> HIDE DEF m
    <3> QED BY <2>2, SubSeqEmpty
  <2> QED BY <1>1, <2>3, <2>4, SubSeqEmpty DEF Behind
<1>7. Balanced(c)'
  <2>1. handled[c] + Ends(Behind(in[c], parsed[c])) + Ends(rx[c]) = Ends(sent[c])
    BY <1>1 DEF ReqInv, Balanced
  <2>2. handled'[c] + Ends(Behind(in'[c], parsed'[c])) + Ends(rx'[c]) = Ends(sent'[c])
    BY <1>4, <1>6, <2>1
  <2>3. parsed'[c] \in 0 .. Len(in'[c]) BY <1>2, <1>4
  <2> QED BY <2>2, <2>3 DEF Balanced
<1>8. Fresh(c)' BY <1>1 DEF Fresh
<1>9. \A d \in Conns : Fresh(d)' /\ Balanced(d)' BY <1>5, <1>7, <1>8, ReqSame
<1> QED BY <1>3, <1>9 DEF ReqInv

\* The initial state: no connection is there yet.
LEMMA ReqInit == Init => ReqInv
<1> SUFFICES ASSUME Init PROVE ReqInv OBVIOUS
<1>1. <<>> \in Seq(Pieces) BY EmptySeq
<1>2. ReqTyped BY <1>1 DEF Init, ReqTyped
<1>3. \A c \in Conns : Fresh(c) /\ Balanced(c) BY DEF Init, Fresh, Balanced
<1> QED BY <1>2, <1>3, InvInit DEF ReqInv

\* Every step.
LEMMA ReqNext == ReqInv /\ [Next]_vars => ReqInv'
<1> SUFFICES ASSUME ReqInv, [Next]_vars PROVE ReqInv' OBVIOUS
<1>0. Inv /\ Inv' /\ ReqTyped BY InvNext DEF ReqInv
<1>1. ASSUME pc \in HandlerPCs PROVE cur \in Conns /\ life[cur] = "alive"
  <2>1. cur \in Conns /\ Handling(cur) BY <1>0, <1>1 DEF Inv, TypeOK, Handling
  <2> QED BY <1>0, <2>1 DEF Inv, Disposal
<1>2. CASE \E c \in Conns : PeerSends(c) BY <1>0, <1>2, ReqSends
<1>3. CASE \E c \in Conns : PeerCloses(c)
  <2>1. UNCHANGED <<life, in, rx, sent, parsed, handled, error>>
    BY <1>3 DEF PeerCloses, disposer, parser
  <2>2. ReqTyped' BY <1>0, <2>1 DEF ReqTyped
  <2>3. \A c \in Conns : SameConn(c) BY <2>1 DEF SameConn
  <2> QED BY <1>0, <2>2, <2>3, ReqSame DEF ReqInv
<1>4. CASE \E c \in Conns : UserDisposes(c) \/ Timeout(c) \/ OnIoEvent(c) \/ AcceptCrashes(c)
  BY <1>0, <1>4, ReqQuiet DEF UserDisposes, Timeout, OnIoEvent, AcceptCrashes, disposer
<1>5. ASSUME NEW c \in Conns, Accept(c) PROVE ReqInv'
  <2>1. /\ life[c] = "none" /\ life' = [life EXCEPT ![c] = "alive"]
        /\ UNCHANGED <<in, rx, sent, parsed, handled, error>>
    BY <1>5 DEF Accept, parser, peer
  <2>2. ReqTyped' BY <1>0, <2>1 DEF ReqTyped
  <2>3. \A d \in Conns \ {c} : SameConn(d) BY <1>0, <2>1 DEF SameConn, Inv, TypeOK
  <2>4. /\ in[c] = <<>> /\ rx[c] = <<>> /\ sent[c] = <<>> /\ parsed[c] = 0 /\ handled[c] = 0
    BY <2>1 DEF ReqInv, Fresh
  <2>5. Ends(<<>>) = 0 /\ Len(<<>>) = 0 BY EndsSmall, EmptySeq
  <2>6. Behind(<<>>, 0) = <<>>
    <3>1. 0 + 1 \in Int /\ Len(<<>>) \in Int /\ Len(<<>>) < 0 + 1 BY <2>5
    <3> QED BY <3>1, SubSeqEmpty DEF Behind
  <2>7. /\ parsed'[c] \in 0 .. Len(in'[c])
        /\ handled'[c] + Ends(Behind(in'[c], parsed'[c])) + Ends(rx'[c]) = Ends(sent'[c])
    BY <2>1, <2>4, <2>5, <2>6
  <2>8. Balanced(c)' BY <2>7 DEF Balanced
  <2>9. life'[c] = "alive" BY <1>0, <2>1 DEF Inv, TypeOK
  <2>10. Fresh(c)' BY <2>9 DEF Fresh
  <2>11. \A d \in Conns : Fresh(d)' /\ Balanced(d)' BY <2>3, <2>8, <2>10, ReqSame
  <2> QED BY <1>0, <2>2, <2>11 DEF ReqInv
<1>6. CASE DestroyServ
  <2> DEFINE free == {c \in Conns : life[c] = "alive" /\ locks[c] = 0}
  <2>1. /\ life' = [c \in Conns |-> IF c \in free THEN "deleted" ELSE life[c]]
        /\ in' = [c \in Conns |-> IF c \in free THEN <<>> ELSE in[c]]
        /\ rx' = [c \in Conns |-> IF c \in free THEN <<>> ELSE rx[c]]
        /\ UNCHANGED <<sent, parsed, handled, error>>
    BY <1>6 DEF DestroyServ
  <2>2. <<>> \in Seq(Pieces) BY EmptySeq
  <2>3. ReqTyped' BY <1>0, <2>1, <2>2 DEF ReqTyped
  <2>4. \A c \in Conns : SameConn(c) \/ life'[c] = "deleted" BY <2>1 DEF SameConn
  <2> QED BY <1>0, <2>3, <2>4, ReqSame DEF ReqInv
<1>7. CASE DisposeReturn
  <2>1. disposing # <<>> BY <1>7 DEF DisposeReturn
  <2>2. PICK c \in Conns : c = Last(disposing)
    <3>1. disposing \in Seq(Conns) BY <1>0 DEF Inv, TypeOK
    <3>2. Len(disposing) \in 1 .. Len(disposing) BY <2>1, <3>1, EmptySeq, LenProperties
    <3>3. disposing[Len(disposing)] \in Conns BY <3>1, <3>2, ElementOfSeq
    <3> QED BY <3>3 DEF Last
  <2>3. /\ life' = [life EXCEPT ![c] = "deleted"] /\ rx' = [rx EXCEPT ![c] = <<>>]
        /\ in' = [in EXCEPT ![c] = <<>>]
        /\ UNCHANGED <<sent, parsed, handled, error>>
    BY <1>7, <2>2 DEF DisposeReturn
  <2>4. <<>> \in Seq(Pieces) BY EmptySeq
  <2>5. ReqTyped' BY <1>0, <2>3, <2>4 DEF ReqTyped
  <2>6. \A d \in Conns : SameConn(d) \/ life'[d] = "deleted"
    BY <1>0, <2>3 DEF SameConn, ReqTyped, Inv, TypeOK
  <2> QED BY <1>0, <2>5, <2>6, ReqSame DEF ReqInv
<1>8. CASE AcceptReturn \/ TimeoutReturn \/ ErrorReturn \/ Unlock
  BY <1>0, <1>8, ReqQuiet DEF AcceptReturn, TimeoutReturn, ErrorReturn, Unlock, disposer
<1>9. CASE ReadSome
  <2>1. cur \in Conns /\ life[cur] = "alive" BY <1>1, <1>9 DEF ReadSome, HandlerPCs
  <2>2. PICK n \in 1 .. Len(rx[cur]) :
          /\ in' = [in EXCEPT ![cur] = @ \o SubSeq(rx[cur], 1, n)]
          /\ rx' = [rx EXCEPT ![cur] = SubSeq(@, n + 1, Len(@))]
    BY <1>9 DEF ReadSome
  <2>3. n \in 0 .. Len(rx[cur]) /\ rx' = [rx EXCEPT ![cur] = SubSeq(rx[cur], n + 1, Len(rx[cur]))]
    BY <2>2
  <2>4. UNCHANGED <<life, sent, parsed, handled, error>> BY <1>9 DEF ReadSome, disposer
  <2> QED BY <1>0, <2>1, <2>2, <2>3, <2>4, ReqReads
<1>10. CASE ReadEof
  <2>1. cur \in Conns /\ life[cur] = "alive" BY <1>1, <1>10 DEF ReadEof, HandlerPCs
  <2>2. in' = [in EXCEPT ![cur] = @ \o rx[cur]] /\ rx' = [rx EXCEPT ![cur] = <<>>]
    BY <1>10 DEF ReadEof
  <2> DEFINE R == rx[cur]
             m == Len(R)
  <2>3. R \in Seq(Pieces) /\ m \in Nat BY <1>0, <2>1, LenProperties DEF ReqTyped
  <2>4. SubSeq(R, 1, m) = R BY <2>3, SubSeqFull
  <2>5. SubSeq(R, m + 1, m) = <<>>
    <3>1. m \in Int /\ m + 1 \in Int /\ m < m + 1 BY <2>3
    <3> HIDE DEF m
    <3> QED BY <3>1, SubSeqEmpty
  <2>6. /\ in' = [in EXCEPT ![cur] = @ \o SubSeq(rx[cur], 1, m)]
        /\ rx' = [rx EXCEPT ![cur] = SubSeq(rx[cur], m + 1, Len(rx[cur]))]
        /\ m \in 0 .. Len(rx[cur])
    <3>1. m \in 0 .. Len(rx[cur]) BY <2>3
    <3>2. in' = [in EXCEPT ![cur] = in[cur] \o SubSeq(rx[cur], 1, m)] BY <2>2, <2>4
    <3>3. rx' = [rx EXCEPT ![cur] = SubSeq(rx[cur], m + 1, Len(rx[cur]))] BY <2>2, <2>5, Zenon
    <3> QED BY <3>1, <3>2, <3>3, Zenon
  <2>7. UNCHANGED <<life, sent, parsed, handled, error>> BY <1>10 DEF ReadEof, disposer
  <2> HIDE DEF m
  <2> QED BY <1>0, <2>1, <2>6, <2>7, ReqReads
<1>11. CASE ReadThrows BY <1>0, <1>11, ReqQuiet DEF ReadThrows, disposer
<1>12. CASE ParseThrows \/ ParseHeadThrows \/ MessageThrows
  <2>1. cur \in Conns /\ life[cur] = "alive"
    BY <1>1, <1>12 DEF ParseThrows, ParseHeadThrows, MessageThrows, HandlerPCs
  <2>2. /\ error' = [error EXCEPT ![cur] = TRUE] /\ parsed' = [parsed EXCEPT ![cur] = 0]
        /\ UNCHANGED <<life, in, rx, sent, handled>>
    BY <1>12 DEF ParseThrows, ParseHeadThrows, MessageThrows, disposer, peer
  <2> QED BY <1>0, <2>1, <2>2, ReqFails
<1>13. CASE ParseHead
  <2>1. cur \in Conns /\ life[cur] = "alive" BY <1>1, <1>13 DEF ParseHead, HandlerPCs
  <2>2. /\ ~error[cur] /\ parsed[cur] < Len(in[cur]) /\ in[cur][parsed[cur] + 1] = "head"
        /\ parsed' = [parsed EXCEPT ![cur] = @ + 1]
        /\ UNCHANGED <<life, in, rx, sent, error, handled>>
    BY <1>13 DEF ParseHead, disposer, peer
  <2>3. handled' = [handled EXCEPT ![cur] = @ + 0]
    <3>1. handled[cur] + 0 = handled[cur] BY <1>0, <2>1 DEF ReqTyped
    <3> QED BY <1>0, <2>1, <2>2, <3>1 DEF ReqTyped
  <2>4. 0 = IF in[cur][parsed[cur] + 1] \in {"tail", "close"} THEN 1 ELSE 0 BY <2>2
  <2> QED BY <1>0, <2>1, <2>2, <2>3, <2>4, ReqParses
<1>14. CASE ParseEnd
  <2>1. cur \in Conns /\ life[cur] = "alive" BY <1>1, <1>14 DEF ParseEnd, HandlerPCs
  <2>2. /\ ~error[cur] /\ parsed[cur] < Len(in[cur]) /\ in[cur][parsed[cur] + 1] \in {"tail", "close"}
        /\ parsed' = [parsed EXCEPT ![cur] = @ + 1]
        /\ handled' = [handled EXCEPT ![cur] = @ + 1]
        /\ UNCHANGED <<life, in, rx, sent, error>>
    BY <1>14 DEF ParseEnd, disposer, peer
  <2>3. 1 = IF in[cur][parsed[cur] + 1] \in {"tail", "close"} THEN 1 ELSE 0 BY <2>2
  <2> QED BY <1>0, <2>1, <2>2, <2>3, ReqParses
<1>15. CASE ParseReturn
  <2>1. cur \in Conns /\ life[cur] = "alive" BY <1>1, <1>15 DEF ParseReturn, HandlerPCs
  <2>2. /\ ~error[cur] /\ parsed[cur] = Len(in[cur])
        /\ in' = [in EXCEPT ![cur] = <<>>] /\ parsed' = [parsed EXCEPT ![cur] = 0]
        /\ UNCHANGED <<life, rx, sent, handled, error>>
    BY <1>15 DEF ParseReturn, peer
  <2> QED BY <1>0, <2>1, <2>2, ReqConsumes
<1>16. CASE MessageReturn BY <1>0, <1>16, ReqQuiet DEF MessageReturn, disposer
<1>17. CASE FlushNothing \/ FlushAll \/ FlushSome \/ FlushThrows
  BY <1>0, <1>17, ReqQuiet DEF FlushNothing, FlushAll, FlushSome, FlushThrows, disposer
<1>18. CASE UNCHANGED vars BY <1>0, <1>18, ReqQuiet DEF vars, disposer
<1> QED BY <1>2, <1>3, <1>4, <1>5, <1>6, <1>7, <1>8, <1>9, <1>10, <1>11, <1>12, <1>13, <1>14, <1>15,
           <1>16, <1>17, <1>18 DEF Next, Handler

\* Every request that the peer has sent is handled once or still to come, in whatever
\* portions it is read, until the connection is deleted or its parser fails.
THEOREM RequestsAreHandledOnce == Spec => []RequestsHandledOnce
<1>1. ReqInv => RequestsHandledOnce
  BY DEF ReqInv, Balanced, RequestsHandledOnce, Behind
<1> QED BY <1>1, ReqInit, ReqNext, PTL DEF Spec

-----------------------------------------------------------------------------
(* The stream of responses *)

\* Each place of a stream holds the response that belongs there.
InPlace(s) == \A n \in 1 .. Len(s) : n \in (s[n] - 1) * RespSize + 1 .. s[n] * RespSize

\* Streams are put together in any order.
LEMMA Joined ==
    ASSUME NEW a \in Seq(Nat), NEW b \in Seq(Nat), NEW c \in Seq(Nat)
    PROVE  (a \o b) \o c = a \o (b \o c)
BY ConcatAssociative, SMT

\* What is left of a stream when its end is cut off.
LEMMA InPlaceCut ==
    ASSUME NEW a \in Seq(Nat), NEW b \in Seq(Nat), InPlace(a \o b)
    PROVE  InPlace(a) /\ Len(a) <= Len(a \o b)
<1> DEFINE s == a \o b
           l == Len(a)
           m == Len(b)
<1>1. l \in Nat /\ m \in Nat BY LenProperties
<1>2. /\ Len(s) = l + m
      /\ \A i \in 1 .. l + m : s[i] = IF i <= l THEN a[i] ELSE b[i - l]
  BY ConcatProperties
<1>3. ASSUME NEW n \in 1 .. l PROVE n \in (a[n] - 1) * RespSize + 1 .. a[n] * RespSize
  <2>1. n \in 1 .. l + m /\ n <= l BY <1>1
  <2>2. n \in 1 .. Len(s) /\ s[n] = a[n] BY <1>2, <2>1
  <2>3. n \in (s[n] - 1) * RespSize + 1 .. s[n] * RespSize BY <2>2 DEF InPlace
  <2> QED BY <2>2, <2>3, Zenon
<1>4. l <= l + m
  <2> HIDE DEF l, m
  <2> QED BY <1>1
<1> QED BY <1>2, <1>3, <1>4 DEF InPlace

\* The next response is added to a stream that has all earlier ones.
LEMMA InPlaceGrows ==
    ASSUME NEW a \in Seq(Nat), NEW h \in Nat, InPlace(a), Len(a) + RespSize = h * RespSize
    PROVE  /\ a \o Response(h) \in Seq(Nat)
           /\ InPlace(a \o Response(h))
           /\ Len(a \o Response(h)) = h * RespSize
<1> DEFINE b == Response(h)
           s == a \o b
           l == Len(a)
           p == h * RespSize
           q == (h - 1) * RespSize
<1>0. RespSize \in Nat \ {0} BY ConstantsAssumption
<1>1. b \in Seq(Nat) /\ Len(b) = RespSize /\ \A i \in 1 .. RespSize : b[i] = h
  BY <1>0 DEF Response
<1>2. l \in Nat /\ l + RespSize = p BY LenProperties
<1>3. p \in Nat /\ q \in Int /\ q + RespSize = p
  <2>1. \A r \in Nat : h * r \in Nat /\ (h - 1) * r \in Int /\ (h - 1) * r + r = h * r
    <3>1. ASSUME NEW r \in Nat PROVE h * r \in Nat /\ (h - 1) * r \in Int /\ (h - 1) * r + r = h * r
      BY <3>1
    <3> QED BY <3>1
  <2> QED BY <1>0, <2>1
<1>4. q = l
  <2> HIDE DEF p, q, l
  <2> QED BY <1>0, <1>2, <1>3
<1> HIDE DEF b
<1>5. /\ s \in Seq(Nat) /\ Len(s) = l + RespSize
      /\ \A i \in 1 .. l + RespSize : s[i] = IF i <= l THEN a[i] ELSE b[i - l]
  BY <1>1, ConcatProperties
<1>6. ASSUME NEW n \in 1 .. l + RespSize
      PROVE  n \in (s[n] - 1) * RespSize + 1 .. s[n] * RespSize
  <2>1. CASE n <= l
    <3>1. n \in 1 .. Len(a) /\ s[n] = a[n] BY <1>2, <1>5, <2>1
    <3>2. n \in (a[n] - 1) * RespSize + 1 .. a[n] * RespSize BY <3>1 DEF InPlace
    <3> QED BY <3>1, <3>2, Zenon
  <2>2. CASE ~(n <= l)
    <3>1. n - l \in 1 .. RespSize
      <4> HIDE DEF l
      <4> QED BY <1>0, <1>2, <2>2
    <3>2. s[n] = b[n - l] BY <1>5, <2>2
    <3>3. s[n] = h BY <1>1, <3>1, <3>2
    <3>4. n \in q + 1 .. p
      <4> HIDE DEF l, p, q
      <4> QED BY <1>0, <1>2, <1>3, <1>4, <2>2
    <3> QED BY <3>3, <3>4, Zenon
  <2> QED BY <2>1, <2>2
<1> QED BY <1>2, <1>5, <1>6 DEF InPlace, b

\* The values of the output's variables.
OutTyped == wire \in [Conns -> Seq(Nat)] /\ out \in [Conns -> Seq(Nat)]

\* The handler of connection c is in on_http_message().
InMessage(c) == pc = "message" /\ cur = c

\* The stream of connection c has the responses to the requests that were handled, but for
\* the one whose handler is running; it may lack some when the connection has failed or
\* is deleted.
Answered(c) ==
    /\ life[c] = "none" => wire[c] = <<>> /\ out[c] = <<>>
    /\ InPlace(wire[c] \o out[c])
    /\ Len(wire[c] \o out[c]) <= handled[c] * RespSize
    /\ life[c] = "alive" /\ ~error[c] =>
          Len(wire[c] \o out[c]) + (IF InMessage(c) THEN RespSize ELSE 0) = handled[c] * RespSize
    /\ InMessage(c) => ~error[c]

\* The inductive invariant about responses.
OutInv == ReqInv /\ OutTyped /\ \A c \in Conns : Answered(c)

\* The variables of connection c that the invariant is about.
SameOut(c) ==
    /\ life'[c] = life[c] /\ wire'[c] \o out'[c] = wire[c] \o out[c]
    /\ handled'[c] = handled[c] /\ error'[c] = error[c]
    /\ life[c] # "none" \/ (wire'[c] = wire[c] /\ out'[c] = out[c])
    /\ InMessage(c)' <=> InMessage(c)

\* A connection whose stream stays the same.
LEMMA OutSame ==
    ASSUME NEW c \in Conns, Answered(c), SameOut(c)
    PROVE  Answered(c)'
BY DEF Answered, SameOut

\* A step that changes neither a stream nor the request that is handled.
LEMMA OutQuiet ==
    ASSUME OutInv, ReqInv', UNCHANGED <<life, wire, out, handled, error>>,
           \/ UNCHANGED <<pc, cur>>
           \/ pc # "message" /\ pc' # "message"
    PROVE  OutInv'
<1>1. OutTyped' BY DEF OutInv, OutTyped
<1>2. ASSUME NEW c \in Conns PROVE SameOut(c) BY DEF SameOut, InMessage
<1>3. \A c \in Conns : Answered(c)' BY <1>2, OutSame DEF OutInv
<1> QED BY <1>1, <1>3 DEF OutInv

\* The parser fails.
LEMMA OutFails ==
    ASSUME OutInv, ReqInv', cur \in Conns, life[cur] = "alive", pc' # "message",
           error' = [error EXCEPT ![cur] = TRUE], UNCHANGED <<life, wire, out, handled>>
    PROVE  OutInv'
<1>1. OutTyped' BY DEF OutInv, OutTyped
<1>2. PICK c \in Conns : c = cur OBVIOUS
<1>3. ReqTyped BY DEF OutInv, ReqInv
<1>4. ASSUME NEW d \in Conns \ {c} PROVE Answered(d)'
  <2>1. SameOut(d) BY <1>2, <1>3 DEF SameOut, InMessage, ReqTyped
  <2> QED BY <2>1, OutSame DEF OutInv
<1>5. Answered(c)'
  <2>1. error'[c] /\ life'[c] = "alive" /\ ~InMessage(c)' BY <1>2, <1>3 DEF ReqTyped, InMessage
  <2>2. Answered(c) BY DEF OutInv
  <2> QED BY <2>1, <2>2 DEF Answered
<1>6. \A d \in Conns : Answered(d)' BY <1>4, <1>5
<1> QED BY <1>1, <1>6 DEF OutInv

\* A connection is deleted, and some of its buffer was written.
LEMMA OutDeletes ==
    ASSUME NEW c \in Conns, Answered(c), OutTyped, NEW n \in Nat, n <= Len(out[c]),
           wire'[c] = wire[c] \o SubSeq(out[c], 1, n), out'[c] = <<>>, handled'[c] = handled[c],
           life'[c] = "deleted", ~InMessage(c)', ReqTyped
    PROVE  Answered(c)' /\ wire'[c] \in Seq(Nat)
<1> DEFINE W == wire[c]
           O == out[c]
           a == SubSeq(O, 1, n)
           b == SubSeq(O, n + 1, Len(O))
           k == handled[c] * RespSize
<1>1. W \in Seq(Nat) /\ O \in Seq(Nat) BY DEF OutTyped
<1>2. /\ Len(O) \in Nat /\ n + 1 \in Int /\ 1 \in Int
      /\ \A i \in 1 .. n : O[i] \in Nat
      /\ \A i \in n + 1 .. Len(O) : O[i] \in Nat
  BY <1>1, LenProperties, ElementOfSeq
<1>3. a \in Seq(Nat) /\ b \in Seq(Nat) BY <1>2, SubSeqProperties
<1>4. a \o b = O
  <2>1. 1 \in 1 .. Len(O) + 1 /\ n \in 1 - 1 .. Len(O) /\ Len(O) \in n .. Len(O) BY <1>2
  <2>2. a \o b = SubSeq(O, 1, Len(O)) BY <1>1, <2>1, ConcatAdjacentSubSeq
  <2> QED BY <1>1, <2>2, SubSeqFull
<1> HIDE DEF a, b
<1>5. (W \o a) \o b = W \o O
  <2> HIDE DEF W, O
  <2>1. (W \o a) \o b = W \o (a \o b) BY <1>1, <1>3, Joined
  <2> QED BY <1>4, <2>1
<1>6. W \o a \in Seq(Nat) BY <1>1, <1>3, ConcatProperties
<1>7. InPlace((W \o a) \o b) /\ Len((W \o a) \o b) <= k BY <1>5 DEF Answered
<1>8. InPlace(W \o a) /\ Len(W \o a) <= Len((W \o a) \o b) BY <1>3, <1>6, <1>7, InPlaceCut
<1>9. wire'[c] \o out'[c] = W \o a BY <1>6, ConcatEmptySeq DEF a
<1>10. k \in Nat
  <2>1. handled[c] \in Nat /\ RespSize \in Nat BY ConstantsAssumption DEF ReqTyped
  <2> QED BY <2>1
<1>11. Len(W \o a) <= k
  <2>1. Len(W \o a) \in Nat /\ Len((W \o a) \o b) \in Nat BY <1>3, <1>6, ConcatProperties, LenProperties
  <2> HIDE DEF k
  <2> QED BY <1>7, <1>8, <1>10, <2>1
<1>12. wire'[c] \in Seq(Nat) BY <1>6 DEF a
<1>13. Answered(c)'
  <2>1. InPlace(wire'[c] \o out'[c]) BY <1>8, <1>9
  <2>2. Len(wire'[c] \o out'[c]) <= handled'[c] * RespSize BY <1>9, <1>11
  <2> QED BY <2>1, <2>2 DEF Answered
<1> QED BY <1>12, <1>13

\* Some or all of the buffer is written.
LEMMA OutFlushes ==
    ASSUME OutInv, ReqInv', cur \in Conns, life[cur] = "alive", pc # "message", pc' # "message",
           NEW n \in Nat, n <= Len(out[cur]),
           wire' = [wire EXCEPT ![cur] = @ \o SubSeq(out[cur], 1, n)],
           out' = [out EXCEPT ![cur] = SubSeq(out[cur], n + 1, Len(out[cur]))],
           UNCHANGED <<life, handled, error>>
    PROVE  OutInv'
<1>1. PICK c \in Conns : c = cur OBVIOUS
<1> DEFINE W == wire[c]
           O == out[c]
           a == SubSeq(O, 1, n)
           b == SubSeq(O, n + 1, Len(O))
<1>0. OutTyped BY DEF OutInv
<1>2. W \in Seq(Nat) /\ O \in Seq(Nat) BY <1>0 DEF OutTyped
<1>3. /\ Len(O) \in Nat /\ n + 1 \in Int /\ 1 \in Int
      /\ \A i \in 1 .. n : O[i] \in Nat
      /\ \A i \in n + 1 .. Len(O) : O[i] \in Nat
  BY <1>1, <1>2, LenProperties, ElementOfSeq
<1>4. a \in Seq(Nat) /\ b \in Seq(Nat) BY <1>3, SubSeqProperties
<1>5. a \o b = O
  <2>1. 1 \in 1 .. Len(O) + 1 /\ n \in 1 - 1 .. Len(O) /\ Len(O) \in n .. Len(O) BY <1>1, <1>3
  <2>2. a \o b = SubSeq(O, 1, Len(O)) BY <1>2, <2>1, ConcatAdjacentSubSeq
  <2> QED BY <1>2, <2>2, SubSeqFull
<1>6. wire' = [wire EXCEPT ![c] = W \o a] /\ out' = [out EXCEPT ![c] = b] BY <1>1
<1> HIDE DEF a, b
<1>7. W \o a \in Seq(Nat) BY <1>2, <1>4, ConcatProperties
<1>8. wire'[c] = W \o a /\ out'[c] = b BY <1>0, <1>6 DEF OutTyped
<1>9. wire'[c] \o out'[c] = W \o O
  <2> HIDE DEF W, O
  <2>1. (W \o a) \o b = W \o (a \o b) BY <1>2, <1>4, Joined
  <2> QED BY <1>5, <1>8, <2>1
<1>10. OutTyped' BY <1>0, <1>4, <1>6, <1>7 DEF OutTyped
<1>11. ASSUME NEW d \in Conns PROVE SameOut(d)
  <2>1. CASE d = c BY <1>1, <1>9, <2>1 DEF SameOut, InMessage
  <2>2. CASE d # c BY <1>0, <1>6, <2>2 DEF SameOut, InMessage, OutTyped
  <2> QED BY <2>1, <2>2
<1>12. \A d \in Conns : Answered(d)' BY <1>11, OutSame DEF OutInv
<1> QED BY <1>10, <1>12 DEF OutInv

\* The end of a request: its handler is called.
LEMMA OutHandles ==
    ASSUME OutInv, ReqInv', ParseEnd, cur \in Conns, life[cur] = "alive"
    PROVE  OutInv'
<1>1. PICK c \in Conns : c = cur OBVIOUS
<1> DEFINE h == handled[c]
           l == Len(wire[c] \o out[c])
<1>2. OutTyped /\ ReqTyped BY DEF OutInv, ReqInv
<1>3. /\ pc = "parse" /\ ~error[c] /\ life[c] = "alive" /\ pc' = "message" /\ cur' = c
      /\ handled' = [handled EXCEPT ![c] = h + 1]
      /\ UNCHANGED <<life, wire, out, error>>
  BY <1>1 DEF ParseEnd, disposer, output
<1>4. h \in Nat /\ RespSize \in Nat BY <1>2, ConstantsAssumption DEF ReqTyped
<1>5. InPlace(wire[c] \o out[c]) /\ l = h * RespSize
  <2>1. Answered(c) /\ ~InMessage(c) BY <1>3 DEF OutInv, InMessage
  <2>2. l + 0 = h * RespSize /\ InPlace(wire[c] \o out[c]) BY <1>3, <2>1 DEF Answered
  <2>3. l \in Nat
    <3>1. wire[c] \in Seq(Nat) /\ out[c] \in Seq(Nat) BY <1>2 DEF OutTyped
    <3>2. wire[c] \o out[c] \in Seq(Nat) BY <3>1, ConcatProperties
    <3> QED BY <3>2, LenProperties
  <2> HIDE DEF l
  <2> QED BY <2>2, <2>3
<1>6. handled'[c] = h + 1 /\ ~error'[c] /\ life'[c] = "alive" /\ InMessage(c)'
  BY <1>2, <1>3 DEF ReqTyped, InMessage
<1>7. h * RespSize <= (h + 1) * RespSize /\ h * RespSize + RespSize = (h + 1) * RespSize
  <2> HIDE DEF h
  <2>1. ASSUME NEW r \in Nat PROVE h * r + r = (h + 1) * r /\ h * r \in Nat BY <1>4
  <2>2. h * RespSize + RespSize = (h + 1) * RespSize /\ h * RespSize \in Nat BY <1>4, <2>1
  <2> QED BY <1>4, <2>2
<1>8. Answered(c)'
  <2>1. wire'[c] \o out'[c] = wire[c] \o out[c] BY <1>3
  <2>2. InPlace(wire'[c] \o out'[c]) BY <1>5, <2>1
  <2>3. Len(wire'[c] \o out'[c]) <= handled'[c] * RespSize BY <1>5, <1>6, <1>7, <2>1
  <2>4. Len(wire'[c] \o out'[c]) + RespSize = handled'[c] * RespSize BY <1>5, <1>6, <1>7, <2>1
  <2> QED BY <1>6, <2>2, <2>3, <2>4 DEF Answered
<1>9. ASSUME NEW d \in Conns \ {c} PROVE Answered(d)'
  <2>1. SameOut(d) BY <1>2, <1>3 DEF SameOut, InMessage, ReqTyped
  <2> QED BY <2>1, OutSame DEF OutInv
<1>10. OutTyped' BY <1>2, <1>3 DEF OutTyped
<1>11. \A d \in Conns : Answered(d)' BY <1>8, <1>9
<1> QED BY <1>10, <1>11 DEF OutInv

\* The handler returns, and has written the response.
LEMMA OutAnswers ==
    ASSUME OutInv, ReqInv', MessageReturn, cur \in Conns, life[cur] = "alive"
    PROVE  OutInv'
<1>1. PICK c \in Conns : c = cur OBVIOUS
<1> DEFINE h == handled[c]
           W == wire[c]
           O == out[c]
           R == Response(h)
<1>2. OutTyped /\ ReqTyped BY DEF OutInv, ReqInv
<1>3. /\ pc = "message" /\ life[c] = "alive" /\ pc' = "parse" /\ cur' = c
      /\ out' = [out EXCEPT ![c] = O \o R]
      /\ UNCHANGED <<life, wire, handled, error>>
  BY <1>1 DEF MessageReturn, disposer, parser
<1>4. h \in Nat /\ W \in Seq(Nat) /\ O \in Seq(Nat) BY <1>2 DEF ReqTyped, OutTyped
<1>5. InMessage(c) /\ ~InMessage(c)' BY <1>1, <1>3 DEF InMessage
<1>6. InPlace(W \o O) /\ Len(W \o O) + RespSize = h * RespSize /\ ~error[c]
  BY <1>3, <1>5 DEF OutInv, Answered
<1>7. W \o O \in Seq(Nat) BY <1>4, ConcatProperties
<1>8. InPlace((W \o O) \o R) /\ Len((W \o O) \o R) = h * RespSize
  BY <1>4, <1>6, <1>7, InPlaceGrows
<1>9. R \in Seq(Nat) BY <1>4, ConstantsAssumption DEF Response
<1> HIDE DEF R
<1>10. O \o R \in Seq(Nat) /\ (W \o O) \o R = W \o (O \o R)
  <2> HIDE DEF W, O
  <2>1. O \o R \in Seq(Nat) BY <1>4, <1>9, ConcatProperties
  <2>2. (W \o O) \o R = W \o (O \o R) BY <1>4, <1>9, Joined
  <2> QED BY <2>1, <2>2
<1>11. wire'[c] \o out'[c] = (W \o O) \o R BY <1>2, <1>3, <1>10 DEF OutTyped
<1>12. h * RespSize \in Nat
  <2>1. RespSize \in Nat BY ConstantsAssumption
  <2> HIDE DEF h
  <2> QED BY <1>4, <2>1
<1>13. Answered(c)'
  <2> DEFINE s == wire'[c] \o out'[c]
             k == h * RespSize
  <2>1. InPlace(s) /\ Len(s) = k BY <1>8, <1>11
  <2>2. handled'[c] * RespSize = k /\ life'[c] = "alive" BY <1>3
  <2>3. k <= k /\ k + 0 = k
    <3> HIDE DEF k
    <3> QED BY <1>12 DEF k
  <2> QED BY <1>5, <2>1, <2>2, <2>3 DEF Answered
<1>14. ASSUME NEW d \in Conns \ {c} PROVE Answered(d)'
  <2>1. SameOut(d) BY <1>1, <1>2, <1>3 DEF SameOut, InMessage, OutTyped
  <2> QED BY <2>1, OutSame DEF OutInv
<1>15. OutTyped' BY <1>2, <1>3, <1>10 DEF OutTyped
<1>16. \A d \in Conns : Answered(d)' BY <1>13, <1>14
<1> QED BY <1>15, <1>16 DEF OutInv

\* No stream has anything initially.
LEMMA OutInit == Init => OutInv
<1> SUFFICES ASSUME Init PROVE OutInv OBVIOUS
<1>1. <<>> \in Seq(Nat) /\ Len(<<>>) = 0 /\ <<>> \o <<>> = <<>> BY EmptySeq, ConcatEmptySeq
<1>2. OutTyped BY <1>1 DEF Init, OutTyped
<1>3. ASSUME NEW c \in Conns PROVE Answered(c)
  <2>1. /\ life[c] = "none" /\ wire[c] = <<>> /\ out[c] = <<>> /\ handled[c] = 0 /\ ~InMessage(c)
    BY DEF Init, InMessage
  <2>2. 0 * RespSize = 0 BY ConstantsAssumption
  <2>3. InPlace(<<>>) BY <1>1 DEF InPlace
  <2> QED BY <1>1, <2>1, <2>2, <2>3 DEF Answered
<1> QED BY <1>2, <1>3, ReqInit DEF OutInv

\* Every step.
LEMMA OutNext == OutInv /\ [Next]_vars => OutInv'
<1> SUFFICES ASSUME OutInv, [Next]_vars PROVE OutInv' OBVIOUS
<1>0. ReqInv /\ ReqInv' /\ Inv /\ Inv' /\ OutTyped /\ ReqTyped BY ReqNext DEF OutInv, ReqInv
<1>1. ASSUME pc \in HandlerPCs PROVE cur \in Conns /\ life[cur] = "alive"
  <2>1. cur \in Conns /\ Handling(cur) BY <1>0, <1>1 DEF Inv, TypeOK, Handling
  <2> QED BY <1>0, <2>1 DEF Inv, Disposal
<1>2. ASSUME NEW c \in Conns, life'[c] = "deleted" PROVE ~InMessage(c)'
  <2>1. SUFFICES ASSUME pc' = "message", cur' = c PROVE FALSE BY DEF InMessage
  <2>2. Handling(c)' BY <2>1 DEF Handling, HandlerPCs
  <2>3. Disposal(c)' BY <1>0 DEF Inv
  <2> QED BY <1>2, <2>2, <2>3 DEF Disposal
<1>3. CASE \E c \in Conns : PeerSends(c) \/ PeerCloses(c) \/ UserDisposes(c)
  BY <1>0, <1>3, OutQuiet DEF PeerSends, PeerCloses, UserDisposes, disposer, parser, output, control
<1>4. CASE \E c \in Conns : Timeout(c) \/ OnIoEvent(c) \/ AcceptCrashes(c)
  BY <1>0, <1>4, OutQuiet DEF Timeout, OnIoEvent, AcceptCrashes, Idle, disposer, parser, output
<1>5. ASSUME NEW c \in Conns, Accept(c) PROVE OutInv'
  <2>1. /\ life[c] = "none" /\ life' = [life EXCEPT ![c] = "alive"] /\ pc # "message" /\ pc' # "message"
        /\ UNCHANGED <<wire, out, handled, error>>
    BY <1>5 DEF Accept, Idle, parser, output
  <2>2. OutTyped' BY <1>0, <2>1 DEF OutTyped
  <2>3. ASSUME NEW d \in Conns \ {c} PROVE Answered(d)'
    <3>1. SameOut(d) BY <1>0, <2>1 DEF SameOut, InMessage, Inv, TypeOK
    <3> QED BY <3>1, OutSame DEF OutInv
  <2>4. Answered(c)'
    <3>1. Answered(c) /\ handled[c] = 0 BY <1>0, <2>1 DEF OutInv, ReqInv, Fresh
    <3>2. wire[c] = <<>> /\ out[c] = <<>> BY <2>1, <3>1 DEF Answered
    <3>3. Len(<<>> \o <<>>) = 0 BY EmptySeq, ConcatEmptySeq
    <3>4. 0 * RespSize = 0 BY ConstantsAssumption
    <3>5. life'[c] = "alive" /\ ~InMessage(c)' BY <1>0, <2>1 DEF Inv, TypeOK, InMessage
    <3> QED BY <2>1, <3>1, <3>2, <3>3, <3>4, <3>5 DEF Answered
  <2>5. \A d \in Conns : Answered(d)' BY <2>3, <2>4
  <2> QED BY <1>0, <2>2, <2>5 DEF OutInv
<1>6. CASE DestroyServ
  <2> DEFINE free == {c \in Conns : life[c] = "alive" /\ locks[c] = 0}
  <2>1. PICK n \in 0 .. MaxRequests * RespSize :
          wire' = [c \in Conns |-> IF c \in free THEN wire[c] \o Upto(out[c], n) ELSE wire[c]]
    BY <1>6 DEF DestroyServ
  <2>2. /\ life' = [c \in Conns |-> IF c \in free THEN "deleted" ELSE life[c]]
        /\ out' = [c \in Conns |-> IF c \in free THEN <<>> ELSE out[c]]
        /\ UNCHANGED <<handled, error, pc, cur>>
    BY <1>6 DEF DestroyServ
  <2>3. ASSUME NEW c \in free PROVE Answered(c)' /\ wire'[c] \in Seq(Nat)
    <3>1. out[c] \in Seq(Nat) /\ Len(out[c]) \in Nat BY <1>0, LenProperties DEF OutTyped
    <3>2. PICK k \in Nat : k <= Len(out[c]) /\ wire'[c] = wire[c] \o SubSeq(out[c], 1, k)
      <4>1. CASE n < Len(out[c])
        <5>1. Upto(out[c], n) = SubSeq(out[c], 1, n) BY <4>1 DEF Upto
        <5>2. n \in Nat /\ n <= Len(out[c]) BY <3>1, <4>1
        <5> QED BY <2>1, <5>1, <5>2
      <4>2. CASE ~(n < Len(out[c]))
        <5>1. Upto(out[c], n) = SubSeq(out[c], 1, Len(out[c])) BY <4>2 DEF Upto
        <5>2. Len(out[c]) <= Len(out[c]) BY <3>1
        <5> QED BY <2>1, <3>1, <5>1, <5>2
      <4> QED BY <4>1, <4>2
    <3>3. out'[c] = <<>> /\ life'[c] = "deleted" /\ handled'[c] = handled[c] BY <2>2
    <3>4. ~InMessage(c)' BY <1>2, <3>3
    <3>5. Answered(c) BY DEF OutInv
    <3> HIDE DEF free
    <3>6. c \in Conns BY DEF free
    <3> QED BY <1>0, <3>2, <3>3, <3>4, <3>5, <3>6, OutDeletes
  <2>4. ASSUME NEW c \in Conns \ free PROVE Answered(c)' /\ wire'[c] \in Seq(Nat)
    <3>1. wire'[c] = wire[c] /\ out'[c] = out[c] /\ life'[c] = life[c] BY <2>1, <2>2
    <3>2. SameOut(c) BY <2>2, <3>1 DEF SameOut, InMessage
    <3>3. wire[c] \in Seq(Nat) BY <1>0 DEF OutTyped
    <3> QED BY <3>1, <3>2, <3>3, OutSame DEF OutInv
  <2>5. \A c \in Conns : Answered(c)' /\ wire'[c] \in Seq(Nat) BY <2>3, <2>4
  <2>6. OutTyped'
    <3>1. wire' \in [Conns -> Seq(Nat)] BY <2>1, <2>5
    <3>2. <<>> \in Seq(Nat) BY EmptySeq
    <3>3. out' \in [Conns -> Seq(Nat)] BY <1>0, <2>2, <3>2 DEF OutTyped
    <3> QED BY <3>1, <3>3 DEF OutTyped
  <2> QED BY <1>0, <2>5, <2>6 DEF OutInv
<1>7. CASE DisposeReturn
  <2>1. disposing # <<>> BY <1>7 DEF DisposeReturn
  <2>2. PICK c \in Conns : c = Last(disposing)
    <3>1. disposing \in Seq(Conns) BY <1>0 DEF Inv, TypeOK
    <3>2. Len(disposing) \in 1 .. Len(disposing) BY <2>1, <3>1, EmptySeq, LenProperties
    <3>3. disposing[Len(disposing)] \in Conns BY <3>1, <3>2, ElementOfSeq
    <3> QED BY <3>3 DEF Last
  <2>3. PICK n \in 0 .. Len(out[c]) : wire' = [wire EXCEPT ![c] = @ \o SubSeq(out[c], 1, n)]
    BY <1>7, <2>2 DEF DisposeReturn
  <2>4. /\ life' = [life EXCEPT ![c] = "deleted"] /\ out' = [out EXCEPT ![c] = <<>>]
        /\ UNCHANGED <<handled, error, pc, cur>>
    BY <1>7, <2>2 DEF DisposeReturn, control
  <2>5. n \in Nat /\ n <= Len(out[c])
    <3>1. Len(out[c]) \in Nat BY <1>0, LenProperties DEF OutTyped
    <3> QED BY <2>3, <3>1
  <2>6. /\ wire'[c] = wire[c] \o SubSeq(out[c], 1, n) /\ out'[c] = <<>> /\ life'[c] = "deleted"
        /\ handled'[c] = handled[c]
    BY <1>0, <2>3, <2>4 DEF OutTyped, Inv, TypeOK
  <2>7. ~InMessage(c)' BY <1>2, <2>6
  <2>8. Answered(c) BY DEF OutInv
  <2>9. Answered(c)' /\ wire'[c] \in Seq(Nat) BY <1>0, <2>5, <2>6, <2>7, <2>8, OutDeletes
  <2>10. ASSUME NEW d \in Conns \ {c} PROVE Answered(d)'
    <3>1. SameOut(d) BY <1>0, <2>3, <2>4 DEF SameOut, InMessage, OutTyped, Inv, TypeOK
    <3> QED BY <3>1, OutSame DEF OutInv
  <2>11. OutTyped'
    <3>1. <<>> \in Seq(Nat) BY EmptySeq
    <3>2. out' \in [Conns -> Seq(Nat)] BY <1>0, <2>4, <3>1 DEF OutTyped
    <3>3. wire[c] \o SubSeq(out[c], 1, n) \in Seq(Nat) BY <2>6, <2>9
    <3>4. wire' \in [Conns -> Seq(Nat)] BY <1>0, <2>3, <3>3 DEF OutTyped
    <3> QED BY <3>2, <3>4 DEF OutTyped
  <2>12. \A d \in Conns : Answered(d)' BY <2>9, <2>10
  <2> QED BY <1>0, <2>11, <2>12 DEF OutInv
<1>8. CASE AcceptReturn \/ TimeoutReturn \/ ErrorReturn \/ Unlock
  BY <1>0, <1>8, OutQuiet
     DEF AcceptReturn, TimeoutReturn, ErrorReturn, Unlock, disposer, parser, output
<1>9. CASE ReadSome \/ ReadEof \/ ReadThrows
  BY <1>0, <1>9, OutQuiet DEF ReadSome, ReadEof, ReadThrows, disposer, parser, output
<1>10. CASE ParseThrows \/ ParseHeadThrows \/ MessageThrows
  <2>1. cur \in Conns /\ life[cur] = "alive"
    BY <1>1, <1>10 DEF ParseThrows, ParseHeadThrows, MessageThrows, HandlerPCs
  <2>2. /\ error' = [error EXCEPT ![cur] = TRUE] /\ pc' # "message"
        /\ UNCHANGED <<life, wire, out, handled>>
    BY <1>10 DEF ParseThrows, ParseHeadThrows, MessageThrows, disposer, output
  <2> QED BY <1>0, <2>1, <2>2, OutFails
<1>11. CASE ParseHead \/ ParseReturn
  BY <1>0, <1>11, OutQuiet DEF ParseHead, ParseReturn, disposer, output, control
<1>12. CASE ParseEnd
  <2>1. cur \in Conns /\ life[cur] = "alive" BY <1>1, <1>12 DEF ParseEnd, HandlerPCs
  <2> QED BY <1>0, <1>12, <2>1, OutHandles
<1>13. CASE MessageReturn
  <2>1. cur \in Conns /\ life[cur] = "alive" BY <1>1, <1>13 DEF MessageReturn, HandlerPCs
  <2> QED BY <1>0, <1>13, <2>1, OutAnswers
<1>14. CASE FlushNothing \/ FlushThrows
  BY <1>0, <1>14, OutQuiet DEF FlushNothing, FlushThrows, disposer, parser, output
<1>15. CASE FlushAll
  <2>1. cur \in Conns /\ life[cur] = "alive" BY <1>1, <1>15 DEF FlushAll, HandlerPCs
  <2>2. /\ wire' = [wire EXCEPT ![cur] = @ \o out[cur]] /\ out' = [out EXCEPT ![cur] = <<>>]
        /\ pc # "message" /\ pc' # "message" /\ UNCHANGED <<life, handled, error>>
    BY <1>15 DEF FlushAll, parser
  <2> DEFINE O == out[cur]
             m == Len(O)
  <2>3. O \in Seq(Nat) /\ m \in Nat BY <1>0, <2>1, LenProperties DEF OutTyped
  <2>4. SubSeq(O, 1, m) = O BY <2>3, SubSeqFull
  <2>5. SubSeq(O, m + 1, m) = <<>>
    <3>1. m \in Int /\ m + 1 \in Int /\ m < m + 1 BY <2>3
    <3> HIDE DEF m
    <3> QED BY <3>1, SubSeqEmpty
  <2>6. wire' = [wire EXCEPT ![cur] = wire[cur] \o SubSeq(out[cur], 1, m)] BY <2>2, <2>4
  <2>7. out' = [out EXCEPT ![cur] = SubSeq(out[cur], m + 1, Len(out[cur]))] BY <2>2, <2>5, Zenon
  <2>8. m <= Len(out[cur]) BY <2>3
  <2> HIDE DEF m
  <2> QED BY <1>0, <2>1, <2>2, <2>3, <2>6, <2>7, <2>8, OutFlushes
<1>16. CASE FlushSome
  <2>1. cur \in Conns /\ life[cur] = "alive" BY <1>1, <1>16 DEF FlushSome, HandlerPCs
  <2>2. PICK n \in 1 .. Len(out[cur]) - 1 :
          /\ wire' = [wire EXCEPT ![cur] = @ \o SubSeq(out[cur], 1, n)]
          /\ out' = [out EXCEPT ![cur] = SubSeq(@, n + 1, Len(@))]
    BY <1>16 DEF FlushSome
  <2>3. pc # "message" /\ pc' # "message" /\ UNCHANGED <<life, handled, error>>
    BY <1>16 DEF FlushSome, disposer, parser
  <2>4. n \in Nat /\ n <= Len(out[cur])
    <3>1. Len(out[cur]) \in Nat BY <1>0, <2>1, LenProperties DEF OutTyped
    <3> QED BY <2>2, <3>1
  <2>5. out' = [out EXCEPT ![cur] = SubSeq(out[cur], n + 1, Len(out[cur]))] BY <2>2
  <2> QED BY <1>0, <2>1, <2>2, <2>3, <2>4, <2>5, OutFlushes
<1>17. CASE UNCHANGED vars
  BY <1>0, <1>17, OutQuiet DEF vars, disposer, parser, output, control
<1> QED BY <1>3, <1>4, <1>5, <1>6, <1>7, <1>8, <1>9, <1>10, <1>11, <1>12, <1>13, <1>14, <1>15, <1>16,
           <1>17 DEF Next, Handler

\* What a connection writes are the responses to its requests, in their order and each of
\* them whole before the next, whatever portions write() takes, and also for what the
\* destructor still writes.
THEOREM ResponsesAreInOrder == Spec => []ResponsesInOrder
<1>1. OutInv => ResponsesInOrder
  BY DEF OutInv, Answered, InPlace, ResponsesInOrder
<1> QED BY <1>1, OutInit, OutNext, PTL DEF Spec
=============================================================================
