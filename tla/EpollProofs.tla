----------------------------- MODULE EpollProofs -----------------------------
(***************************************************************************)
(* Proofs about Epoll for every set of sockets and descriptors, provided   *)
(* that no BasicSocket is closed in its own callback or opened twice.      *)
(***************************************************************************)
EXTENDS Epoll, WellFoundedInduction, TLAPS

\* A restriction on the users of BasicSocket, which the code does not state: close() in
\* the socket's own callback loses the commit that takes it off the table, and a second
\* open() does not bind its slot.  Sockets that use their PollHandle directly, as the
\* connector and the HTTP connection do, may do both.
Disciplined == ~ClosesInCallback /\ ~Reopens

-----------------------------------------------------------------------------
(* The inductive invariant *)

\* The values of the variables.
TypeOK ==
    /\ handle \in [Sockets -> [fd : FDs \cup {0}, sid : Nat, events : SUBSET Interest, slot : BOOLEAN]]
    /\ inst \in [Sockets -> Nat]
    /\ opens \in Nat
    /\ data \in [FDs -> [slot : Sockets \cup {None}, sid : Nat, events : SUBSET Interest]]
    /\ kern \in [FDs -> [on : BOOLEAN, sid : Nat, events : SUBSET Interest]]
    /\ \A ev \in batch : ev.fd \in FDs
    /\ phase \in {"user", "dispatch", "callback"}
    /\ running \in Sockets \cup {None}
    /\ terminated \in BOOLEAN

\* An open socket is the only one with its descriptor.
OwnsDescriptor(s) ==
    IsOpen(s) => /\ handle[s].fd \in FDs
                 /\ \A t \in Sockets : IsOpen(t) /\ handle[t].fd = handle[s].fd => t = s

\* What an open socket's handle knows of its entry in the table: the number of the
\* subscription always, and what it is for unless the commits are held back or events()
\* were set without one.
HandleMatchesTable(s) ==
    IsOpen(s) =>
        LET h == handle[s]
            d == data[h.fd]
        IN  /\ s \in Batched \/ h.events # {} \/ d.slot = s => h.slot
            /\ d.slot = s => d.sid = h.sid
            /\ ~Batching(s) /\ s \notin uncommitted => h.events = IF d.slot = s THEN d.events ELSE {}

\* The callback of a BasicSocket runs while the socket is open.
RunningIsOpen ==
    /\ running # None => phase = "callback"
    /\ running \in Batched => IsOpen(running)

Inv ==
    /\ TypeOK
    /\ \A s \in Sockets : OwnsDescriptor(s) /\ HandleMatchesTable(s)
    /\ TableMatchesKernel
    /\ RunningIsOpen
    /\ NeverTerminates
-----------------------------------------------------------------------------
(* Descriptors and entries *)

\* The lowest of some descriptors is one of them.
LEMMA LowestIsOne ==
    ASSUME NEW T, T \subseteq Nat, T # {}
    PROVE  Min(T) \in T
<1>1. PICK x \in T : \A y \in T : ~(<<y, x>> \in OpToRel(<, Nat))
  BY NatLessThanWellFounded, WFMin
<1>2. \A y \in T : ~(y < x) BY <1>1 DEF OpToRel
<1>3. \A y \in T : x <= y BY <1>2
<1> QED BY <1>3 DEF Min

\* The entry of an open socket's descriptor is its own, or there is none.
LEMMA EntryOwner ==
    ASSUME Inv, NEW s \in Sockets, IsOpen(s)
    PROVE  handle[s].fd \in FDs /\ data[handle[s].fd].slot \in {None, s}
<1>1. handle[s].fd \in FDs BY DEF Inv, OwnsDescriptor
<1>2. data[handle[s].fd].slot \in Sockets \cup {None} BY <1>1 DEF Inv, TypeOK
<1> QED BY <1>1, <1>2 DEF Inv, OwnsDescriptor, TableMatchesKernel

\* A step that concerns socket s and descriptor f alone preserves the invariant if the
\* two agree afterwards.
LEMMA LocalStep ==
    ASSUME Inv, TypeOK', NEW s \in Sockets, NEW f \in FDs,
           ~terminated', RunningIsOpen',
           \A t \in Sockets \ {s} : /\ handle'[t] = handle[t] /\ inst'[t] = inst[t]
                                    /\ Batching(t)' <=> Batching(t)
                                    /\ t \in uncommitted' <=> t \in uncommitted
                                    /\ IsOpen(t) => handle[t].fd # f,
           IsOpen(s) => handle[s].fd = f,
           IsOpen(s)' => handle'[s].fd = f,
           \A g \in FDs \ {f} : data'[g] = data[g] /\ kern'[g] = kern[g],
           HandleMatchesTable(s)',
           data'[f].slot \in {None, s},
           data'[f].slot = None => ~kern'[f].on,
           data'[f].slot = s => /\ IsOpen(s)' /\ kern'[f].on
                                /\ data'[f].events = kern'[f].events /\ data'[f].sid = kern'[f].sid
    PROVE  Inv'
<1>1. ASSUME NEW t \in Sockets \ {s} PROVE IsOpen(t)' <=> IsOpen(t) BY DEF IsOpen
<1>2. ASSUME NEW t \in Sockets PROVE OwnsDescriptor(t)'
  <2>1. CASE t = s BY <1>1, <2>1 DEF OwnsDescriptor
  <2>2. CASE t # s BY <1>1, <2>2 DEF OwnsDescriptor, Inv
  <2> QED BY <2>1, <2>2
<1>3. ASSUME NEW t \in Sockets \ {s} PROVE HandleMatchesTable(t)'
  <2> SUFFICES ASSUME IsOpen(t) PROVE HandleMatchesTable(t)'
    BY <1>1 DEF HandleMatchesTable
  <2>1. handle[t].fd \in FDs \ {f} BY DEF Inv, OwnsDescriptor
  <2>2. HandleMatchesTable(t) BY DEF Inv
  <2> QED BY <2>1, <2>2 DEF HandleMatchesTable
<1>4. TableMatchesKernel'
  <2> SUFFICES ASSUME NEW g \in FDs
               PROVE  /\ (data'[g].slot # None) <=> kern'[g].on
                      /\ data'[g].slot # None =>
                           /\ data'[g].events = kern'[g].events /\ data'[g].sid = kern'[g].sid
                           /\ inst'[data'[g].slot] # 0 /\ handle'[data'[g].slot].fd = g
    BY DEF TableMatchesKernel, IsOpen
  <2>1. CASE g = f BY <2>1, ConstantsAssumption DEF IsOpen
  <2>2. CASE g # f
    <3>1. /\ (data[g].slot # None) <=> kern[g].on
          /\ data[g].slot # None =>
               /\ data[g].events = kern[g].events /\ data[g].sid = kern[g].sid
               /\ IsOpen(data[g].slot) /\ handle[data[g].slot].fd = g
      BY DEF Inv, TableMatchesKernel
    <3>2. data'[g] = data[g] /\ kern'[g] = kern[g] BY <2>2
    <3>3. data[g].slot \in Sockets \cup {None} BY DEF Inv, TypeOK
    <3>4. data[g].slot # s BY <2>2, <3>1, ConstantsAssumption
    <3> QED BY <3>1, <3>2, <3>3, <3>4 DEF IsOpen
  <2> QED BY <2>1, <2>2
<1> QED BY <1>2, <1>3, <1>4 DEF Inv, NeverTerminates

\* Epoll::ctl() with a handle that has a slot: the table and the kernel are told of what
\* the handle asks for, and epoll_ctl() does not fail.
LEMMA CtlRegisters ==
    ASSUME Inv, NEW s \in Sockets, IsOpen(s),
           NEW h \in [fd : FDs \cup {0}, sid : Nat, events : SUBSET Interest, slot : BOOLEAN],
           h.fd = handle[s].fd, h.sid = handle[s].sid, h.slot, ctl(s, h)
    PROVE  LET f == handle[s].fd IN
           /\ handle' \in [Sockets -> [fd : FDs \cup {0}, sid : Nat, events : SUBSET Interest, slot : BOOLEAN]]
           /\ data' \in [FDs -> [slot : Sockets \cup {None}, sid : Nat, events : SUBSET Interest]]
           /\ kern' \in [FDs -> [on : BOOLEAN, sid : Nat, events : SUBSET Interest]]
           /\ terminated' = FALSE
           /\ \A t \in Sockets \ {s} : handle'[t] = handle[t]
           /\ \A g \in FDs \ {f} : data'[g] = data[g] /\ kern'[g] = kern[g]
           /\ handle'[s].fd = f /\ handle'[s].slot /\ handle'[s].events = h.events
           /\ data'[f].slot \in {None, s}
           /\ data'[f].slot = None => ~kern'[f].on /\ h.events = {}
           /\ data'[f].slot = s => /\ kern'[f].on /\ data'[f].sid = handle'[s].sid
                                   /\ data'[f].events = h.events
                                   /\ kern'[f].events = h.events /\ kern'[f].sid = data'[f].sid
<1> DEFINE f == handle[s].fd
           H == [fd : FDs \cup {0}, sid : Nat, events : SUBSET Interest, slot : BOOLEAN]
           D == [slot : Sockets \cup {None}, sid : Nat, events : SUBSET Interest]
           K == [on : BOOLEAN, sid : Nat, events : SUBSET Interest]
<1>0. /\ f \in FDs /\ data[f].slot \in {None, s} /\ ~terminated /\ s # None
      /\ (data[f].slot # None) <=> kern[f].on
      /\ data[f].slot # None => data[f].events = kern[f].events /\ data[f].sid = kern[f].sid
      /\ data[f].slot = s => data[f].sid = h.sid
  BY EntryOwner, ConstantsAssumption
     DEF Inv, NeverTerminates, TableMatchesKernel, HandleMatchesTable
<1>1. /\ handle \in [Sockets -> H] /\ data \in [FDs -> D] /\ kern \in [FDs -> K]
      /\ h.sid \in Nat /\ h.events \in SUBSET Interest /\ terminated = FALSE
  BY <1>0 DEF Inv, TypeOK
<1> HIDE DEF f
<1>2. CASE data[f].slot = None
  <2>1. CtlAdd(s, h) BY <1>0, <1>2 DEF ctl, CtlDel, CtlMod, f
  <2>2. CASE h.events # {}
    <3> DEFINE n == h.sid + 1
               nh == [h EXCEPT !.sid = n]
               nd == [slot |-> s, sid |-> h.sid + 1, events |-> h.events]
               nk == [on |-> TRUE, sid |-> h.sid + 1, events |-> h.events]
    <3>1. /\ handle' = [handle EXCEPT ![s] = nh] /\ data' = [data EXCEPT ![f] = nd]
          /\ kern' = [kern EXCEPT ![f] = nk] /\ terminated' = kern[f].on
      BY <2>1, <2>2 DEF CtlAdd, f
    <3>2. nh \in H /\ nd \in D /\ nk \in K
      <4>1. nh \in H
        <5>1. n \in Nat BY <1>1
        <5> HIDE DEF n
        <5> QED BY <5>1
      <4>2. nd \in D BY <1>1
      <4>3. nk \in K BY <1>1
      <4> QED BY <4>1, <4>2, <4>3
    <3>3. /\ nh.fd = f /\ nh.slot /\ nh.events = h.events /\ nh.sid = h.sid + 1
          /\ nd.slot = s /\ nd.sid = h.sid + 1 /\ nd.events = h.events
          /\ nk.on /\ nk.sid = h.sid + 1 /\ nk.events = h.events
      BY DEF f
    <3> HIDE DEF nh, nd, nk, H, D, K
    <3>4. terminated' = FALSE BY <1>0, <1>1, <1>2, <3>1 DEF K
    <3> QED BY <1>0, <1>1, <1>2, <3>1, <3>2, <3>3, <3>4 DEF f, H, D, K
  <2>3. CASE h.events = {}
    <3>1. handle' = [handle EXCEPT ![s] = h] /\ data' = data /\ kern' = kern
          /\ terminated' = terminated
      BY <2>1, <2>3 DEF CtlAdd, f
    <3> QED BY <1>0, <1>1, <1>2, <2>3, <3>1 DEF f
  <2> QED BY <2>2, <2>3
<1>3. CASE data[f].slot = s
  <2>1. CtlMod(s, h) BY <1>0, <1>3 DEF ctl, CtlDel, CtlAdd, f
  <2> DEFINE d1 == [data EXCEPT ![f].events = h.events]
             nd == [d1[f] EXCEPT !.slot = s]
             nk == [kern[f] EXCEPT !.sid = h.sid, !.events = h.events]
  <2>2. handle' = [handle EXCEPT ![s] = h] /\ data' = [d1 EXCEPT ![f] = nd]
    BY <1>0, <1>3, <2>1 DEF CtlMod, f
  <2>9. d1 \in [FDs -> D] /\ \A g \in FDs \ {f} : d1[g] = data[g]
    BY <1>0, <1>1
  <2>3. nd \in D /\ nd.slot = s /\ nd.sid = h.sid /\ nd.events = h.events
    <3>1. data[f] \in D /\ h.events \in SUBSET Interest /\ h.sid \in Nat BY <1>0, <1>1
    <3>2. d1[f] = [data[f] EXCEPT !.events = h.events] BY <1>0, <1>1
    <3> DEFINE dd == d1[f]
    <3>3. dd \in D /\ dd.events = h.events /\ dd.sid = data[f].sid BY <3>1, <3>2
    <3> HIDE DEF dd
    <3>4. data[f].sid = h.sid BY <1>0, <1>1, <1>3
    <3> QED BY <1>0, <3>1, <3>3, <3>4 DEF dd
  <2>4. nk \in K /\ nk.on /\ nk.sid = h.sid /\ nk.events = h.events
    BY <1>0, <1>1, <1>3
  <2>5. \/ kern' = [kern EXCEPT ![f] = nk] /\ terminated' = ~kern[f].on
        \/ h.events = data[f].events /\ kern' = kern /\ terminated' = terminated
    BY <1>0, <1>3, <2>1 DEF CtlMod, f
  <2>6. terminated' = FALSE BY <1>0, <1>1, <1>3, <2>5
  <2> HIDE DEF d1, nd, nk, H, D, K
  <2>7. CASE kern' = [kern EXCEPT ![f] = nk]
    BY <1>0, <1>1, <2>2, <2>3, <2>4, <2>6, <2>7, <2>9 DEF f, H, D, K
  <2>8. CASE h.events = data[f].events /\ kern' = kern
    BY <1>0, <1>1, <1>3, <2>2, <2>3, <2>6, <2>8, <2>9 DEF f, H, D, K
  <2> QED BY <2>5, <2>7, <2>8
<1> QED BY <1>0, <1>2, <1>3

\* PollHandle::commit() of an open socket's handle that has a slot.
LEMMA InvCommit ==
    ASSUME Inv, NEW s \in Sockets, IsOpen(s),
           NEW h \in [fd : FDs \cup {0}, sid : Nat, events : SUBSET Interest, slot : BOOLEAN],
           h.fd = handle[s].fd, h.sid = handle[s].sid, h.slot, commit(s, h),
           \A t \in Sockets \ {s} : t \in uncommitted' <=> t \in uncommitted,
           UNCHANGED <<inst, opens, batch, phase, running>>
    PROVE  Inv'
<1> DEFINE f == handle[s].fd
<1>0. f \in FDs /\ data[f].slot \in {None, s} BY EntryOwner
<1>1. /\ RunningIsOpen'
      /\ \A t \in Sockets \ {s} : /\ inst'[t] = inst[t] /\ (Batching(t)' <=> Batching(t))
                                  /\ IsOpen(t) => handle[t].fd # f
      /\ IsOpen(s)'
  BY DEF Inv, RunningIsOpen, IsOpen, Batching, OwnsDescriptor
<1>2. CASE Batching(s)
  <2>1. handle' = [handle EXCEPT ![s] = h] /\ data' = data /\ kern' = kern /\ terminated' = terminated
    BY <1>2 DEF commit
  <2>2. TypeOK' BY <2>1 DEF Inv, TypeOK
  <2>3. handle'[s] = h /\ \A t \in Sockets \ {s} : handle'[t] = handle[t]
    BY <2>1 DEF Inv, TypeOK
  <2>4. HandleMatchesTable(s)'
    BY <1>2, <2>1, <2>3 DEF Inv, HandleMatchesTable, Batching
  <2>5. /\ data[f].slot = None => ~kern[f].on
        /\ data[f].slot = s => /\ kern[f].on
                               /\ data[f].events = kern[f].events /\ data[f].sid = kern[f].sid
    BY <1>0, ConstantsAssumption DEF Inv, TableMatchesKernel
  <2>6. ~terminated' BY <2>1 DEF Inv, NeverTerminates
  <2> HIDE DEF f
  <2> QED BY <1>0, <1>1, <2>1, <2>2, <2>3, <2>4, <2>5, <2>6, LocalStep DEF f
<1>3. CASE ~Batching(s)
  <2>1. ctl(s, h) BY <1>3 DEF commit
  <2>2. /\ handle' \in [Sockets -> [fd : FDs \cup {0}, sid : Nat, events : SUBSET Interest, slot : BOOLEAN]]
        /\ data' \in [FDs -> [slot : Sockets \cup {None}, sid : Nat, events : SUBSET Interest]]
        /\ kern' \in [FDs -> [on : BOOLEAN, sid : Nat, events : SUBSET Interest]]
        /\ terminated' = FALSE
        /\ \A t \in Sockets \ {s} : handle'[t] = handle[t]
        /\ \A g \in FDs \ {f} : data'[g] = data[g] /\ kern'[g] = kern[g]
        /\ handle'[s].fd = f /\ handle'[s].slot /\ handle'[s].events = h.events
        /\ data'[f].slot \in {None, s}
        /\ data'[f].slot = None => ~kern'[f].on /\ h.events = {}
        /\ data'[f].slot = s => /\ kern'[f].on /\ data'[f].sid = handle'[s].sid
                                /\ data'[f].events = h.events
                                /\ kern'[f].events = h.events /\ kern'[f].sid = data'[f].sid
    BY <2>1, CtlRegisters
  <2>3. TypeOK' BY <2>2 DEF Inv, TypeOK
  <2>4. HandleMatchesTable(s)' BY <2>2, ConstantsAssumption DEF HandleMatchesTable
  <2>5. ~terminated' BY <2>2
  <2>6. /\ IsOpen(s) => handle[s].fd = f
        /\ IsOpen(s)' => handle'[s].fd = f
        /\ data'[f].slot = None => ~kern'[f].on
        /\ data'[f].slot = s => /\ IsOpen(s)' /\ kern'[f].on
                                /\ data'[f].events = kern'[f].events /\ data'[f].sid = kern'[f].sid
    BY <1>1, <2>2
  <2> HIDE DEF f
  <2> QED BY <1>0, <1>1, <2>2, <2>3, <2>4, <2>5, <2>6, LocalStep
<1> QED BY <1>2, <1>3

-----------------------------------------------------------------------------
(* Every step preserves the invariant *)

\* Nothing is open initially.
LEMMA InvInit == Init => Inv
<1> SUFFICES ASSUME Init PROVE Inv OBVIOUS
<1>1. TypeOK BY DEF Init, TypeOK, Closed, NoData, NoKern
<1>2. \A s \in Sockets : ~IsOpen(s) BY DEF Init, IsOpen
<1>3. TableMatchesKernel BY DEF Init, TableMatchesKernel, NoData, NoKern
<1> QED BY <1>1, <1>2, <1>3, ConstantsAssumption
    DEF Inv, Init, OwnsDescriptor, HandleMatchesTable, RunningIsOpen, NeverTerminates

\* A new descriptor has no entry yet, and a BasicSocket binds its slot.
LEMMA InvOpen ==
    ASSUME Inv, ~Reopens, NEW s \in Sockets, open(s)
    PROVE  Inv'
<1> DEFINE f == Min(FreeFDs)
           h == [Closed EXCEPT !.fd = f]
           H == [fd : FDs \cup {0}, sid : Nat, events : SUBSET Interest, slot : BOOLEAN]
<1>1. f \in FreeFDs
  <2>1. FreeFDs \subseteq Nat /\ FreeFDs # {} BY ConstantsAssumption DEF FreeFDs, open
  <2> QED BY <2>1, LowestIsOne
<1>2. f \in FDs /\ \A t \in Sockets : IsOpen(t) => handle[t].fd # f BY <1>1 DEF FreeFDs
<1> HIDE DEF f
<1>3. data[f].slot = None /\ ~kern[f].on
  BY <1>2, ConstantsAssumption DEF Inv, TypeOK, TableMatchesKernel
<1>4. ~IsOpen(s) /\ ~Batching(s) /\ opens \in Nat /\ ~terminated /\ s # None
  BY ConstantsAssumption DEF open, Inv, RunningIsOpen, TypeOK, NeverTerminates, Batching
<1>5. /\ inst' = [inst EXCEPT ![s] = opens + 1] /\ opens' = opens + 1
      /\ batch' = batch /\ phase' = phase /\ running' = running /\ uncommitted' = uncommitted
  BY DEF open
<1>6. PICK nh \in H :
        /\ handle' = [handle EXCEPT ![s] = nh]
        /\ data' = data /\ kern' = kern /\ terminated' = terminated
        /\ nh.fd = f /\ nh.events = {} /\ (s \in Batched => nh.slot)
  <2>0. h \in H /\ h.fd = f /\ h.events = {} BY <1>2 DEF Closed
  <2>1. CASE s \in Batched /\ s \notin io_slot
    <3> DEFINE g == [h EXCEPT !.slot = TRUE]
    <3>1. commit(s, g) BY <2>1 DEF open, f
    <3>2. ~Batching(s) BY <1>4
    <3>3. g \in H /\ g.slot /\ g.fd = f /\ g.events = {} BY <2>0
    <3> HIDE DEF g
    <3>4. ctl(s, g) BY <3>1, <3>2 DEF commit
    <3>5. handle' = [handle EXCEPT ![s] = g] /\ data' = data /\ kern' = kern /\ terminated' = terminated
      BY <1>3, <3>3, <3>4 DEF ctl, CtlDel, CtlAdd, CtlMod
    <3> QED BY <3>3, <3>5
  <2>2. CASE ~(s \in Batched /\ s \notin io_slot)
    <3>1. s \notin Batched BY <2>2 DEF open
    <3>2. handle' = [handle EXCEPT ![s] = h] /\ data' = data /\ kern' = kern /\ terminated' = terminated
      BY <2>2 DEF open, f
    <3> HIDE DEF h
    <3> QED BY <2>0, <3>1, <3>2
  <2> QED BY <2>1, <2>2
<1>9. TypeOK'
  <2>1. opens' \in Nat /\ inst' \in [Sockets -> Nat] BY <1>4, <1>5 DEF Inv, TypeOK
  <2>2. handle' \in [Sockets -> H] BY <1>6 DEF Inv, TypeOK
  <2> QED BY <1>5, <1>6, <2>1, <2>2 DEF Inv, TypeOK
<1>10. handle'[s] = nh /\ \A t \in Sockets \ {s} : handle'[t] = handle[t] /\ inst'[t] = inst[t]
  BY <1>5, <1>6 DEF Inv, TypeOK
<1>11. RunningIsOpen'
  <2>1. running \in Batched => running \in Sockets \ {s}
    BY <1>4, ConstantsAssumption DEF Inv, RunningIsOpen
  <2> QED BY <1>5, <1>10, <2>1 DEF Inv, RunningIsOpen, IsOpen
<1>12. HandleMatchesTable(s)'
  BY <1>3, <1>4, <1>6, <1>10 DEF HandleMatchesTable
<1>13. \A t \in Sockets \ {s} : (Batching(t)' <=> Batching(t)) /\ (t \in uncommitted' <=> t \in uncommitted)
  BY <1>5 DEF Batching
<1> QED BY <1>2, <1>3, <1>4, <1>6, <1>9, <1>10, <1>11, <1>12, <1>13, LocalStep

\* A socket whose commits are not held back takes its subscription with it.
LEMMA InvClose ==
    ASSUME Inv, ~ClosesInCallback, NEW s \in Sockets, close(s)
    PROVE  Inv'
<1> DEFINE f == handle[s].fd
<1>0. /\ IsOpen(s) /\ f \in FDs /\ data[f].slot \in {None, s} /\ ~Batching(s)
      /\ s # None /\ ~terminated
  BY EntryOwner, ConstantsAssumption DEF close, Batching, Inv, NeverTerminates
<1>1. /\ inst' = [inst EXCEPT ![s] = 0] /\ handle' = [handle EXCEPT ![s] = Closed]
      /\ kern' = [kern EXCEPT ![f] = NoKern]
      /\ opens' = opens /\ batch' = batch /\ phase' = phase /\ running' = running
      /\ uncommitted' = uncommitted \ {s}
  BY DEF close
<1>2. /\ data' \in {data, [data EXCEPT ![f] = NoData]} /\ data'[f].slot = None
      /\ terminated' = FALSE
  <2>0. terminated = FALSE /\ data \in [FDs -> [slot : Sockets \cup {None}, sid : Nat, events : SUBSET Interest]]
    BY <1>0 DEF Inv, TypeOK
  <2>1. CASE data[f].slot = None BY <1>0, <2>0, <2>1 DEF close
  <2>2. CASE data[f].slot = s
    <3>1. handle[s].slot /\ kern[f].on
      BY <1>0, <2>2 DEF Inv, HandleMatchesTable, TableMatchesKernel
    <3>2. terminated' = ~kern[f].on /\ data' = [data EXCEPT ![f] = NoData]
      BY <1>0, <2>2, <3>1 DEF close
    <3> QED BY <1>0, <2>0, <3>1, <3>2 DEF NoData
  <2> QED BY <1>0, <2>1, <2>2
<1>3. TypeOK'
  <2>1. handle' \in [Sockets -> [fd : FDs \cup {0}, sid : Nat, events : SUBSET Interest, slot : BOOLEAN]]
    BY <1>1 DEF Inv, TypeOK, Closed
  <2>2. data' \in [FDs -> [slot : Sockets \cup {None}, sid : Nat, events : SUBSET Interest]]
    BY <1>2 DEF Inv, TypeOK, NoData
  <2>3. kern' \in [FDs -> [on : BOOLEAN, sid : Nat, events : SUBSET Interest]]
    BY <1>1 DEF Inv, TypeOK, NoKern
  <2> QED BY <1>1, <1>2, <2>1, <2>2, <2>3 DEF Inv, TypeOK
<1>4. /\ \A t \in Sockets \ {s} : /\ handle'[t] = handle[t] /\ inst'[t] = inst[t]
                                  /\ Batching(t)' <=> Batching(t)
                                  /\ t \in uncommitted' <=> t \in uncommitted
                                  /\ IsOpen(t) => handle[t].fd # f
      /\ ~IsOpen(s)'
  BY <1>0, <1>1 DEF Inv, TypeOK, IsOpen, Batching, OwnsDescriptor
<1>5. /\ \A g \in FDs \ {f} : data'[g] = data[g] /\ kern'[g] = kern[g]
      /\ ~kern'[f].on
  BY <1>0, <1>1, <1>2 DEF Inv, TypeOK, NoKern
<1>6. RunningIsOpen'
  <2>1. running \in Batched => running \in Sockets \ {s}
    BY <1>0, ConstantsAssumption DEF Batching
  <2> QED BY <1>1, <1>4, <2>1 DEF Inv, RunningIsOpen, IsOpen
<1>7. HandleMatchesTable(s)' BY <1>4 DEF HandleMatchesTable
<1>8. ~terminated' BY <1>2
<1> HIDE DEF f
<1> QED BY <1>0, <1>2, <1>3, <1>4, <1>5, <1>6, <1>7, <1>8, LocalStep DEF f

\* Interest is added or removed, and committed unless the commits are held back.
LEMMA InvInterest ==
    ASSUME Inv, NEW s \in Sockets, NEW e \in Interest, add(s, e) \/ del(s, e)
    PROVE  Inv'
<1> DEFINE H == [fd : FDs \cup {0}, sid : Nat, events : SUBSET Interest, slot : BOOLEAN]
<1>1. /\ IsOpen(s) /\ handle[s] \in H
      /\ \A t \in Sockets \ {s} : t \in uncommitted' <=> t \in uncommitted
      /\ UNCHANGED <<inst, opens, batch, phase, running>>
  BY DEF add, del, Inv, TypeOK
<1>2. s \in Batched \/ handle[s].events # {} => handle[s].slot
  BY <1>1 DEF Inv, HandleMatchesTable
<1>3. CASE add(s, e)
  <2> DEFINE b == handle[s].slot \/ s \notin Batched
             h == [handle[s] EXCEPT !.events = handle[s].events \cup {e}, !.slot = b]
  <2>1. b = TRUE BY <1>1, <1>2
  <2>2. h \in H /\ h.fd = handle[s].fd /\ h.sid = handle[s].sid /\ h.slot BY <1>1, <2>1
  <2>3. commit(s, h) BY <1>3, <2>2 DEF add
  <2> HIDE DEF h
  <2> QED BY <1>1, <2>2, <2>3, InvCommit
<1>4. CASE del(s, e)
  <2> DEFINE h == [handle[s] EXCEPT !.events = handle[s].events \ {e}]
  <2>1. handle[s].slot BY <1>2, <1>4 DEF del
  <2>2. h \in H /\ h.fd = handle[s].fd /\ h.sid = handle[s].sid /\ h.slot BY <1>1, <2>1
  <2>3. commit(s, h) BY <1>4 DEF del
  <2> HIDE DEF h
  <2> QED BY <1>1, <2>2, <2>3, InvCommit
<1> QED BY <1>3, <1>4

\* The events of a handle are set without a commit: table and kernel do not change.
LEMMA InvEvents ==
    ASSUME Inv, NEW s \in Sockets, NEW E \in SUBSET Interest, events(s, E)
    PROVE  Inv'
<1> DEFINE f == handle[s].fd
           h == [handle[s] EXCEPT !.events = E]
           H == [fd : FDs \cup {0}, sid : Nat, events : SUBSET Interest, slot : BOOLEAN]
<1>1. /\ IsOpen(s) /\ handle[s].slot /\ uncommitted' = uncommitted \cup {s}
      /\ handle' = [handle EXCEPT ![s] = h]
      /\ UNCHANGED <<inst, opens, data, kern, batch, phase, running, terminated>>
  BY DEF events
<1>2. handle \in [Sockets -> H] BY DEF Inv, TypeOK
<1>3. h \in H /\ h.fd = f /\ h.sid = handle[s].sid /\ h.slot = handle[s].slot BY <1>2
<1>4. f \in FDs /\ data[f].slot \in {None, s} BY <1>1, EntryOwner
<1> HIDE DEF h
<1>5. handle'[s] = h /\ \A t \in Sockets \ {s} : handle'[t] = handle[t] BY <1>1, <1>2
<1>6. TypeOK'
  <2>1. handle' \in [Sockets -> H] BY <1>1, <1>2, <1>3
  <2> QED BY <1>1, <2>1 DEF Inv, TypeOK
<1>7. /\ RunningIsOpen' /\ IsOpen(s)' /\ ~terminated'
      /\ \A t \in Sockets \ {s} : /\ inst'[t] = inst[t] /\ (Batching(t)' <=> Batching(t))
                                  /\ (t \in uncommitted' <=> t \in uncommitted)
                                  /\ IsOpen(t) => handle[t].fd # f
  BY <1>1 DEF Inv, RunningIsOpen, IsOpen, Batching, OwnsDescriptor, NeverTerminates
<1>8. HandleMatchesTable(s)'
  <2>1. data[f].slot = s => data[f].sid = handle[s].sid BY <1>1 DEF Inv, HandleMatchesTable
  <2>2. s \in uncommitted' BY <1>1
  <2> HIDE DEF H
  <2> QED BY <1>1, <1>3, <1>5, <2>1, <2>2 DEF HandleMatchesTable
<1>9. /\ data[f].slot = None => ~kern[f].on
      /\ data[f].slot = s => /\ kern[f].on
                             /\ data[f].events = kern[f].events /\ data[f].sid = kern[f].sid
  BY <1>4, ConstantsAssumption DEF Inv, TableMatchesKernel
<1>10. IsOpen(s)' => handle'[s].fd = f BY <1>3, <1>5
<1> HIDE DEF f
<1> QED BY <1>1, <1>4, <1>5, <1>6, <1>7, <1>8, <1>9, <1>10, LocalStep DEF f

\* The event loop of a BasicSocket ends with the commit of what was held back.
LEMMA InvCallbackEnd ==
    ASSUME Inv, CallbackEnd
    PROVE  Inv'
<1>1. CASE running \in Batched
  <2> DEFINE s == running
             f == handle[s].fd
             h == handle[s]
  <2>0. s \in Sockets /\ s # None /\ IsOpen(s) /\ f \in FDs
    BY <1>1, ConstantsAssumption, EntryOwner DEF Inv, RunningIsOpen
  <2>1. /\ h \in [fd : FDs \cup {0}, sid : Nat, events : SUBSET Interest, slot : BOOLEAN]
        /\ h.slot /\ ctl(s, h)
    BY <1>1, <2>0 DEF Inv, TypeOK, HandleMatchesTable, CallbackEnd
  <2>2. /\ handle' \in [Sockets -> [fd : FDs \cup {0}, sid : Nat, events : SUBSET Interest, slot : BOOLEAN]]
        /\ data' \in [FDs -> [slot : Sockets \cup {None}, sid : Nat, events : SUBSET Interest]]
        /\ kern' \in [FDs -> [on : BOOLEAN, sid : Nat, events : SUBSET Interest]]
        /\ terminated' = FALSE
        /\ \A t \in Sockets \ {s} : handle'[t] = handle[t]
        /\ \A g \in FDs \ {f} : data'[g] = data[g] /\ kern'[g] = kern[g]
        /\ handle'[s].fd = f /\ handle'[s].slot /\ handle'[s].events = h.events
        /\ data'[f].slot \in {None, s}
        /\ data'[f].slot = None => ~kern'[f].on /\ h.events = {}
        /\ data'[f].slot = s => /\ kern'[f].on /\ data'[f].sid = handle'[s].sid
                                /\ data'[f].events = h.events
                                /\ kern'[f].events = h.events /\ kern'[f].sid = data'[f].sid
    BY <2>0, <2>1, CtlRegisters
  <2>3. /\ inst' = inst /\ opens' = opens /\ batch' = batch /\ phase' = "dispatch" /\ running' = None
        /\ uncommitted' = uncommitted
    BY DEF CallbackEnd
  <2>4. TypeOK' BY <2>2, <2>3 DEF Inv, TypeOK
  <2>5. /\ RunningIsOpen' /\ IsOpen(s)
        /\ \A t \in Sockets \ {s} : /\ inst'[t] = inst[t] /\ (Batching(t)' <=> Batching(t))
                                    /\ IsOpen(t) => handle[t].fd # f
    BY <2>0, <2>3, ConstantsAssumption DEF Inv, RunningIsOpen, IsOpen, Batching, OwnsDescriptor
  <2>6. PICK u \in Sockets : u = s BY <2>0
  <2>7. HandleMatchesTable(u)' BY <2>0, <2>2, <2>6 DEF HandleMatchesTable
  <2>8. /\ IsOpen(u)' /\ ~terminated'
        /\ data'[f].slot = None => ~kern'[f].on
        /\ data'[f].slot = u => /\ IsOpen(u)' /\ kern'[f].on
                                /\ data'[f].events = kern'[f].events /\ data'[f].sid = kern'[f].sid
        /\ IsOpen(u) => handle[u].fd = f
        /\ IsOpen(u)' => handle'[u].fd = f
    BY <2>0, <2>2, <2>3, <2>6 DEF IsOpen
  <2>9. /\ \A t \in Sockets \ {u} : /\ handle'[t] = handle[t] /\ inst'[t] = inst[t]
                                    /\ Batching(t)' <=> Batching(t)
                                    /\ t \in uncommitted' <=> t \in uncommitted
                                    /\ IsOpen(t) => handle[t].fd # f
        /\ data'[f].slot \in {None, u}
    BY <2>2, <2>3, <2>5, <2>6
  <2>10. \A g \in FDs \ {f} : data'[g] = data[g] /\ kern'[g] = kern[g] BY <2>2
  <2>11. PICK g \in FDs : g = f BY <2>0
  <2> HIDE DEF f, s, h
  <2> QED BY <2>4, <2>5, <2>7, <2>8, <2>9, <2>10, <2>11, LocalStep
<1>2. CASE running \notin Batched
  <2>1. /\ UNCHANGED <<handle, data, kern, terminated, inst, opens, batch, uncommitted>>
        /\ phase' = "dispatch" /\ running' = None
    BY <1>2 DEF CallbackEnd
  <2>2. \A s \in Sockets : ~Batching(s) /\ ~Batching(s)'
    BY <1>2, <2>1, ConstantsAssumption DEF Batching
  <2>3. ASSUME NEW s \in Sockets PROVE OwnsDescriptor(s)' /\ HandleMatchesTable(s)'
    BY <2>1, <2>2 DEF Inv, OwnsDescriptor, HandleMatchesTable, IsOpen
  <2>4. TypeOK' BY <2>1 DEF Inv, TypeOK
  <2>5. TableMatchesKernel' BY <2>1 DEF Inv, TableMatchesKernel, IsOpen
  <2> QED BY <2>1, <2>3, <2>4, <2>5, ConstantsAssumption DEF Inv, RunningIsOpen, NeverTerminates
<1> QED BY <1>1, <1>2

\* The poller's own steps: it reads the table and calls the slot of an entry, which is an
\* open socket.
LEMMA InvPoller ==
    ASSUME Inv, wait \/ DispatchSkip \/ DispatchCall \/ DispatchEnd
    PROVE  Inv'
<1>1. UNCHANGED <<handle, inst, opens, data, kern, uncommitted, terminated>>
  BY DEF wait, DispatchSkip, DispatchCall, DispatchEnd
<1>2. \A s \in Sockets : ~Batching(s)' => ~Batching(s)
  <2>1. running' = running \/ running = None
    BY DEF wait, DispatchSkip, DispatchCall, DispatchEnd, Inv, RunningIsOpen
  <2> QED BY <2>1, ConstantsAssumption DEF Batching
<1>3. ASSUME NEW s \in Sockets PROVE OwnsDescriptor(s)' /\ HandleMatchesTable(s)'
  BY <1>1, <1>2 DEF Inv, OwnsDescriptor, HandleMatchesTable, IsOpen
<1>4. TableMatchesKernel' BY <1>1 DEF Inv, TableMatchesKernel, IsOpen
<1>5. (\A ev \in batch' : ev.fd \in FDs) /\ phase' \in {"user", "dispatch", "callback"}
  <2>1. CASE wait BY <2>1 DEF wait, Inv, TypeOK
  <2>2. CASE DispatchSkip \/ DispatchCall \/ DispatchEnd
    BY <2>2 DEF DispatchSkip, DispatchCall, DispatchEnd, Inv, TypeOK
  <2> QED BY <2>1, <2>2
<1>6. running' \in Sockets \cup {None} /\ RunningIsOpen'
  <2>1. CASE wait \/ DispatchSkip \/ DispatchEnd
    BY <2>1 DEF wait, DispatchSkip, DispatchEnd, Inv, TypeOK, RunningIsOpen, IsOpen
  <2>2. CASE DispatchCall
    <3>1. PICK ev \in batch : ~Skipped(ev) /\ running' = data[ev.fd].slot BY <2>2 DEF DispatchCall
    <3>2. ev.fd \in FDs /\ data[ev.fd].slot # None BY <3>1 DEF Skipped, Inv, TypeOK
    <3>3. running' \in Sockets /\ IsOpen(data[ev.fd].slot)
      BY <3>1, <3>2 DEF Inv, TypeOK, TableMatchesKernel
    <3> QED BY <1>1, <2>2, <3>1, <3>3 DEF DispatchCall, RunningIsOpen, IsOpen
  <2> QED BY <2>1, <2>2
<1>7. TypeOK' BY <1>1, <1>5, <1>6 DEF Inv, TypeOK
<1> QED BY <1>1, <1>3, <1>4, <1>6, <1>7 DEF Inv, NeverTerminates

\* Every step preserves the invariant.
LEMMA InvNext == Disciplined /\ Inv /\ [Next]_vars => Inv'
<1> SUFFICES ASSUME Disciplined, Inv, [Next]_vars PROVE Inv' OBVIOUS
<1>1. CASE \E s \in Sockets : open(s) BY <1>1, InvOpen DEF Disciplined
<1>2. CASE \E s \in Sockets : close(s) BY <1>2, InvClose DEF Disciplined
<1>3. CASE \E s \in Sockets : \E e \in Interest : add(s, e) \/ del(s, e) BY <1>3, InvInterest
<1>4. CASE wait \/ DispatchSkip \/ DispatchCall \/ DispatchEnd BY <1>4, InvPoller
<1>5. CASE CallbackEnd BY <1>5, InvCallbackEnd
<1>6. CASE \E s \in Sockets : \E E \in {{"Read"}, Interest} : events(s, E)
  BY <1>6, InvEvents DEF Interest
<1>7. CASE UNCHANGED vars
  BY <1>7 DEF vars, Inv, TypeOK, OwnsDescriptor, HandleMatchesTable, TableMatchesKernel,
              RunningIsOpen, NeverTerminates, IsOpen, Batching
<1> QED BY <1>1, <1>2, <1>3, <1>4, <1>5, <1>6, <1>7 DEF Next

\* Handles, the poller's table and the kernel's interest list stay consistent.
THEOREM Invariance == Disciplined => (Spec => []Inv)
<1> SUFFICES ASSUME Disciplined PROVE Spec => []Inv OBVIOUS
<1>1. Inv /\ [Next]_vars => Inv' BY InvNext
<1> QED BY <1>1, InvInit, PTL DEF Spec

-----------------------------------------------------------------------------
(* What follows from the invariant *)

\* The poller's table is a copy of the kernel's interest list, and refers to open sockets.
THEOREM TableIsExact == Disciplined => (Spec => []TableMatchesKernel)
<1> SUFFICES ASSUME Disciplined PROVE Spec => []TableMatchesKernel OBVIOUS
<1>1. Inv => TableMatchesKernel BY DEF Inv
<1> QED BY <1>1, Invariance, PTL

\* A socket that wants to read or to write is registered for it, so that its event is
\* not missed, unless the interest was set with events() and never committed.
THEOREM InterestIsRegistered == Disciplined => (Spec => []InterestRegistered)
<1> SUFFICES ASSUME Disciplined PROVE Spec => []InterestRegistered OBVIOUS
<1>1. Inv => InterestRegistered
  <2> SUFFICES ASSUME Inv, NEW s \in Sockets \ uncommitted, IsOpen(s),
                      handle[s].events # {}, ~Batching(s)
               PROVE  LET f == handle[s].fd
                      IN  data[f].slot = s /\ kern[f].on /\ kern[f].events = handle[s].events
    BY DEF InterestRegistered
  <2>1. handle[s].fd \in FDs BY DEF Inv, OwnsDescriptor
  <2>2. data[handle[s].fd].slot = s /\ handle[s].events = data[handle[s].fd].events
    BY DEF Inv, HandleMatchesTable
  <2> QED BY <2>1, <2>2, ConstantsAssumption DEF Inv, TableMatchesKernel
<1> QED BY <1>1, Invariance, PTL

\* epoll_ctl() is never called so that it fails, and the noexcept commit() never throws.
THEOREM CommitNeverThrows == Disciplined => (Spec => []NeverTerminates)
<1> SUFFICES ASSUME Disciplined PROVE Spec => []NeverTerminates OBVIOUS
<1>1. Inv => NeverTerminates BY DEF Inv
<1> QED BY <1>1, Invariance, PTL

=============================================================================
