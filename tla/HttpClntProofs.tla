--------------------------- MODULE HttpClntProofs ---------------------------
(***************************************************************************)
(* Proofs about the Resolver, alone and composed with the client of        *)
(* HttpClnt, for any callers, runners, batch size and addresses: every     *)
(* task is in one place until its future has an outcome, and the client    *)
(* has one connection or one attempt.                                      *)
(***************************************************************************)
EXTENDS HttpClnt, SequenceTheorems, FiniteSetTheorems, TLAPS

-----------------------------------------------------------------------------
(* Sequences of tasks *)

\* No element occurs twice.
Distinct(s) == \A i, j \in 1 .. Len(s) : s[i] = s[j] => i = j

\* An element is in a sequence.
Contains(s, e) == \E i \in 1 .. Len(s) : s[i] = e

\* Nothing is in an empty sequence.
LEMMA EmptyHolds ==
    /\ <<>> \in Seq(Callers)
    /\ Distinct(<<>>)
    /\ \A c : ~Contains(<<>>, c)
<1>1. <<>> \in Seq(Callers) /\ Len(<<>>) = 0 BY EmptySeq
<1> QED BY <1>1 DEF Distinct, Contains

\* An element is added.
LEMMA AppendHolds ==
    ASSUME NEW s \in Seq(Callers), NEW x \in Callers
    PROVE  /\ Append(s, x) \in Seq(Callers)
           /\ \A c : Contains(Append(s, x), c) <=> Contains(s, c) \/ c = x
           /\ Distinct(s) /\ ~Contains(s, x) => Distinct(Append(s, x))
<1> DEFINE t == Append(s, x)
           n == Len(s)
<1>1. /\ t \in Seq(Callers) /\ n \in Nat /\ Len(t) = n + 1
      /\ \A i \in 1 .. n : t[i] = s[i]
      /\ t[n + 1] = x
  BY AppendProperties, LenProperties
<1> HIDE DEF t
<1>2. ASSUME NEW c PROVE Contains(t, c) <=> Contains(s, c) \/ c = x
  <2>1. ASSUME Contains(t, c) PROVE Contains(s, c) \/ c = x
    <3>1. PICK i \in 1 .. Len(t) : t[i] = c BY <2>1 DEF Contains
    <3> QED BY <1>1, <3>1 DEF Contains
  <2>2. ASSUME Contains(s, c) PROVE Contains(t, c)
    <3>1. PICK i \in 1 .. Len(s) : s[i] = c BY <2>2 DEF Contains
    <3> QED BY <1>1, <3>1 DEF Contains
  <2>3. ASSUME c = x PROVE Contains(t, c)
    <3>1. n + 1 \in 1 .. Len(t) /\ t[n + 1] = c BY <1>1, <2>3
    <3> QED BY <3>1 DEF Contains
  <2> QED BY <2>1, <2>2, <2>3
<1>3. ASSUME Distinct(s), ~Contains(s, x) PROVE Distinct(t)
  <2> SUFFICES ASSUME NEW i \in 1 .. n + 1, NEW j \in 1 .. n + 1, t[i] = t[j] PROVE i = j
    BY <1>1 DEF Distinct
  <2>1. \A k \in 1 .. n : s[k] # x BY <1>3 DEF Contains
  <2>2. CASE i = n + 1 /\ j \in 1 .. n BY <1>1, <2>1, <2>2
  <2>3. CASE i \in 1 .. n /\ j = n + 1 BY <1>1, <2>1, <2>3
  <2>4. CASE i \in 1 .. n /\ j \in 1 .. n BY <1>1, <1>3, <2>4 DEF Distinct
  <2> QED BY <1>1, <2>2, <2>3, <2>4
<1> QED BY <1>1, <1>2, <1>3 DEF t

\* A sequence is split in two.
LEMMA SplitHolds ==
    ASSUME NEW s \in Seq(Callers), NEW n \in 0 .. Len(s)
    PROVE  LET pre == SubSeq(s, 1, n)
               post == SubSeq(s, n + 1, Len(s))
           IN  /\ pre \in Seq(Callers) /\ post \in Seq(Callers)
               /\ \A c : Contains(s, c) <=> Contains(pre, c) \/ Contains(post, c)
               /\ Distinct(s) => /\ Distinct(pre) /\ Distinct(post)
                                 /\ \A c : ~(Contains(pre, c) /\ Contains(post, c))
<1> DEFINE pre == SubSeq(s, 1, n)
           post == SubSeq(s, n + 1, Len(s))
           m == Len(s)
<1>1. m \in Nat /\ n \in Nat /\ n <= m /\ \A i \in 1 .. m : s[i] \in Callers
  BY LenProperties, ElementOfSeq
<1>2. pre \in Seq(Callers) /\ Len(pre) = n /\ \A i \in 1 .. n : pre[i] = s[i]
  <2>1. \A i \in 1 .. n : s[i] \in Callers BY <1>1
  <2>2. /\ pre \in Seq(Callers) /\ Len(pre) = IF 1 <= n THEN n - 1 + 1 ELSE 0
        /\ \A i \in 1 .. n - 1 + 1 : pre[i] = s[1 + i - 1]
    BY <1>1, <2>1, SubSeqProperties
  <2> HIDE DEF pre
  <2> QED BY <1>1, <2>2
<1>3. post \in Seq(Callers) /\ Len(post) = m - n /\ \A i \in 1 .. m - n : post[i] = s[n + i]
  <2>1. \A i \in n + 1 .. m : s[i] \in Callers BY <1>1
  <2>2. n + 1 \in Int /\ m \in Int BY <1>1
  <2>3. /\ post \in Seq(Callers) /\ Len(post) = IF n + 1 <= m THEN m - (n + 1) + 1 ELSE 0
        /\ \A i \in 1 .. m - (n + 1) + 1 : post[i] = s[(n + 1) + i - 1]
    <3> HIDE DEF m
    <3> QED BY <2>1, <2>2, SubSeqProperties DEF m
  <2> HIDE DEF post
  <2> QED BY <1>1, <2>3
<1> HIDE DEF pre, post
<1>4. ASSUME NEW c PROVE Contains(s, c) <=> Contains(pre, c) \/ Contains(post, c)
  <2>1. ASSUME Contains(s, c) PROVE Contains(pre, c) \/ Contains(post, c)
    <3>1. PICK i \in 1 .. m : s[i] = c BY <2>1 DEF Contains
    <3>2. CASE i <= n BY <1>1, <1>2, <3>1, <3>2 DEF Contains
    <3>3. CASE i > n
      <4>1. i - n \in 1 .. m - n /\ n + (i - n) = i BY <1>1, <3>1, <3>3
      <4>2. post[i - n] = c BY <1>3, <3>1, <4>1
      <4> QED BY <1>3, <4>1, <4>2 DEF Contains
    <3> QED BY <1>1, <3>2, <3>3
  <2>2. ASSUME Contains(pre, c) PROVE Contains(s, c)
    <3>1. PICK i \in 1 .. n : pre[i] = c BY <1>2, <2>2 DEF Contains
    <3> QED BY <1>1, <1>2, <3>1 DEF Contains
  <2>3. ASSUME Contains(post, c) PROVE Contains(s, c)
    <3>1. PICK i \in 1 .. m - n : post[i] = c BY <1>3, <2>3 DEF Contains
    <3>2. n + i \in 1 .. m /\ s[n + i] = c BY <1>1, <1>3, <3>1
    <3> QED BY <3>2 DEF Contains
  <2> QED BY <2>1, <2>2, <2>3
<1>5. ASSUME Distinct(s)
      PROVE  Distinct(pre) /\ Distinct(post) /\ \A c : ~(Contains(pre, c) /\ Contains(post, c))
  <2>1. Distinct(pre) BY <1>1, <1>2, <1>5 DEF Distinct
  <2>2. Distinct(post)
    <3> SUFFICES ASSUME NEW i \in 1 .. m - n, NEW j \in 1 .. m - n, post[i] = post[j] PROVE i = j
      BY <1>3 DEF Distinct
    <3>1. n + i \in 1 .. m /\ n + j \in 1 .. m /\ s[n + i] = s[n + j] BY <1>1, <1>3
    <3>2. n + i = n + j BY <1>5, <3>1 DEF Distinct
    <3> QED BY <1>1, <3>2
  <2>3. ASSUME NEW c, Contains(pre, c), Contains(post, c) PROVE FALSE
    <3>1. PICK i \in 1 .. n : pre[i] = c BY <1>2, <2>3 DEF Contains
    <3>2. PICK j \in 1 .. m - n : post[j] = c BY <1>3, <2>3 DEF Contains
    <3>3. i \in 1 .. m /\ n + j \in 1 .. m /\ s[i] = s[n + j] BY <1>1, <1>2, <1>3, <3>1, <3>2
    <3>4. i = n + j BY <1>5, <3>3 DEF Distinct
    <3> QED BY <1>1, <3>1, <3>2, <3>4
  <2> QED BY <2>1, <2>2, <2>3
<1> QED BY <1>2, <1>3, <1>4, <1>5 DEF pre, post

\* The first element is taken.
LEMMA TailHolds ==
    ASSUME NEW s \in Seq(Callers), s # <<>>
    PROVE  /\ Head(s) \in Callers /\ Tail(s) \in Seq(Callers)
           /\ \A c : Contains(s, c) <=> c = Head(s) \/ Contains(Tail(s), c)
           /\ Distinct(s) => Distinct(Tail(s)) /\ ~Contains(Tail(s), Head(s))
<1> DEFINE pre == SubSeq(s, 1, 1)
           post == SubSeq(s, 1 + 1, Len(s))
<1>1. Len(s) \in Nat \ {0} /\ 1 \in 0 .. Len(s) BY EmptySeq
<1>2. Head(s) \in Callers /\ Tail(s) = SubSeq(s, 2, Len(s)) /\ Head(s) = s[1]
  BY HeadTailProperties, TailIsSubSeq
<1>3. Tail(s) = post BY <1>2
<1>4. Len(pre) = 1 /\ pre[1] = s[1]
  <2>1. \A i \in 1 .. 1 : s[i] \in Callers BY <1>1, ElementOfSeq
  <2>2. /\ Len(SubSeq(s, 1, 1)) = IF 1 <= 1 THEN 1 - 1 + 1 ELSE 0
        /\ \A i \in 1 .. 1 - 1 + 1 : SubSeq(s, 1, 1)[i] = s[1 + i - 1]
    BY <2>1, SubSeqProperties
  <2> QED BY <2>2
<1>5. \A c : Contains(pre, c) <=> c = Head(s) BY <1>2, <1>4 DEF Contains
<1>6. /\ post \in Seq(Callers)
      /\ \A c : Contains(s, c) <=> Contains(pre, c) \/ Contains(post, c)
      /\ Distinct(s) => /\ Distinct(post)
                        /\ \A c : ~(Contains(pre, c) /\ Contains(post, c))
  BY <1>1, SplitHolds
<1> HIDE DEF pre, post
<1> QED BY <1>2, <1>3, <1>5, <1>6

-----------------------------------------------------------------------------
(* The resolver's inductive invariant *)

Batched(c) == \E r \in Runners : Contains(tasks[r], c)

\* The values of the resolver's variables.
TypeOK ==
    /\ queue \in Seq(Callers)
    /\ tasks \in [Runners -> Seq(Callers)]
    /\ future \in [Callers -> {"none", "pending", "ready", "broken"}]
    /\ DOMAIN pc = Callers \cup Runners

\* A task is once in the queue or once in one batch, and it is there just as long as its
\* future is pending; only a thread that executes has a batch; a caller that has not yet
\* queued its task, or could not, has no future.
OncePending ==
    /\ Distinct(queue) /\ \A r \in Runners : Distinct(tasks[r])
    /\ \A c \in Callers : ~(Contains(queue, c) /\ Batched(c))
    /\ \A c \in Callers : \A r, s \in Runners :
          Contains(tasks[r], c) /\ Contains(tasks[s], c) => r = s
    /\ \A c \in Callers : (future[c] = "pending") <=> (Contains(queue, c) \/ Batched(c))
    /\ \A r \in Runners : pc[r] # "execute" => tasks[r] = <<>>
    /\ \A c \in Callers : pc[c] \in {"call", "thrown"} => future[c] = "none"

ResolverInv == TypeOK /\ OncePending

\* The client has a connection, or an attempt, or neither; it does not ask for another
\* address while a lookup is pending.
ClntInv ==
    /\ conns \in {0, 1}
    /\ attempt => inprogress /\ conns = 0 /\ cpc = "idle" /\ ~valid
    /\ cpc = "idle" /\ ~valid => future[Clnt] # "pending"
    /\ cpc # "idle" => ~valid

-----------------------------------------------------------------------------
(* Every step of the resolver preserves it *)

\* Steps that move no task.
LEMMA QuietStep ==
    ASSUME ResolverInv, UNCHANGED <<queue, tasks, future>>,
           DOMAIN pc' = Callers \cup Runners,
           \A r \in Runners : pc'[r] # "execute" => pc[r] # "execute" \/ tasks[r] = <<>>,
           \A c \in Callers : pc'[c] \in {"call", "thrown"} => pc[c] \in {"call", "thrown"}
    PROVE  ResolverInv'
<1>1. TypeOK' BY DEF ResolverInv, TypeOK
<1>2. \A c : Batched(c)' <=> Batched(c) BY DEF Batched
<1>3. OncePending' BY <1>2 DEF ResolverInv, OncePending
<1> QED BY <1>1, <1>3 DEF ResolverInv

\* resolve() queues a task.
LEMMA PushStep ==
    ASSUME ResolverInv, NEW c \in Callers, ResolvePush(c)
    PROVE  ResolverInv'
<1>0. TypeOK /\ OncePending BY DEF ResolverInv
<1>1. /\ pc[c] = "call" /\ queue' = Append(queue, c) /\ tasks' = tasks
      /\ future' = [future EXCEPT ![c] = "pending"] /\ pc' = [pc EXCEPT ![c] = "notify"]
  BY DEF ResolvePush
<1>2. future[c] = "none" BY <1>0, <1>1 DEF OncePending
<1>3. ~Contains(queue, c) /\ ~Batched(c) BY <1>0, <1>2 DEF OncePending
<1>4. /\ queue' \in Seq(Callers) /\ Distinct(queue')
      /\ \A d : Contains(queue', d) <=> Contains(queue, d) \/ d = c
  <2>1. queue \in Seq(Callers) /\ Distinct(queue) BY <1>0 DEF TypeOK, OncePending
  <2> QED BY <1>1, <1>3, <2>1, AppendHolds
<1>5. \A d : Batched(d)' <=> Batched(d) BY <1>1 DEF Batched
<1>6. TypeOK' BY <1>0, <1>1, <1>4 DEF TypeOK
<1>7. /\ future'[c] = "pending" /\ \A d \in Callers \ {c} : future'[d] = future[d]
      /\ pc'[c] = "notify" /\ \A x \in (Callers \cup Runners) \ {c} : pc'[x] = pc[x]
  BY <1>0, <1>1 DEF TypeOK
<1>8. OncePending'
  <2>1. \A d \in Callers : ~(Contains(queue', d) /\ Batched(d)') BY <1>0, <1>3, <1>4, <1>5 DEF OncePending
  <2>2. \A d \in Callers : (future'[d] = "pending") <=> (Contains(queue', d) \/ Batched(d)')
    BY <1>0, <1>4, <1>5, <1>7 DEF OncePending
  <2>3. \A r \in Runners : pc'[r] # "execute" => tasks'[r] = <<>>
    BY <1>0, <1>1, <1>7, ConstantsAssumption DEF OncePending
  <2>4. \A d \in Callers : pc'[d] \in {"call", "thrown"} => future'[d] = "none"
    BY <1>0, <1>7 DEF OncePending
  <2> QED BY <1>0, <1>1, <1>4, <2>1, <2>2, <2>3, <2>4 DEF OncePending
<1> QED BY <1>6, <1>8 DEF ResolverInv

\* The queue is cleared, and the promises of its tasks are broken.
LEMMA ClearStep ==
    ASSUME ResolverInv, Break, queue' = <<>>, tasks' = tasks,
           DOMAIN pc' = Callers \cup Runners,
           \A r \in Runners : pc'[r] # "execute" => tasks[r] = <<>>,
           \A c \in Callers : pc'[c] = pc[c]
    PROVE  ResolverInv'
<1>0. TypeOK /\ OncePending BY DEF ResolverInv
<1>1. /\ queue' \in Seq(Callers) /\ Distinct(queue') /\ \A c : ~Contains(queue', c) BY EmptyHolds
<1>2. \A d : Batched(d)' <=> Batched(d) BY DEF Batched
<1>3. \A c \in Callers : future'[c] = IF Contains(queue, c) THEN "broken" ELSE future[c]
  BY <1>0, RangeEquality DEF Break, Contains, TypeOK
<1>4. future' \in [Callers -> {"none", "pending", "ready", "broken"}] BY <1>0 DEF Break, TypeOK
<1>5. TypeOK' BY <1>0, <1>1, <1>4 DEF TypeOK
<1>6. OncePending'
  <2>1. \A d \in Callers : (future'[d] = "pending") <=> (Contains(queue', d) \/ Batched(d)')
    BY <1>0, <1>1, <1>2, <1>3 DEF OncePending
  <2>2. \A d \in Callers : pc'[d] \in {"call", "thrown"} => future'[d] = "none"
    BY <1>0, <1>3 DEF OncePending
  <2> QED BY <1>0, <1>1, <2>1, <2>2 DEF OncePending
<1> QED BY <1>5, <1>6 DEF ResolverInv

\* A thread takes a batch from the queue.
LEMMA TakeStep ==
    ASSUME ResolverInv, NEW r \in Runners, RunTake(r)
    PROVE  ResolverInv'
<1>0. TypeOK /\ OncePending BY DEF ResolverInv
<1>1. PICK n \in 0 .. Len(queue) :
          tasks' = [tasks EXCEPT ![r] = SubSeq(queue, 1, n)] /\ queue' = SubSeq(queue, n + 1, Len(queue))
  <2> DEFINE n == IF Len(queue) < BatchSize THEN Len(queue) ELSE BatchSize
  <2>1. Len(queue) \in Nat BY <1>0, LenProperties DEF TypeOK
  <2>2. n \in 0 .. Len(queue) BY <2>1, ConstantsAssumption
  <2>3. tasks' = [tasks EXCEPT ![r] = SubSeq(queue, 1, n)] /\ queue' = SubSeq(queue, n + 1, Len(queue))
    BY DEF RunTake
  <2> QED BY <2>2, <2>3
<1>2. pc[r] \in {"run", "woken"} /\ future' = future /\ pc' = [pc EXCEPT ![r] = "execute"]
  BY DEF RunTake
<1>3. tasks[r] = <<>> BY <1>0, <1>2 DEF OncePending
<1>4. tasks'[r] = SubSeq(queue, 1, n) /\ \A s \in Runners \ {r} : tasks'[s] = tasks[s]
  BY <1>0, <1>1 DEF TypeOK
<1>5. /\ tasks'[r] \in Seq(Callers) /\ queue' \in Seq(Callers)
      /\ Distinct(tasks'[r]) /\ Distinct(queue')
      /\ \A c : Contains(queue, c) <=> Contains(tasks'[r], c) \/ Contains(queue', c)
      /\ \A c : ~(Contains(tasks'[r], c) /\ Contains(queue', c))
  <2>1. queue \in Seq(Callers) /\ Distinct(queue) BY <1>0 DEF TypeOK, OncePending
  <2> DEFINE pre == SubSeq(queue, 1, n)
             post == SubSeq(queue, n + 1, Len(queue))
  <2>2. /\ pre \in Seq(Callers) /\ post \in Seq(Callers)
        /\ \A c : Contains(queue, c) <=> Contains(pre, c) \/ Contains(post, c)
        /\ Distinct(queue) => /\ Distinct(pre) /\ Distinct(post)
                              /\ \A c : ~(Contains(pre, c) /\ Contains(post, c))
    BY <2>1, SplitHolds
  <2>3. tasks'[r] = pre /\ queue' = post BY <1>1, <1>4
  <2> HIDE DEF pre, post
  <2> QED BY <2>1, <2>2, <2>3
<1>6. \A c : ~Contains(tasks[r], c) BY <1>3, EmptyHolds
<1>7. \A c : Batched(c)' <=> Batched(c) \/ Contains(tasks'[r], c) BY <1>4, <1>6 DEF Batched
<1>8. TypeOK' BY <1>0, <1>1, <1>2, <1>4, <1>5 DEF TypeOK
<1>9. pc'[r] = "execute" /\ \A x \in (Callers \cup Runners) \ {r} : pc'[x] = pc[x]
  BY <1>0, <1>2 DEF TypeOK
<1>10. OncePending'
  <2>1. \A s \in Runners : Distinct(tasks'[s]) BY <1>0, <1>4, <1>5 DEF OncePending
  <2>2. \A c \in Callers : ~(Contains(queue', c) /\ Batched(c)')
    BY <1>0, <1>5, <1>7 DEF OncePending
  <2>3. \A c \in Callers : (future'[c] = "pending") <=> (Contains(queue', c) \/ Batched(c)')
    BY <1>0, <1>2, <1>5, <1>7 DEF OncePending
  <2>4. ASSUME NEW c \in Callers, NEW s \in Runners, NEW t \in Runners,
               Contains(tasks'[s], c), Contains(tasks'[t], c)
        PROVE  s = t
    <3>1. CASE s = r /\ t # r
      <4>1. Contains(queue, c) /\ Batched(c) BY <1>4, <1>5, <2>4, <3>1 DEF Batched
      <4> QED BY <1>0, <4>1 DEF OncePending
    <3>2. CASE s # r /\ t = r
      <4>1. Contains(queue, c) /\ Batched(c) BY <1>4, <1>5, <2>4, <3>2 DEF Batched
      <4> QED BY <1>0, <4>1 DEF OncePending
    <3>3. CASE s # r /\ t # r BY <1>0, <1>4, <2>4, <3>3 DEF OncePending
    <3> QED BY <3>1, <3>2, <3>3
  <2>5. \A s \in Runners : pc'[s] # "execute" => tasks'[s] = <<>> BY <1>0, <1>4, <1>9 DEF OncePending
  <2>6. \A c \in Callers : pc'[c] \in {"call", "thrown"} => future'[c] = "none"
    BY <1>0, <1>2, <1>9, ConstantsAssumption DEF OncePending
  <2> QED BY <1>5, <2>1, <2>2, <2>3, <2>4, <2>5, <2>6 DEF OncePending
<1> QED BY <1>8, <1>10 DEF ResolverInv

\* A thread executes the first task of its batch.
LEMMA ExecuteStep ==
    ASSUME ResolverInv, NEW r \in Runners, RunExecute(r)
    PROVE  ResolverInv'
<1>0. TypeOK /\ OncePending BY DEF ResolverInv
<1>1. /\ tasks[r] # <<>> /\ tasks[r] \in Seq(Callers) /\ Distinct(tasks[r]) /\ pc[r] = "execute"
      /\ UNCHANGED <<queue, pc>>
  BY <1>0 DEF RunExecute, TypeOK, OncePending
<1>2. PICK h \in Callers : h = Head(tasks[r]) BY <1>1, TailHolds
<1>3. future' = [future EXCEPT ![h] = "ready"] /\ tasks' = [tasks EXCEPT ![r] = Tail(tasks[r])]
  BY <1>2 DEF RunExecute
<1>4. /\ tasks'[r] = Tail(tasks[r]) /\ \A s \in Runners \ {r} : tasks'[s] = tasks[s]
      /\ future'[h] = "ready" /\ \A c \in Callers \ {h} : future'[c] = future[c]
  BY <1>0, <1>3 DEF TypeOK
<1>5. /\ tasks'[r] \in Seq(Callers) /\ Distinct(tasks'[r]) /\ ~Contains(tasks'[r], h)
      /\ \A c : Contains(tasks[r], c) <=> c = h \/ Contains(tasks'[r], c)
  BY <1>1, <1>2, <1>4, TailHolds
<1>6. \A s \in Runners \ {r} : ~Contains(tasks'[s], h) BY <1>0, <1>4, <1>5 DEF OncePending
<1>7. ~Contains(queue, h) BY <1>0, <1>5 DEF OncePending, Batched
<1>8. \A c \in Callers : Batched(c)' <=> Batched(c) /\ c # h
  <2>1. ~Batched(h)' BY <1>5, <1>6 DEF Batched
  <2>2. ASSUME NEW c \in Callers, c # h PROVE Batched(c)' <=> Batched(c)
    <3>1. \A s \in Runners : Contains(tasks'[s], c) <=> Contains(tasks[s], c) BY <1>4, <1>5, <2>2
    <3> QED BY <3>1 DEF Batched
  <2> QED BY <2>1, <2>2
<1>9. TypeOK' BY <1>0, <1>1, <1>3, <1>5 DEF TypeOK
<1>10. OncePending'
  <2>1. \A s \in Runners : Distinct(tasks'[s]) BY <1>0, <1>4, <1>5 DEF OncePending
  <2>2. \A c \in Callers : ~(Contains(queue', c) /\ Batched(c)') BY <1>0, <1>1, <1>8 DEF OncePending
  <2>3. \A c \in Callers : (future'[c] = "pending") <=> (Contains(queue', c) \/ Batched(c)')
    BY <1>0, <1>1, <1>4, <1>7, <1>8 DEF OncePending
  <2>4. \A c \in Callers : \A s, t \in Runners : Contains(tasks'[s], c) /\ Contains(tasks'[t], c) => s = t
    <3>1. \A c : \A s \in Runners : Contains(tasks'[s], c) => Contains(tasks[s], c) BY <1>4, <1>5
    <3> QED BY <1>0, <3>1 DEF OncePending
  <2>5. \A s \in Runners : pc'[s] # "execute" => tasks'[s] = <<>> BY <1>0, <1>1, <1>4 DEF OncePending
  <2>6. \A c \in Callers : pc'[c] \in {"call", "thrown"} => future'[c] = "none"
    <3>1. future[h] = "pending" BY <1>0, <1>5 DEF OncePending, Batched
    <3> QED BY <1>0, <1>1, <1>4, <3>1 DEF OncePending
  <2>7. Distinct(queue') BY <1>0, <1>1 DEF OncePending
  <2> QED BY <2>1, <2>2, <2>3, <2>4, <2>5, <2>6, <2>7 DEF OncePending
<1> QED BY <1>9, <1>10 DEF ResolverInv

\* Every step of resolve(), of a thread, of a destructor or of clear().
LEMMA ResolverStepInv ==
    ASSUME ResolverInv,
           \/ \E c \in Callers : Resolve(c)
           \/ \E r \in Runners : Run(r) \/ Destroy(r)
           \/ clear
           \/ UNCHANGED vars
    PROVE  ResolverInv'
<1>0. TypeOK /\ OncePending /\ DOMAIN pc = Callers \cup Runners BY DEF ResolverInv, TypeOK
<1>1. ASSUME NEW c \in Callers, ResolveThrows(c) PROVE ResolverInv'
  <2>1. \A x \in Callers \cup Runners : pc'[x] = IF x = c THEN "thrown" ELSE pc[x]
    BY <1>0, <1>1 DEF ResolveThrows
  <2>2. pc[c] = "call" /\ DOMAIN pc' = Callers \cup Runners /\ UNCHANGED <<queue, tasks, future>>
    BY <1>0, <1>1 DEF ResolveThrows
  <2> QED BY <2>1, <2>2, QuietStep, ConstantsAssumption
<1>2. ASSUME NEW c \in Callers, ResolvePush(c) PROVE ResolverInv' BY <1>2, PushStep
<1>3. ASSUME NEW c \in Callers, ResolveNotify(c) PROVE ResolverInv'
  <2>1. PICK woken \in SUBSET Waiting : Notify(c, "returned", woken)
    BY <1>3 DEF ResolveNotify
  <2>2. /\ DOMAIN pc' = Callers \cup Runners
        /\ \A x \in Callers \cup Runners :
              pc'[x] = IF x = c THEN "returned" ELSE IF x \in woken THEN "woken" ELSE pc[x]
    BY <2>1 DEF Notify
  <2>3. UNCHANGED <<queue, tasks, future>> BY <1>3 DEF ResolveNotify
  <2>4. \A x \in woken : x \in Runners /\ pc[x] = "waiting" BY <2>1 DEF Waiting
  <2> QED BY <2>2, <2>3, <2>4, QuietStep, ConstantsAssumption
<1>4. ASSUME NEW r \in Runners, RunWait(r) PROVE ResolverInv'
  <2>1. /\ DOMAIN pc' = Callers \cup Runners /\ pc[r] \in {"run", "woken"}
        /\ \A x \in Callers \cup Runners : pc'[x] = IF x = r THEN "waiting" ELSE pc[x]
        /\ UNCHANGED <<queue, tasks, future>>
    BY <1>0, <1>4 DEF RunWait
  <2> QED BY <2>1, QuietStep, ConstantsAssumption
<1>5. ASSUME NEW r \in Runners, RunStop(r) PROVE ResolverInv'
  <2>1. /\ DOMAIN pc' = Callers \cup Runners /\ pc[r] \in {"run", "woken"}
        /\ \A x \in Callers \cup Runners : pc'[x] = IF x = r THEN "ended" ELSE pc[x]
        /\ Break /\ queue' = <<>> /\ tasks' = tasks
    BY <1>0, <1>5 DEF RunStop
  <2>2. \A s \in Runners : pc'[s] # "execute" => tasks[s] = <<>> BY <1>0, <2>1 DEF OncePending
  <2>3. \A c \in Callers : pc'[c] = pc[c] BY <2>1, ConstantsAssumption
  <2> QED BY <2>1, <2>2, <2>3, ClearStep
<1>6. ASSUME NEW r \in Runners, RunTake(r) PROVE ResolverInv' BY <1>6, TakeStep
<1>7. ASSUME NEW r \in Runners, RunExecute(r) PROVE ResolverInv' BY <1>7, ExecuteStep
<1>8. ASSUME NEW r \in Runners, RunReturn(r) PROVE ResolverInv'
  <2>1. /\ DOMAIN pc' = Callers \cup Runners /\ tasks[r] = <<>>
        /\ \A x \in Callers \cup Runners : pc'[x] = IF x = r THEN "run" ELSE pc[x]
        /\ UNCHANGED <<queue, tasks, future>>
    BY <1>0, <1>8 DEF RunReturn
  <2> QED BY <2>1, QuietStep, ConstantsAssumption
<1>9. CASE clear
  <2>1. Break /\ queue' = <<>> /\ tasks' = tasks /\ pc' = pc BY <1>9 DEF clear
  <2>2. \A s \in Runners : pc'[s] # "execute" => tasks[s] = <<>> BY <1>0, <2>1 DEF OncePending
  <2> QED BY <1>0, <2>1, <2>2, ClearStep
<1>10. ASSUME NEW r \in Runners, StopNotify(r) PROVE ResolverInv'
  <2>1. /\ DOMAIN pc' = Callers \cup Runners /\ UNCHANGED <<queue, tasks, future>>
        /\ \A x \in Callers \cup Runners : pc'[x] = IF x \in Waiting THEN "woken" ELSE pc[x]
    BY <1>0, <1>10 DEF StopNotify
  <2>2. \A x \in Waiting : x \in Runners /\ pc[x] = "waiting" BY DEF Waiting
  <2> QED BY <2>1, <2>2, QuietStep
<1>11. ASSUME NEW r \in Runners, StopFlag(r) \/ Join(r) PROVE ResolverInv'
  BY <1>0, <1>11, QuietStep DEF StopFlag, Join
<1>12. CASE UNCHANGED vars BY <1>0, <1>12, QuietStep DEF vars
<1> QED BY <1>1, <1>2, <1>3, <1>4, <1>5, <1>6, <1>7, <1>8, <1>9, <1>10, <1>11, <1>12
        DEF Resolve, Run, Destroy

\* The initial states of the resolver, alone and with the client.
LEMMA ResolverInit == (Init => ResolverInv) /\ (InitClnt => ResolverInv)
<1> SUFFICES ASSUME Init \/ InitClnt PROVE ResolverInv OBVIOUS
<1>1. /\ queue = <<>> /\ tasks = [r \in Runners |-> <<>>] /\ future = [c \in Callers |-> "none"]
      /\ DOMAIN pc = Callers \cup Runners
  BY DEF Init, InitClnt
<1>2. \A c : ~Contains(queue, c) /\ ~Batched(c) BY <1>1, EmptyHolds DEF Batched
<1>3. TypeOK BY <1>1, EmptyHolds DEF TypeOK
<1>4. \A r \in Runners : tasks[r] = <<>> BY <1>1
<1>5. OncePending BY <1>1, <1>2, <1>4, EmptyHolds DEF OncePending
<1> QED BY <1>3, <1>5 DEF ResolverInv

\* The invariant gives each task its one place.
LEMMA OncePendingPlaces == ResolverInv => TaskInOnePlace
<1> SUFFICES ASSUME ResolverInv, NEW c \in Callers
             PROVE  Cardinality(Places(c)) = (IF future[c] = "pending" THEN 1 ELSE 0)
  BY DEF TaskInOnePlace
<1>0. TypeOK /\ OncePending BY DEF ResolverInv
<1>1. CASE future[c] # "pending"
  <2>1. ~Contains(queue, c) /\ \A r \in Runners : ~Contains(tasks[r], c)
    BY <1>0, <1>1 DEF OncePending, Batched
  <2>2. {i \in 1 .. Len(queue) : queue[i] = c} = {} BY <2>1 DEF Contains
  <2>3. \A r \in Runners : {i \in 1 .. Len(tasks[r]) : tasks[r][i] = c} = {}
    BY <2>1 DEF Contains
  <2>4. Places(c) = {} BY <2>2, <2>3 DEF Places
  <2> QED BY <1>1, <2>4, FS_EmptySet
<1>2. CASE future[c] = "pending"
  <2>1. \E x : Places(c) = {x}
    <3>1. CASE Contains(queue, c)
      <4>1. \A r \in Runners : ~Contains(tasks[r], c) BY <1>0, <3>1 DEF OncePending, Batched
      <4>2. PICK k \in 1 .. Len(queue) : queue[k] = c BY <3>1 DEF Contains
      <4>3. \A i \in 1 .. Len(queue) : queue[i] = c => i = k
        BY <1>0, <4>2 DEF OncePending, Distinct
      <4>4. {i \in 1 .. Len(queue) : queue[i] = c} = {k} BY <4>2, <4>3
      <4>5. \A r \in Runners : {i \in 1 .. Len(tasks[r]) : tasks[r][i] = c} = {}
        BY <4>1 DEF Contains
      <4>6. Places(c) = {<<"queue", k>>} BY <4>4, <4>5 DEF Places
      <4> QED BY <4>6
    <3>2. CASE ~Contains(queue, c)
      <4>1. PICK r \in Runners : Contains(tasks[r], c) BY <1>0, <1>2, <3>2 DEF OncePending, Batched
      <4>2. \A s \in Runners : s # r => ~Contains(tasks[s], c) BY <1>0, <4>1 DEF OncePending
      <4>3. PICK k \in 1 .. Len(tasks[r]) : tasks[r][k] = c BY <4>1 DEF Contains
      <4>4. \A i \in 1 .. Len(tasks[r]) : tasks[r][i] = c => i = k
        BY <1>0, <4>3 DEF OncePending, Distinct
      <4>5. {i \in 1 .. Len(queue) : queue[i] = c} = {} BY <3>2 DEF Contains
      <4>6. {i \in 1 .. Len(tasks[r]) : tasks[r][i] = c} = {k} BY <4>3, <4>4
      <4>7. \A s \in Runners : s # r => {i \in 1 .. Len(tasks[s]) : tasks[s][i] = c} = {}
        BY <4>2 DEF Contains
      <4>8. Places(c) = {<<"tasks", r, k>>} BY <4>5, <4>6, <4>7 DEF Places
      <4> QED BY <4>8
    <3> QED BY <3>1, <3>2
  <2> QED BY <1>2, <2>1, FS_Singleton
<1> QED BY <1>1, <1>2

\* The resolver alone: however resolve(), the threads, clear() and the destructors of the
\* runners interleave, a task whose future is pending is in the queue or in one thread's
\* batch, once, and no other task is anywhere.
THEOREM TasksHaveOnePlace == Spec => []TaskInOnePlace
<1>1. Init => ResolverInv BY ResolverInit
<1>2. ResolverInv /\ [Next]_vars => ResolverInv' BY ResolverStepInv DEF Next
<1> QED BY <1>1, <1>2, OncePendingPlaces, PTL DEF Spec

-----------------------------------------------------------------------------
(* The client *)

\* The client begins a call of resolve() when its last future is not pending.
LEMMA BeginStep ==
    ASSUME ResolverInv, Clnt \in Callers, NEW f, BeginResolve(f), future[Clnt] # "pending"
    PROVE  ResolverInv' /\ future'[Clnt] = "none"
<1>0. TypeOK /\ OncePending BY DEF ResolverInv
<1>1. /\ future' = [future EXCEPT ![Clnt] = "none"] /\ pc' = [pc EXCEPT ![Clnt] = "call"]
      /\ UNCHANGED <<queue, tasks>>
  BY DEF BeginResolve
<1>2. /\ future'[Clnt] = "none" /\ \A c \in Callers \ {Clnt} : future'[c] = future[c]
      /\ \A x \in (Callers \cup Runners) \ {Clnt} : pc'[x] = pc[x]
  BY <1>0, <1>1 DEF TypeOK
<1>3. TypeOK' BY <1>0, <1>1 DEF TypeOK
<1>4. \A c : Batched(c)' <=> Batched(c) BY <1>1 DEF Batched
<1>5. OncePending'
  <2>1. \A c \in Callers : (future'[c] = "pending") <=> (Contains(queue', c) \/ Batched(c)')
    BY <1>0, <1>1, <1>2, <1>4 DEF OncePending
  <2>2. \A c \in Callers : pc'[c] \in {"call", "thrown"} => future'[c] = "none"
    BY <1>0, <1>2 DEF OncePending
  <2>3. \A r \in Runners : pc'[r] # "execute" => tasks'[r] = <<>>
    BY <1>0, <1>1, <1>2, ConstantsAssumption DEF OncePending
  <2> QED BY <1>0, <1>1, <1>4, <2>1, <2>2, <2>3 DEF OncePending
<1> QED BY <1>2, <1>3, <1>5 DEF ResolverInv

\* Only resolve() makes the future of a caller pending.
LEMMA PendingByPush ==
    ASSUME ResolverInv, NEW d \in Callers, future[d] # "pending",
           \/ \E c \in Callers : Resolve(c) /\ c # d
           \/ \E r \in Runners : Run(r) \/ Destroy(r)
           \/ clear
    PROVE  future'[d] # "pending"
<1>0. TypeOK /\ OncePending BY DEF ResolverInv
<1>1. ASSUME NEW c \in Callers, Resolve(c), c # d PROVE future'[d] # "pending"
  BY <1>0, <1>1 DEF TypeOK, Resolve, ResolveThrows, ResolvePush, ResolveNotify
<1>2. ASSUME NEW r \in Runners, RunExecute(r) PROVE future'[d] # "pending"
  BY <1>0, <1>2 DEF TypeOK, RunExecute
<1>3. ASSUME Break PROVE future'[d] # "pending"
  BY <1>0, <1>3 DEF TypeOK, Break
<1>4. ASSUME NEW r \in Runners, Run(r) \/ Destroy(r) PROVE future'[d] # "pending"
  BY <1>2, <1>3, <1>4
     DEF Run, RunWait, RunStop, RunTake, RunReturn, Destroy, StopFlag, StopNotify, Join
<1>5. CASE clear BY <1>3, <1>5 DEF clear
<1> QED BY <1>1, <1>4, <1>5

\* Every step of the client, of its environment and of the resolver.
LEMMA ClntStep ==
    ASSUME Clnt \in Callers, ResolverInv, ClntInv, [NextClnt]_allVars
    PROVE  ResolverInv' /\ ClntInv'
<1>0. TypeOK /\ OncePending BY DEF ResolverInv
<1>1. CASE UNCHANGED allVars
  <2>1. UNCHANGED vars /\ UNCHANGED clntVars BY <1>1 DEF allVars
  <2> QED BY <2>1, ResolverStepInv DEF vars, clntVars, ClntInv
<1>2. ASSUME UNCHANGED vars, ClntInv' PROVE ResolverInv' /\ ClntInv' BY <1>2, ResolverStepInv
<1>3. CASE ConnectNow
  <2>1. UNCHANGED vars BY <1>3 DEF ConnectNow, Reconnect
  <2>2. future' = future BY <2>1 DEF vars
  <2>3. ClntInv' /\ future[Clnt] # "pending"
    BY <1>3, <2>2 DEF ClntInv, ConnectNow, NewConn, Reconnect, Idle, Resolved
  <2> QED BY <1>2, <2>1, <2>3
<1>4. CASE ConnectLater
  <2>1. UNCHANGED vars BY <1>4 DEF ConnectLater, Reconnect
  <2>2. future' = future BY <2>1 DEF vars
  <2>3. ClntInv' BY <1>4, <2>2 DEF ClntInv, ConnectLater, Reconnect, Idle, Resolved
  <2> QED BY <1>2, <2>1, <2>3
<1>5. CASE ConnectThrows
  <2>1. UNCHANGED vars BY <1>5 DEF ConnectThrows, Reconnect
  <2>2. future' = future BY <2>1 DEF vars
  <2>3. ClntInv' BY <1>5, <2>2 DEF ClntInv, ConnectThrows, Reconnect, Idle, Resolved
  <2> QED BY <1>2, <2>1, <2>3
<1>6. CASE ResolveAgain
  <2>1. BeginResolve("on_timer") /\ future[Clnt] # "pending" BY <1>6 DEF ResolveAgain, Ready
  <2>2. ResolverInv' /\ future'[Clnt] = "none" BY <2>1, BeginStep
  <2>3. ClntInv' BY <1>6, <2>2 DEF ClntInv, ResolveAgain, Idle, BeginResolve
  <2> QED BY <2>2, <2>3
<1>7. CASE Connected
  <2>1. UNCHANGED vars BY <1>7 DEF Connected
  <2>2. future' = future BY <2>1 DEF vars
  <2>3. ClntInv' BY <1>7, <2>2 DEF ClntInv, Connected, NewConn
  <2> QED BY <1>2, <2>1, <2>3
<1>8. CASE ConnectError \/ ConnThrows
  <2>1. BeginResolve("on_sock_connect_error") /\ future[Clnt] # "pending"
    BY <1>8 DEF ConnectError, ConnThrows, ClntInv
  <2>2. ResolverInv' /\ future'[Clnt] = "none" BY <2>1, BeginStep
  <2>3. ClntInv' BY <1>8, <2>2 DEF ClntInv, ConnectError, ConnThrows, BeginResolve
  <2> QED BY <2>2, <2>3
<1>9. CASE ResolveReturned
  <2>1. UNCHANGED vars BY <1>9 DEF ResolveReturned
  <2>2. ClntInv' BY <1>9 DEF ClntInv, ResolveReturned
  <2> QED BY <1>2, <2>1, <2>2
<1>10. CASE ResolveThrown
  <2>1. UNCHANGED vars BY <1>10 DEF ResolveThrown
  <2>2. future' = future BY <2>1 DEF vars
  <2>3. future[Clnt] = "none" BY <1>0, <1>10 DEF ResolveThrown, OncePending
  <2>4. ClntInv' BY <1>10, <2>2, <2>3 DEF ClntInv, ResolveThrown
  <2> QED BY <1>2, <2>1, <2>4
<1>11. CASE ConnCloses \/ ServerMoves
  <2>1. UNCHANGED vars BY <1>11 DEF ConnCloses, ServerMoves
  <2>2. future' = future BY <2>1 DEF vars
  <2>3. ClntInv' BY <1>11, <2>2 DEF ClntInv, ConnCloses, ServerMoves
  <2> QED BY <1>2, <2>1, <2>3
<1>12. ASSUME NEW r \in Runners, Lookup(r) PROVE ResolverInv' /\ ClntInv'
  <2>1. Run(r) /\ UNCHANGED <<conns, attempt, inprogress, valid, cpc>> BY <1>12 DEF Lookup
  <2>2. ResolverInv' BY <2>1, ResolverStepInv
  <2>3. future[Clnt] # "pending" => future'[Clnt] # "pending" BY <2>1, PendingByPush
  <2>4. ClntInv' BY <2>1, <2>3 DEF ClntInv
  <2> QED BY <2>2, <2>4
<1>13. CASE ResolverStep /\ UNCHANGED clntVars
  <2>1. UNCHANGED <<conns, attempt, inprogress, valid, cpc>> BY <1>13 DEF clntVars
  <2>2. ResolverInv' BY <1>13, ResolverStepInv DEF ResolverStep, Calls, Destroys
  <2>3. cpc = "idle" /\ future[Clnt] # "pending" => future'[Clnt] # "pending"
    BY <1>13, PendingByPush DEF ResolverStep, Calls, Destroys
  <2>4. ClntInv' BY <2>1, <2>3 DEF ClntInv
  <2> QED BY <2>2, <2>4
<1> QED BY <1>1, <1>3, <1>4, <1>5, <1>6, <1>7, <1>8, <1>9, <1>10, <1>11, <1>12, <1>13
        DEF NextClnt, OnTimer, OnIoEvent

\* The client begins with no connection, no attempt and no lookup.
LEMMA ClntInit == Clnt \in Callers /\ InitClnt => ClntInv
BY DEF InitClnt, ClntInv

\* The client composed with the resolver and its threads: it never has two connections, or
\* an attempt beside a connection, and the resolver's tasks keep their one place although
\* the client calls resolve() again and again.
THEOREM ClientHasOneConnection ==
    Clnt \in Callers => (SpecClnt => [](OneAtATime /\ TaskInOnePlace))
<1> SUFFICES ASSUME Clnt \in Callers PROVE SpecClnt => [](OneAtATime /\ TaskInOnePlace)
  OBVIOUS
<1>1. InitClnt => ResolverInv /\ ClntInv BY ResolverInit, ClntInit
<1>2. ResolverInv /\ ClntInv /\ [NextClnt]_allVars => (ResolverInv /\ ClntInv)' BY ClntStep
<1>3. ClntInv => OneAtATime BY DEF ClntInv, OneAtATime
<1> QED BY <1>1, <1>2, <1>3, OncePendingPlaces, PTL DEF SpecClnt
=============================================================================
