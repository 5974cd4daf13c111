----------------------------- MODULE TicketFifo -----------------------------
(***************************************************************************)
(* What a bounded multi-producer, multi-consumer queue promises.  A writer *)
(* first takes a place at the back of the queue (Reserve) and then makes   *)
(* its value available there (Publish); a reader takes the value at the    *)
(* front, if it is available (Take), and then hands it to its caller       *)
(* (Deliver).  Nothing is said of operations that fail: they change        *)
(* nothing.                                                                *)
(*                                                                         *)
(* This is the abstract specification that MpmcQueue implements.           *)
(***************************************************************************)
EXTENDS Naturals, Sequences

CONSTANTS Threads,    \* the threads that use the queue
          Values,     \* the values that may be queued
          Places,     \* number of places in the queue
          Nobody,     \* writer of a place whose value is available
          Nothing     \* what a thread holds or has received: no value

VARIABLES items,      \* places in use, front first: [val, by] records
          held,       \* held[t]: value that reader t took and has not delivered
          out         \* out[t]: the value most recently delivered to t's caller

vars == <<items, held, out>>

Init ==
    /\ items = << >>
    /\ held = [t \in Threads |-> Nothing]
    /\ out = [t \in Threads |-> Nothing]

\* Writer t takes the place at the back for its value v.
Reserve(t, v) ==
    /\ Len(items) < Places
    /\ \A i \in DOMAIN items : items[i].by # t
    /\ items' = Append(items, [val |-> v, by |-> t])
    /\ UNCHANGED <<held, out>>

\* Writer t makes the value in its place available.
Publish(t) ==
    \E i \in DOMAIN items :
        /\ items[i].by = t
        /\ items' = [items EXCEPT ![i].by = Nobody]
        /\ UNCHANGED <<held, out>>

\* Reader t takes the value at the front, which must be available.
Take(t) ==
    /\ items # << >>
    /\ Head(items).by = Nobody
    /\ held[t] = Nothing
    /\ held' = [held EXCEPT ![t] = Head(items).val]
    /\ items' = Tail(items)
    /\ UNCHANGED out

\* Reader t hands the value that it took to its caller.
Deliver(t) ==
    /\ held[t] # Nothing
    /\ out' = [out EXCEPT ![t] = held[t]]
    /\ held' = [held EXCEPT ![t] = Nothing]
    /\ UNCHANGED items

Next ==
    \E t \in Threads :
        \/ \E v \in Values : Reserve(t, v)
        \/ Publish(t)
        \/ Take(t)
        \/ Deliver(t)

Spec == Init /\ [][Next]_vars
=============================================================================
