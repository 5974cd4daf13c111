------------------------------ MODULE HookList ------------------------------
(***************************************************************************)
(* toolbox/io/Hook.hpp: dispatch() walks the intrusive list of a reactor's *)
(* hooks and calls each of them, while the hooks add and remove hooks.  A  *)
(* Hook unlinks itself when it is destroyed (auto_unlink), and its links   *)
(* are then cleared: an iterator to it leads nowhere.                      *)
(*                                                                         *)
(* A hook may remove any hook but the one that follows it in the list,     *)
(* whose iterator dispatch() holds.                                        *)
(***************************************************************************)
EXTENDS Naturals, Sequences, Functions

CONSTANTS Hooks,        \* the hooks
          End,          \* the iterator that end() returns
          Nowhere,      \* where an iterator to an unlinked hook leads
          MaxChanges    \* bound on the changes of the list

VARIABLES list,         \* the HookList
          it, prev,     \* the iterators of dispatch()
          pc,           \* idle, or in dispatch(): in the loop, or in a hook
          calls,        \* number of calls of each hook in this dispatch()
          stayed,       \* the hooks that were in the list all the time since it began
          changes       \* number of changes of the list so far

vars == <<list, it, prev, pc, calls, stayed, changes>>

Linked == Range(list)
Position(h) == CHOOSE i \in DOMAIN list : list[i] = h

begin == IF list = <<>> THEN End ELSE Head(list)

Successor(h) ==
    IF h \notin Linked THEN Nowhere
    ELSE IF Position(h) = Len(list) THEN End ELSE list[Position(h) + 1]

Init ==
    /\ list = <<>>
    /\ it = End /\ prev = End
    /\ pc = "idle"
    /\ calls = [h \in Hooks |-> 0]
    /\ stayed = {}
    /\ changes = 0

Dispatch ==
    /\ pc = "idle"
    /\ it' = begin
    /\ pc' = "loop"
    /\ calls' = [h \in Hooks |-> 0]
    /\ stayed' = Linked
    /\ UNCHANGED <<list, prev, changes>>

\* prev = it++, and the slot of prev is called.
Call ==
    /\ pc = "loop" /\ it \in Linked
    /\ prev' = it
    /\ it' = Successor(it)
    /\ calls' = [calls EXCEPT ![it] = @ + 1]
    /\ pc' = "hook"
    /\ UNCHANGED <<list, stayed, changes>>

\* Mutant: the iterator is incremented after the call.
ReturnThenIncrement ==
    /\ pc = "hook"
    /\ it' = Successor(prev)
    /\ pc' = "loop"
    /\ UNCHANGED <<list, prev, calls, stayed, changes>>

\* The hook returns or throws, which dispatch() catches.
Return ==
    /\ pc = "hook"
    /\ pc' = "loop"
    /\ UNCHANGED <<list, it, prev, calls, stayed, changes>>

Done ==
    /\ pc = "loop" /\ it = End
    /\ pc' = "idle"
    /\ UNCHANGED <<list, it, prev, calls, stayed, changes>>

\* Outside of dispatch(), or in a hook.
Change == pc # "loop" /\ changes < MaxChanges /\ changes' = changes + 1

add_hook(h) ==
    /\ Change
    /\ h \notin Linked
    /\ list' = Append(list, h)
    /\ UNCHANGED <<it, prev, pc, calls, stayed>>

unlink(h) ==
    /\ Change
    /\ h \in Linked /\ (pc = "hook" => h # it)
    /\ list' = SubSeq(list, 1, Position(h) - 1) \o SubSeq(list, Position(h) + 1, Len(list))
    /\ stayed' = stayed \ {h}
    /\ UNCHANGED <<it, prev, pc, calls>>

Next ==
    \/ Dispatch \/ Call \/ Return \/ Done
    \/ \E h \in Hooks : add_hook(h) \/ unlink(h)

Spec == Init /\ [][Next]_vars

\* Whatever the hooks add and remove, the iterator of dispatch() is that of a linked hook
\* or the end, and of the hooks that stay in the list the ones before it have been called
\* once and the others not yet.
HooksServedOnce ==
    pc # "idle" =>
        /\ it \in Linked \cup {End}
        /\ \A h \in stayed :
              calls[h] = IF it = End \/ Position(h) < Position(it) THEN 1 ELSE 0
=============================================================================
