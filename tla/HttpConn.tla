------------------------------ MODULE HttpConn ------------------------------
(***************************************************************************)
(* The connections of an HTTP server on one reactor: BasicHttpConn and its *)
(* parser callbacks (http/Conn.hpp, http/Parser.hpp), BasicDisposer        *)
(* (io/Disposer.hpp) and BasicHttpServ (http/Serv.hpp).  User code runs in *)
(* every callback and may dispose of any connection or destroy the server. *)
(*                                                                         *)
(* A request arrives in two pieces: "head", and "tail" or, when it asks to *)
(* close the connection, "close".  "bad" is a piece the parser rejects.    *)
(* The response to the k-th request is RespSize times k.                   *)
(*                                                                         *)
(* sub_.events() changes the handle and commits nothing, so that the only  *)
(* event that is ever reported is Read.                                    *)
(*                                                                         *)
(* The constructor of a connection asks the reactor for the poller of a    *)
(* socket that it has moved from.  BasicMultiReactor returns nullptr, and  *)
(* the process crashes; what follows in the code is reached with a reactor *)
(* that returns its poller.                                                *)
(***************************************************************************)
EXTENDS Naturals, Sequences, SequencesExt, FiniteSets

CONSTANTS Conns,
          NoConn,           \* not a connection
          Pollers,          \* what poller() may return for an empty socket: "null", "found"
          Silent,           \* connections whose peers send nothing
          MaxRequests,      \* bound on the requests of a connection
          RespSize          \* size of a response

ASSUME ConstantsAssumption ==
    /\ NoConn \notin Conns
    /\ Pollers \subseteq {"null", "found"}
    /\ Silent \subseteq Conns
    /\ MaxRequests \in Nat
    /\ RespSize \in Nat \ {0}

VARIABLES life,         \* "none", "alive" or "deleted"
          locks,        \* locks_
          dispose,      \* dispose_
          in,           \* in_
          out,          \* out_
          parsed,       \* the pieces of in_ that the running parse() is past
          error,        \* the parser is in an error state
          inProgress,   \* in_progress_
          keep,         \* should_keep_alive()
          blocked,      \* write_blocked_
          armed,        \* tmr_ is pending
          rx, eof,      \* received by the kernel and not yet read
          sent,         \* history: what the peer sent
          handled,      \* history: calls of on_http_message()
          wire,         \* history: what was written
          disconnects,  \* history: calls of on_http_disconnect()
          serv,         \* the server exists
          pc, cur,      \* the handler that the reactor's thread is in, and its connection;
                        \* or "crashed"
          atEof,        \* read() returned 0
          disposing     \* connections in dispose_now(), the innermost last

disposer == <<life, locks, dispose, disconnects, disposing>>
parser == <<in, parsed, error, inProgress, keep, handled>>
output == <<out, blocked, wire>>
peer == <<rx, eof, sent>>
control == <<pc, cur, atEof, serv>>
vars == <<disposer, parser, output, peer, control, armed>>

Init ==
    /\ life = [c \in Conns |-> "none"]
    /\ locks = [c \in Conns |-> 0]
    /\ dispose = [c \in Conns |-> FALSE]
    /\ in = [c \in Conns |-> <<>>]
    /\ out = [c \in Conns |-> <<>>]
    /\ parsed = [c \in Conns |-> 0]
    /\ error = [c \in Conns |-> FALSE]
    /\ inProgress = [c \in Conns |-> FALSE]
    /\ keep = [c \in Conns |-> FALSE]
    /\ blocked = [c \in Conns |-> FALSE]
    /\ armed = [c \in Conns |-> FALSE]
    /\ rx = [c \in Conns |-> <<>>]
    /\ eof = [c \in Conns |-> FALSE]
    /\ sent = [c \in Conns |-> <<>>]
    /\ handled = [c \in Conns |-> 0]
    /\ wire = [c \in Conns |-> <<>>]
    /\ disconnects = [c \in Conns |-> 0]
    /\ serv = TRUE
    /\ pc = "idle"
    /\ cur = NoConn
    /\ atEof = FALSE
    /\ disposing = <<>>

Upto(s, n) == SubSeq(s, 1, IF n < Len(s) THEN n ELSE Len(s))

Response(k) == [n \in 1 .. RespSize |-> k]

-----------------------------------------------------------------------------
(* The peer *)

Ends(pieces) == Cardinality({k \in 1 .. Len(pieces) : pieces[k] \in {"tail", "close"}})

\* The pieces that may follow.
Following(pieces) ==
    CASE pieces = <<>> \/ Last(pieces) = "tail" ->
            {"bad"} \cup (IF Ends(pieces) < MaxRequests THEN {"head"} ELSE {})
      [] pieces # <<>> /\ Last(pieces) = "head" -> {"tail", "close", "bad"}
      [] OTHER -> {}

PeerSends(c) ==
    /\ life[c] = "alive" /\ ~eof[c] /\ pc # "crashed"
    /\ c \notin Silent
    /\ \E piece \in Following(sent[c]) :
          /\ sent' = [sent EXCEPT ![c] = Append(@, piece)]
          /\ rx' = [rx EXCEPT ![c] = Append(@, piece)]
    /\ UNCHANGED <<disposer, parser, output, eof, control, armed>>

PeerCloses(c) ==
    /\ life[c] = "alive" /\ ~eof[c] /\ pc # "crashed"
    /\ eof' = [eof EXCEPT ![c] = TRUE]
    /\ UNCHANGED <<disposer, parser, output, rx, sent, control, armed>>

-----------------------------------------------------------------------------
(* BasicDisposer *)

\* dispose_now() is entered: the lock is never released, and on_http_disconnect() is called.
EnterDispose(c) ==
    /\ locks' = [locks EXCEPT ![c] = 1]
    /\ disposing' = Append(disposing, c)
    /\ disconnects' = [disconnects EXCEPT ![c] = @ + 1]

\* Mutant: locks are not looked at.
DisposeNow(c) == EnterDispose(c) /\ UNCHANGED dispose

\* dispose()
Dispose(c) ==
    IF locks[c] = 0
    THEN EnterDispose(c) /\ UNCHANGED dispose
    ELSE dispose' = [dispose EXCEPT ![c] = TRUE] /\ UNCHANGED <<locks, disposing, disconnects>>

\* on_http_disconnect() returns: what is left is written at best, and the object deleted.
DisposeReturn ==
    /\ disposing # <<>>
    /\ LET c == Last(disposing) IN
          /\ disposing' = Front(disposing)
          /\ life' = [life EXCEPT ![c] = "deleted"]
          /\ \E n \in 0 .. Len(out[c]) : wire' = [wire EXCEPT ![c] = @ \o SubSeq(out[c], 1, n)]
          /\ out' = [out EXCEPT ![c] = <<>>]
          /\ armed' = [armed EXCEPT ![c] = FALSE]
          /\ rx' = [rx EXCEPT ![c] = <<>>]
          /\ in' = [in EXCEPT ![c] = <<>>]
    /\ UNCHANGED <<locks, dispose, disconnects, parsed, error, inProgress, keep, handled,
                   blocked, eof, sent, control>>

\* Mutant: a request to dispose is forgotten.
UnlockForgets ==
    /\ disposing = <<>>
    /\ pc = "unlock"
    /\ pc' = "idle" /\ cur' = NoConn
    /\ locks' = [locks EXCEPT ![cur] = @ - 1]
    /\ UNCHANGED <<life, dispose, disposing, disconnects, parser, output, peer, atEof, serv, armed>>

\* The end of the lock of a handler.
Unlock ==
    /\ disposing = <<>>
    /\ pc = "unlock"
    /\ pc' = "idle" /\ cur' = NoConn
    /\ IF locks[cur] = 1 /\ dispose[cur]
       THEN EnterDispose(cur)
       ELSE locks' = [locks EXCEPT ![cur] = @ - 1] /\ UNCHANGED <<disposing, disconnects>>
    /\ UNCHANGED <<life, dispose, parser, output, peer, atEof, serv, armed>>

-----------------------------------------------------------------------------
(* User code, outside and in callbacks *)

UserCode == disposing # <<>> \/ pc \in {"idle", "accept", "message", "error", "timeout"}

UserDisposes(c) ==
    /\ UserCode
    /\ life[c] = "alive"
    /\ Dispose(c)
    /\ UNCHANGED <<life, parser, output, peer, control, armed>>

\* ~BasicHttpServ(): every connection of the list is disposed of.  User code that destroys
\* the server does not dispose of other connections in their on_http_disconnect().
DestroyServ ==
    /\ UserCode /\ pc # "accept"
    /\ serv
    /\ serv' = FALSE
    /\ LET free == {c \in Conns : life[c] = "alive" /\ locks[c] = 0}
           held == {c \in Conns : life[c] = "alive" /\ locks[c] > 0}
       IN /\ life' = [c \in Conns |-> IF c \in free THEN "deleted" ELSE life[c]]
          /\ locks' = [c \in Conns |-> IF c \in free THEN 1 ELSE locks[c]]
          /\ disconnects' = [c \in Conns |-> disconnects[c] + IF c \in free THEN 1 ELSE 0]
          /\ dispose' = [c \in Conns |-> dispose[c] \/ c \in held]
          /\ \E n \in 0 .. MaxRequests * RespSize :
                wire' = [c \in Conns |-> IF c \in free THEN wire[c] \o Upto(out[c], n) ELSE wire[c]]
          /\ out' = [c \in Conns |-> IF c \in free THEN <<>> ELSE out[c]]
          /\ in' = [c \in Conns |-> IF c \in free THEN <<>> ELSE in[c]]
          /\ rx' = [c \in Conns |-> IF c \in free THEN <<>> ELSE rx[c]]
          /\ armed' = [c \in Conns |-> armed[c] /\ c \notin free]
    /\ UNCHANGED <<disposing, parsed, error, inProgress, keep, handled, blocked, eof, sent, pc,
                   cur, atEof>>

-----------------------------------------------------------------------------
(* The reactor calls a handler *)

Idle == pc = "idle" /\ disposing = <<>>

Readable(c) == life[c] = "alive" /\ (rx[c] # <<>> \/ eof[c])

\* on_sock_accept(): the constructor of the connection dereferences the null pointer that
\* it took for its poller.
AcceptCrashes(c) ==
    /\ Idle
    /\ serv
    /\ life[c] = "none"
    /\ "null" \in Pollers
    /\ pc' = "crashed"
    /\ UNCHANGED <<disposer, parser, output, peer, cur, atEof, serv, armed>>

\* on_sock_accept(): a connection is made, and accept_ is called.
Accept(c) ==
    /\ Idle
    /\ serv
    /\ life[c] = "none"
    /\ "found" \in Pollers
    /\ life' = [life EXCEPT ![c] = "alive"]
    /\ armed' = [armed EXCEPT ![c] = TRUE]
    /\ pc' = "accept" /\ cur' = c
    /\ UNCHANGED <<locks, dispose, disposing, disconnects, parser, output, peer, atEof, serv>>

AcceptReturn ==
    /\ disposing = <<>>
    /\ pc = "accept"
    /\ pc' = "idle" /\ cur' = NoConn
    /\ UNCHANGED <<disposer, parser, output, peer, atEof, serv, armed>>

\* on_timeout_timer(): a low-priority timer, served in cycles without events.
Timeout(c) ==
    /\ Idle
    /\ armed[c]
    /\ \A d \in Conns : ~Readable(d)
    /\ armed' = [armed EXCEPT ![c] = FALSE]
    /\ locks' = [locks EXCEPT ![c] = @ + 1]
    /\ pc' = "timeout" /\ cur' = c
    /\ UNCHANGED <<life, dispose, disposing, disconnects, parser, output, peer, atEof, serv>>

\* on_io_event()
OnIoEvent(c) ==
    /\ Idle
    /\ Readable(c)
    /\ locks' = [locks EXCEPT ![c] = @ + 1]
    /\ pc' = "read" /\ cur' = c
    /\ UNCHANGED <<life, dispose, disposing, disconnects, parser, output, peer, atEof, serv, armed>>

\* Mutant: a connection with pending output is kept.
TimeoutReturnKeeps ==
    /\ disposing = <<>>
    /\ pc = "timeout"
    /\ IF out[cur] = <<>> THEN Dispose(cur) ELSE UNCHANGED <<locks, dispose, disposing, disconnects>>
    /\ pc' = "unlock"
    /\ UNCHANGED <<life, parser, output, peer, cur, atEof, serv, armed>>

\* on_http_timeout() or on_http_error() returns.
TimeoutReturn ==
    /\ disposing = <<>>
    /\ pc = "timeout"
    /\ Dispose(cur)
    /\ pc' = "unlock"
    /\ UNCHANGED <<life, parser, output, peer, cur, atEof, serv, armed>>

ErrorReturn ==
    /\ disposing = <<>>
    /\ pc = "error"
    /\ Dispose(cur)
    /\ pc' = "unlock"
    /\ UNCHANGED <<life, parser, output, peer, cur, atEof, serv, armed>>

-----------------------------------------------------------------------------
(* drain_input() *)

\* A number of pieces is read; the last read() was short, or it was the fourth.
ReadSome ==
    /\ disposing = <<>>
    /\ pc = "read"
    /\ \E n \in 1 .. Len(rx[cur]) :
          /\ in' = [in EXCEPT ![cur] = @ \o SubSeq(rx[cur], 1, n)]
          /\ rx' = [rx EXCEPT ![cur] = SubSeq(@, n + 1, Len(@))]
    /\ pc' = "parse"
    /\ UNCHANGED <<disposer, parsed, error, inProgress, keep, handled, output, eof, sent, cur,
                   atEof, serv, armed>>

\* All is read, and then read() returns 0.
ReadEof ==
    /\ disposing = <<>>
    /\ pc = "read"
    /\ eof[cur]
    /\ in' = [in EXCEPT ![cur] = @ \o rx[cur]]
    /\ rx' = [rx EXCEPT ![cur] = <<>>]
    /\ atEof' = TRUE
    /\ pc' = "parse"
    /\ UNCHANGED <<disposer, parsed, error, inProgress, keep, handled, output, eof, sent, cur,
                   serv, armed>>

\* read() fails.
ReadThrows ==
    /\ disposing = <<>>
    /\ pc = "read"
    /\ pc' = "error"
    /\ UNCHANGED <<disposer, parser, output, peer, cur, atEof, serv, armed>>

\* parse() throws an HttpException, which on_io_event() catches: nothing is consumed.  This
\* is so for a bad piece, in the error state, and when there is nothing to parse within a
\* request.
ParseThrows ==
    /\ disposing = <<>>
    /\ pc = "parse"
    /\ \/ error[cur]
       \/ parsed[cur] < Len(in[cur]) /\ in[cur][parsed[cur] + 1] = "bad"
       \/ in[cur] = <<>> /\ inProgress[cur]
    /\ error' = [error EXCEPT ![cur] = TRUE]
    /\ parsed' = [parsed EXCEPT ![cur] = 0]
    /\ atEof' = FALSE
    /\ pc' = "unlock"
    /\ UNCHANGED <<disposer, in, inProgress, keep, handled, output, peer, cur, serv, armed>>

\* on_message_begin() to on_headers_end().
ParseHead ==
    /\ disposing = <<>>
    /\ pc = "parse"
    /\ ~error[cur]
    /\ parsed[cur] < Len(in[cur]) /\ in[cur][parsed[cur] + 1] = "head"
    /\ parsed' = [parsed EXCEPT ![cur] = @ + 1]
    /\ inProgress' = [inProgress EXCEPT ![cur] = TRUE]
    /\ UNCHANGED <<disposer, in, error, keep, handled, output, peer, control, armed>>

\* The same, when one of them runs out of memory and calls on_http_error().
ParseHeadThrows ==
    /\ disposing = <<>>
    /\ pc = "parse"
    /\ ~error[cur]
    /\ parsed[cur] < Len(in[cur]) /\ in[cur][parsed[cur] + 1] = "head"
    /\ error' = [error EXCEPT ![cur] = TRUE]
    /\ parsed' = [parsed EXCEPT ![cur] = 0]
    /\ inProgress' = [inProgress EXCEPT ![cur] = TRUE]
    /\ atEof' = FALSE
    /\ pc' = "error"
    /\ UNCHANGED <<disposer, in, keep, handled, output, peer, cur, serv, armed>>

\* on_message_end(): the handler of the user is called.
ParseEnd ==
    /\ disposing = <<>>
    /\ pc = "parse"
    /\ ~error[cur]
    /\ parsed[cur] < Len(in[cur]) /\ in[cur][parsed[cur] + 1] \in {"tail", "close"}
    /\ parsed' = [parsed EXCEPT ![cur] = @ + 1]
    /\ inProgress' = [inProgress EXCEPT ![cur] = FALSE]
    /\ keep' = [keep EXCEPT ![cur] = in[cur][parsed[cur] + 1] = "tail"]
    /\ handled' = [handled EXCEPT ![cur] = @ + 1]
    /\ pc' = "message"
    /\ UNCHANGED <<disposer, in, error, output, peer, cur, atEof, serv, armed>>

\* It returns: it has written a response.
MessageReturn ==
    /\ disposing = <<>>
    /\ pc = "message"
    /\ out' = [out EXCEPT ![cur] = @ \o Response(handled[cur])]
    /\ pc' = "parse"
    /\ UNCHANGED <<disposer, parser, blocked, wire, peer, cur, atEof, serv, armed>>

\* It throws: on_http_error() is called, and the parser stops.
MessageThrows ==
    /\ disposing = <<>>
    /\ pc = "message"
    /\ error' = [error EXCEPT ![cur] = TRUE]
    /\ parsed' = [parsed EXCEPT ![cur] = 0]
    /\ atEof' = FALSE
    /\ pc' = "error"
    /\ UNCHANGED <<disposer, in, inProgress, keep, handled, output, peer, cur, serv, armed>>

\* Mutant: what was parsed is not consumed.
ParseReturnKeeps ==
    /\ disposing = <<>>
    /\ pc = "parse"
    /\ ~error[cur]
    /\ parsed[cur] = Len(in[cur]) /\ ~(in[cur] = <<>> /\ inProgress[cur])
    /\ parsed' = [parsed EXCEPT ![cur] = 0]
    /\ atEof' = FALSE
    /\ IF atEof
       THEN Dispose(cur) /\ pc' = "unlock" /\ UNCHANGED armed
       ELSE /\ armed' = [armed EXCEPT ![cur] = TRUE]
            /\ pc' = "flush"
            /\ UNCHANGED <<locks, dispose, disposing, disconnects>>
    /\ UNCHANGED <<life, in, error, inProgress, keep, handled, output, peer, cur, serv>>

\* parse() returns: what it is past is consumed.  At the end of the stream the connection
\* is disposed of, else the timeout is put off and the output flushed.
ParseReturn ==
    /\ disposing = <<>>
    /\ pc = "parse"
    /\ ~error[cur]
    /\ parsed[cur] = Len(in[cur]) /\ ~(in[cur] = <<>> /\ inProgress[cur])
    /\ in' = [in EXCEPT ![cur] = <<>>]
    /\ parsed' = [parsed EXCEPT ![cur] = 0]
    /\ atEof' = FALSE
    /\ IF atEof
       THEN Dispose(cur) /\ pc' = "unlock" /\ UNCHANGED armed
       ELSE /\ armed' = [armed EXCEPT ![cur] = TRUE]
            /\ pc' = "flush"
            /\ UNCHANGED <<locks, dispose, disposing, disconnects>>
    /\ UNCHANGED <<life, error, inProgress, keep, handled, output, peer, cur, serv>>

-----------------------------------------------------------------------------
(* flush_output() *)

\* Nothing to write, or an earlier write was incomplete.
FlushNothing ==
    /\ disposing = <<>>
    /\ pc = "flush"
    /\ out[cur] = <<>> \/ blocked[cur]
    /\ pc' = "unlock"
    /\ UNCHANGED <<disposer, parser, output, peer, cur, atEof, serv, armed>>

\* Everything is written.
FlushAll ==
    /\ disposing = <<>>
    /\ pc = "flush"
    /\ out[cur] # <<>> /\ ~blocked[cur]
    /\ wire' = [wire EXCEPT ![cur] = @ \o out[cur]]
    /\ out' = [out EXCEPT ![cur] = <<>>]
    /\ IF ~inProgress[cur] /\ ~keep[cur]
       THEN Dispose(cur)
       ELSE UNCHANGED <<locks, dispose, disposing, disconnects>>
    /\ pc' = "unlock"
    /\ UNCHANGED <<life, parser, blocked, peer, cur, atEof, serv, armed>>

\* Mutant: all is consumed although some was written.
FlushSomeClears ==
    /\ disposing = <<>>
    /\ pc = "flush"
    /\ ~blocked[cur]
    /\ \E n \in 1 .. Len(out[cur]) - 1 : wire' = [wire EXCEPT ![cur] = @ \o SubSeq(out[cur], 1, n)]
    /\ out' = [out EXCEPT ![cur] = <<>>]
    /\ pc' = "unlock"
    /\ UNCHANGED <<disposer, parser, blocked, peer, cur, atEof, serv, armed>>

\* Some of it is written.
FlushSome ==
    /\ disposing = <<>>
    /\ pc = "flush"
    /\ ~blocked[cur]
    /\ \E n \in 1 .. Len(out[cur]) - 1 :
          /\ wire' = [wire EXCEPT ![cur] = @ \o SubSeq(out[cur], 1, n)]
          /\ out' = [out EXCEPT ![cur] = SubSeq(@, n + 1, Len(@))]
    /\ blocked' = [blocked EXCEPT ![cur] = TRUE]
    /\ pc' = "unlock"
    /\ UNCHANGED <<disposer, parser, peer, cur, atEof, serv, armed>>

\* write() fails, or would block.
FlushThrows ==
    /\ disposing = <<>>
    /\ pc = "flush"
    /\ out[cur] # <<>> /\ ~blocked[cur]
    /\ pc' = "error"
    /\ UNCHANGED <<disposer, parser, output, peer, cur, atEof, serv, armed>>

Handler ==
    \/ AcceptReturn \/ TimeoutReturn \/ ErrorReturn \/ Unlock \/ DisposeReturn
    \/ ReadSome \/ ReadEof \/ ReadThrows
    \/ ParseThrows \/ ParseHead \/ ParseHeadThrows \/ ParseEnd \/ ParseReturn
    \/ MessageReturn \/ MessageThrows
    \/ FlushNothing \/ FlushAll \/ FlushSome \/ FlushThrows

Next ==
    \/ \E c \in Conns : PeerSends(c) \/ PeerCloses(c) \/ UserDisposes(c)
    \/ \E c \in Conns : Accept(c) \/ AcceptCrashes(c) \/ Timeout(c) \/ OnIoEvent(c)
    \/ DestroyServ
    \/ Handler

Spec == Init /\ [][Next]_vars

\* The thread runs on and callbacks return; what is readable is reported, and a pending
\* timer is served when the reactor is quiet again and again.
Fairness ==
    /\ WF_vars(Handler)
    /\ \A c \in Conns : SF_vars(OnIoEvent(c)) /\ SF_vars(Timeout(c))

FairSpec == Spec /\ Fairness

-----------------------------------------------------------------------------
(* Properties *)

\* "dispose may be safely called from callback functions while a lock is held": whoever
\* disposes of a connection, and in whichever callback, it exists while one of its
\* handlers is running or it is being disposed of.
NoUseAfterDelete ==
    /\ pc \notin {"idle", "accept", "crashed"} => life[cur] = "alive"
    /\ \A k \in 1 .. Len(disposing) : life[disposing[k]] = "alive"

\* on_http_disconnect() is called once before a connection is deleted, and the connection
\* is deleted once, also if its callback disposes of the connection again.  One that was
\* disposed of in a callback is gone when the reactor goes on.
DisposedOnce ==
    /\ \A c \in Conns : disconnects[c] <= 1 /\ (life[c] = "deleted" => disconnects[c] = 1)
    /\ \A j, k \in 1 .. Len(disposing) : disposing[j] = disposing[k] => j = k
    /\ Idle => \A c \in Conns : life[c] = "alive" => ~dispose[c] /\ locks[c] = 0

\* Every request that arrived is handled once or still to be parsed, whatever the portions
\* it is read in; the parser's error state ends this.
RequestsHandledOnce ==
    \A c \in Conns : life[c] = "alive" /\ ~error[c] =>
        handled[c] + Ends(SubSeq(in[c], parsed[c] + 1, Len(in[c]))) + Ends(rx[c]) = Ends(sent[c])

\* What was written and what is in the buffer are the responses in the order of the
\* requests, none of them twice or in part, and what was written stays so after the
\* connection is deleted: each place of the stream holds the response that belongs there.
ResponsesInOrder ==
    \A c \in Conns : LET stream == wire[c] \o out[c] IN
        /\ Len(stream) <= handled[c] * RespSize
        /\ \A n \in 1 .. Len(stream) :
              n \in (stream[n] - 1) * RespSize + 1 .. stream[n] * RespSize

\* Every connection is closed in the end, by its peer, by the user or by the idle timeout,
\* also one whose parser has failed on what its peer sent; unless the process crashes, or a
\* peer has closed a connection whose parser has failed: its end of stream is reported again
\* and again, and keeps the low-priority timers of all connections from being served.
EveryConnCloses ==
    \A c \in Conns : (life[c] = "alive") ~>
        \/ life[c] = "deleted"
        \/ pc = "crashed"
        \/ \E d \in Conns : life[d] = "alive" /\ error[d] /\ eof[d]
=============================================================================
