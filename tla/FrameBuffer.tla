----------------------------- MODULE FrameBuffer ----------------------------
(***************************************************************************)
(* toolbox/io/Buffer.cpp and net/Frame.hpp: bytes arrive in portions of    *)
(* any size and are collected in a Buffer; parse_frame() passes the        *)
(* complete messages on, and consume() drops them from the Buffer.         *)
(*                                                                         *)
(* A byte of a header is a digit of base Base, which is 256 in the code;   *)
(* the bytes of the bodies all differ.                                     *)
(***************************************************************************)
EXTENDS Naturals, Sequences, SequencesExt, FiniteSets

CONSTANTS Lengths,         \* the lengths of the messages that are sent
          Base,            \* number of values of a byte
          ShrinkThreshold, \* 1024 in the code
          Sizes,           \* the sizes that prepare() is given
          MaxClears        \* bound on the number of calls of clear()

VARIABLES buf, rpos, wpos, \* Buffer::buf_, rpos_, wpos_
          received,        \* number of bytes received
          delivered,       \* the messages that parse_frame() passed on
          parsed,          \* all that was received has been parsed
          clears           \* number of calls of clear() so far

vars == <<buf, rpos, wpos, received, delivered, parsed, clears>>

(* Frames *)

HeaderSize == 4

put_length(len) ==
    <<len % Base, (len \div Base) % Base, ((len \div Base) \div Base) % Base,
      (((len \div Base) \div Base) \div Base) % Base>>

get_length(header) ==
    header[1] + Base * (header[2] + Base * (header[3] + Base * header[4]))

Body(m) == [k \in 1 .. Lengths[m] |-> Base + 100 * m + k]
Stream == FlattenSeq([m \in DOMAIN Lengths |-> put_length(Lengths[m]) \o Body(m)])

\* The messages from offset p of data on, and the number of bytes consumed.
parse_frame(data) ==
    LET size(p) == Len(data) - p
        total(p) == HeaderSize + get_length(SubSeq(data, p + 1, p + HeaderSize))
        from[p \in 0 .. Len(data)] ==
            IF size(p) < HeaderSize \/ size(p) < total(p)
            THEN [messages |-> <<>>, consumed |-> p]
            ELSE LET message == SubSeq(data, p + HeaderSize + 1, p + total(p))
                     rest == from[p + total(p)]
                 IN [rest EXCEPT !.messages = <<message>> \o @]
    IN from[0]

(* Buffer *)

buffer == SubSeq(buf, rpos + 1, wpos)

prepare(size) ==
    IF size > Len(buf) - wpos
    THEN buf \o [i \in 1 .. size - (Len(buf) - wpos) |-> 0]
    ELSE buf

\* The unread bytes are moved to the front when at least ShrinkThreshold bytes, and half of
\* the Buffer, would be unused.
Shrinks(n) == n # 0 /\ rpos + n >= ShrinkThreshold /\ rpos + n >= Len(buf) \div 2
Moved(n) == SubSeq(buf, rpos + n + 1, wpos) \o SubSeq(buf, wpos - rpos - n + 1, Len(buf))

\* Mutant: wpos_ does not move with the bytes.
consumeKeepsEnd(n) ==
    \/ Shrinks(n) /\ buf' = Moved(n) /\ rpos' = 0 /\ wpos' = wpos
    \/ ~Shrinks(n) /\ rpos' = rpos + n /\ UNCHANGED <<buf, wpos>>

consume(n) ==
    \/ Shrinks(n) /\ buf' = Moved(n) /\ rpos' = 0 /\ wpos' = wpos - rpos - n
    \/ ~Shrinks(n) /\ rpos' = rpos + n /\ UNCHANGED <<buf, wpos>>

Init ==
    /\ buf = <<>> /\ rpos = 0 /\ wpos = 0
    /\ received = 0 /\ delivered = <<>> /\ parsed = TRUE
    /\ clears = 0

-----------------------------------------------------------------------------
\* The user prepares size bytes, receives n into all the room there is, and commits them.
Receive(size, n) ==
    /\ n <= Len(prepare(size)) - wpos
    /\ received + n <= Len(Stream)
    /\ buf' = [i \in DOMAIN prepare(size) |->
                  IF i \in wpos + 1 .. wpos + n THEN Stream[received + i - wpos]
                  ELSE prepare(size)[i]]
    /\ wpos' = wpos + n
    /\ received' = received + n
    /\ parsed' = FALSE
    /\ UNCHANGED <<rpos, delivered, clears>>

Parse ==
    /\ delivered' = delivered \o parse_frame(buffer).messages
    /\ consume(parse_frame(buffer).consumed)
    /\ parsed' = TRUE
    /\ UNCHANGED <<received, clears>>

\* The stream begins anew.
clear ==
    /\ clears < MaxClears
    /\ buf' = <<>> /\ rpos' = 0 /\ wpos' = 0
    /\ received' = 0 /\ delivered' = <<>> /\ parsed' = TRUE
    /\ clears' = clears + 1

Next ==
    \/ \E size \in Sizes : \E n \in 1 .. Len(prepare(size)) - wpos : Receive(size, n)
    \/ Parse
    \/ clear

Spec == Init /\ [][Next]_vars

-----------------------------------------------------------------------------
\* The messages that were received completely.
Complete ==
    LET Ends(m) == Len(FlattenSeq([i \in 1 .. m |-> put_length(Lengths[i]) \o Body(i)]))
    IN {m \in DOMAIN Lengths : Ends(m) <= received}

\* However the stream is cut into portions and wherever the Buffer moves its content to the
\* front, the messages that are passed on are those received completely, intact, in order,
\* each once.
MessagesDelivered ==
    parsed => delivered = [m \in 1 .. Cardinality(Complete) |-> Body(m)]
=============================================================================
