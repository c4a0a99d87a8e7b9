------------------------------- MODULE Framing -------------------------------
(***************************************************************************)
(* The bytes of the serial line: how srvcomm.c and libfdbg-client.cc cut   *)
(* the stream into frames.  A frame is a size, of one byte or two, and a   *)
(* body.  The server writes byte by byte and reads byte by byte; the       *)
(* client writes in up to three blocks and reads the body in blocks of     *)
(* whatever has arrived.                                                   *)
(*                                                                         *)
(* A byte on the line remembers its frame and its place in it.  The values *)
(* of body bytes do not matter, until one is taken for a size.             *)
(***************************************************************************)
EXTENDS Integers, Sequences

CONSTANTS
    Base,            \* sizes below it take one byte (128)
    MaxMessage,      \* MAX_MESSAGE_SZ of the client
    RequestSizes,    \* sizes of the client's messages
    ReplySizes,      \* sizes of the server's replies
    DebugSizes,      \* sizes of the frames of fdbg_debug
    Numbers,         \* bound: frames are numbered modulo this
    MaxFrames        \* bound: fdbg_debug writes no frame while this many are
                     \* waiting for the client

ASSUME FramingAssumption ==
    /\ Base \in Nat \ {0}
    /\ MaxMessage \in Nat /\ MaxMessage < 2 * Base * Base
    /\ RequestSizes \subseteq 0 .. MaxMessage
    /\ ReplySizes \subseteq 0 .. MaxMessage
    /\ DebugSizes \subseteq 0 .. MaxMessage
    /\ Numbers \in Nat \ {0} /\ MaxFrames \in Nat

VARIABLES
    up, down,       \* bytes on the way to the server and to the client
    client,         \* "idle", "write2", "write", "size", "size2", "body",
                    \* "got", or "lost" once receive has thrown
    server,         \* "size", "size2", "body", "got"
    request,        \* the request being sent: its number and size
    taken,          \* what the server has read: size bytes, body bytes
    writing,        \* bytes the server has still to write of a frame
    replies,        \* frames of the server, replies and debug frames, that the
                    \* client has not received yet, in order
    answer,         \* what the client has read of the frame it receives
    calm            \* history: the size was there in full when it was read,
                    \* and no other frame's whenever more of a body was

vars == <<up, down, client, server, request, taken, writing, replies, answer, calm>>

-----------------------------------------------------------------------------
Byte == 0 .. 2 * Base - 1

MutSizeBytes(n) ==
    IF n <= Base THEN <<n>> ELSE <<(n % Base) + Base, n \div Base>>
\* The size of a frame on the line, as both ends write it.
SizeBytes(n) ==
    IF n < Base THEN <<n>> ELSE <<(n % Base) + Base, n \div Base>>

\* A first size byte with its high bit set is followed by a second one.
Longer(b) == b >= Base

MutSizeOf(b1, b2) == b2 * Base
\* The size two bytes stand for.
SizeOf(b1, b2) == (b2 * Base) + (b1 % Base)

\* place 0 is the size, places 1 .. size are the body
Body(f) == [k \in 1 .. f.size |-> [of |-> f, place |-> k, value |-> 0]]
Bytes(f) ==
    [k \in 1 .. Len(SizeBytes(f.size)) |->
        [of |-> f, place |-> 0, value |-> SizeBytes(f.size)[k]]]
    \o Body(f)

\* The values byte b may have for a reader that takes it for a size.
Values(b) == IF b.place = 0 THEN {b.value} ELSE Byte

Following(n) == (n + 1) % Numbers

NoFrame == [size |-> 0, body |-> <<>>]

Init ==
    /\ up = <<>> /\ down = <<>>
    /\ client = "idle" /\ server = "size"
    /\ request = [number |-> 0, size |-> 0, kind |-> "request"]
    /\ taken = NoFrame /\ answer = NoFrame
    /\ writing = <<>> /\ replies = <<>>
    /\ calm = TRUE

-----------------------------------------------------------------------------
(* FdbgClient::send: the size in one or two writes, the body in one *)

Send ==
    /\ client = "idle"
    /\ \E n \in RequestSizes :
         LET f == [request EXCEPT !.number = Following(@), !.size = n] IN
         /\ request' = f
         /\ up' = Append(up, Bytes(f)[1])
         /\ client' = IF Longer(SizeBytes(n)[1]) THEN "write2" ELSE "write"
    /\ UNCHANGED <<down, server, taken, writing, replies, answer, calm>>

SendSize2 ==
    /\ client = "write2"
    /\ up' = Append(up, Bytes(request)[2])
    /\ client' = "write"
    /\ UNCHANGED <<down, server, request, taken, writing, replies, answer, calm>>

SendBody ==
    /\ client = "write"
    /\ up' = up \o Body(request)
    /\ client' = "size"
    /\ answer' = NoFrame
    /\ UNCHANGED <<down, server, request, taken, writing, replies, calm>>

-----------------------------------------------------------------------------
(* comm_receive_next_message *)

\* What a reader that has the size does next.
AfterSize(size) == IF size = 0 THEN "got" ELSE "body"

ServerSize ==
    /\ server = "size" /\ writing = <<>> /\ up # <<>>
    /\ up' = Tail(up)
    /\ \E b \in Values(Head(up)) :
         /\ taken' = [NoFrame EXCEPT !.size = b]
         /\ server' = IF Longer(b) THEN "size2" ELSE AfterSize(b)
    /\ UNCHANGED <<down, client, request, writing, replies, answer, calm>>

\* comm_read_byte_sync waits until there is a byte.
ServerSize2 ==
    /\ server = "size2" /\ up # <<>>
    /\ up' = Tail(up)
    /\ \E b \in Values(Head(up)) :
         /\ taken' = [taken EXCEPT !.size = SizeOf(taken.size, b)]
         /\ server' = AfterSize(taken'.size)
    /\ UNCHANGED <<down, client, request, writing, replies, answer, calm>>

ServerBody ==
    /\ server = "body" /\ up # <<>>
    /\ up' = Tail(up)
    /\ taken' = [taken EXCEPT !.body = Append(@, Head(up))]
    /\ server' = IF Len(taken'.body) = taken.size THEN "got" ELSE "body"
    /\ UNCHANGED <<down, client, request, writing, replies, answer, calm>>

-----------------------------------------------------------------------------
(* comm_send_message, from the handling of a request or from fdbg_debug *)

\* The next frame of the server has a number of its own among those waiting.
NextNumber ==
    IF replies = <<>> THEN 0 ELSE Following(replies[Len(replies)].number)

Writes(f) ==
    /\ writing = <<>>
    /\ writing' = Bytes(f)
    /\ replies' = Append(replies, f)
    /\ UNCHANGED <<up, down, client, request, taken, answer, calm>>

Handle ==
    /\ server = "got"
    /\ server' = "size"
    /\ \E n \in ReplySizes :
         Writes([number |-> NextNumber, size |-> n, kind |-> "reply"])

\* A callback of the computer calls fdbg_debug: while a request is handled,
\* or while the computer runs, with or without a request under way and also
\* right after a reply.
Debug ==
    /\ server \in {"size", "got"}
    /\ Len(replies) < MaxFrames
    /\ \E n \in DebugSizes :
         Writes([number |-> NextNumber, size |-> n, kind |-> "debug"])
    /\ UNCHANGED server

\* Nothing else is done before the last byte is written.
WriteByte ==
    /\ writing # <<>>
    /\ down' = Append(down, Head(writing))
    /\ writing' = Tail(writing)
    /\ UNCHANGED <<up, client, server, request, taken, replies, answer, calm>>

-----------------------------------------------------------------------------
(* FdbgClient::receive *)

\* The first size byte is polled for.
ReceiveSize ==
    /\ client = "size" /\ down # <<>>
    /\ down' = Tail(down)
    /\ \E b \in Values(Head(down)) :
         /\ answer' = [NoFrame EXCEPT !.size = b]
         /\ client' = IF Longer(b) THEN "size2" ELSE AfterSize(b)
    /\ calm' = TRUE
    /\ UNCHANGED <<up, server, request, taken, writing, replies>>

\* The second one is read once, and the result of read is not looked at: if
\* the byte is late sz2 keeps whatever it held.  A size above MaxMessage
\* makes receive throw.
ReceiveSize2 ==
    /\ client = "size2"
    /\ \E b \in IF down = <<>> THEN Byte ELSE Values(Head(down)) :
         LET size == SizeOf(answer.size, b) IN
         /\ answer' = [NoFrame EXCEPT !.size = size]
         /\ client' = IF size > MaxMessage THEN "lost" ELSE AfterSize(size)
    /\ down' = IF down = <<>> THEN down ELSE Tail(down)
    /\ calm' = (down # <<>>)
    /\ UNCHANGED <<up, server, request, taken, writing, replies>>

\* Every read asks for the whole size, also when part of it has come: then it
\* takes what follows the frame too, if the size of a next frame is there.
ReceiveBody ==
    /\ client = "body" /\ down # <<>>
    /\ \E n \in 1 .. Len(down) :
         /\ n <= answer.size
         /\ answer' = [answer EXCEPT !.body = @ \o SubSeq(down, 1, n)]
         /\ down' = SubSeq(down, n + 1, Len(down))
    /\ client' = IF Len(answer'.body) >= answer.size THEN "got" ELSE "body"
    /\ calm' = (calm /\ (answer.body # <<>> => \A k \in 1 .. Len(down) : down[k].place # 0))
    /\ UNCHANGED <<up, server, request, taken, writing, replies>>

Intact == answer.body = Body(Head(replies))

\* A debug frame is shown and receive starts again.  What becomes of bytes
\* that are not the frame is not modelled.
Receive ==
    /\ client = "got" /\ Intact
    /\ client' = IF Head(replies).kind = "reply" THEN "idle" ELSE "size"
    /\ replies' = Tail(replies)
    /\ answer' = NoFrame
    /\ UNCHANGED <<up, down, server, request, taken, writing, calm>>

-----------------------------------------------------------------------------
Next == \/ Send \/ SendSize2 \/ SendBody
        \/ ServerSize \/ ServerSize2 \/ ServerBody \/ Handle \/ Debug \/ WriteByte
        \/ ReceiveSize \/ ReceiveSize2 \/ ReceiveBody \/ Receive

Spec == Init /\ [][Next]_vars

-----------------------------------------------------------------------------
(* Properties *)

\* RequestsIntact: what comm_receive_next_message decodes is the body of the
\* request that was sent, all of it and nothing else.
RequestsIntact == server = "got" => taken.body = Body(request)

\* RepliesIntact: receive takes no frame for one that is too big, and what it
\* parses is the body of the next frame the server wrote, all of it and
\* nothing else, however its bytes trickle in and whatever debug frames are in
\* front of it or follow it, but for two cases: the second size byte was not
\* there when it was read, or the beginning of another frame was when receive
\* came back for the rest of a body.
RepliesIntact == calm => client # "lost" /\ (client = "got" => Intact)
=============================================================================
