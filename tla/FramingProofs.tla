---------------------------- MODULE FramingProofs ----------------------------
(***************************************************************************)
(* Theorems about Framing, for every Base and every size of frames: the    *)
(* size bytes first, then the two directions of the line.                  *)
(***************************************************************************)
EXTENDS Framing, SequenceTheorems, TLAPS

\* Division by Base and its remainder.
LEMMA Division ==
    ASSUME NEW n \in Nat
    PROVE  /\ n \div Base \in Nat /\ n % Base \in 0 .. Base - 1
           /\ n = (n \div Base) * Base + (n % Base)
  BY FramingAssumption

\* A first byte with the high bit loses it again.
LEMMA HighBit ==
    ASSUME NEW r \in 0 .. Base - 1
    PROVE  (r + Base) % Base = r
<1> DEFINE q == (r + Base) \div Base
           s == (r + Base) % Base
<1>1. q \in Nat /\ s \in 0 .. Base - 1 /\ r + Base = q * Base + s
  <2>1. r + Base \in Nat
    BY FramingAssumption
  <2> QED
    BY <2>1, Division
<1> HIDE DEF q, s
<1>2. q # 0
  BY <1>1, FramingAssumption
<1>3. ~ (q >= 2)
  <2>1. SUFFICES ASSUME q >= 2 PROVE FALSE
    OBVIOUS
  <2>2. q * Base >= 2 * Base
    BY <1>1, <2>1, FramingAssumption
  <2> QED
    BY <1>1, <2>2, FramingAssumption
<1>4. q = 1
  BY <1>1, <1>2, <1>3
<1>5. s = r
  BY <1>1, <1>4, FramingAssumption
<1> QED
  BY <1>5 DEF s

\* The second size byte of a message the client accepts fits in a byte.
LEMMA SecondByteFits ==
    ASSUME NEW n \in 0 .. MaxMessage
    PROVE  n \div Base \in Byte
<1> DEFINE q == n \div Base
<1>1. q \in Nat /\ q * Base <= n
  <2>1. n \in Nat
    BY FramingAssumption
  <2>2. /\ q \in Nat /\ n % Base \in 0 .. Base - 1
        /\ n = q * Base + (n % Base)
    BY <2>1, Division
  <2> QED
    BY <2>1, <2>2, FramingAssumption
<1>2. n < 2 * Base * Base
  BY FramingAssumption
<1>3. q < 2 * Base
  <2>1. SUFFICES ASSUME q >= 2 * Base PROVE FALSE
    BY <1>1, FramingAssumption
  <2>2. q * Base >= 2 * Base * Base
    BY <2>1, <1>1, FramingAssumption
  <2> QED
    BY <2>2, <1>1, <1>2, FramingAssumption
<1> QED
  BY <1>1, <1>3, FramingAssumption DEF Byte

\* SizeRoundTrip: the reader (comm_receive_next_message lines 49-50,
\* FdbgClient::receive lines 154-158) gets back the size that the writer
\* (comm_send_message lines 11-16, FdbgClient::send lines 101-107) wrote; both
\* sides agree on whether there is a second byte, and a byte holds each.
THEOREM SizeRoundTrip ==
    ASSUME NEW n \in 0 .. MaxMessage
    PROVE  LET s == SizeBytes(n) IN
           /\ \A i \in 1 .. Len(s) : s[i] \in Byte
           /\ Longer(s[1]) <=> Len(s) = 2
           /\ Longer(s[1]) => SizeOf(s[1], s[2]) = n
           /\ ~ Longer(s[1]) => s[1] = n
<1>1. CASE n < Base
  <2>1. SizeBytes(n) = <<n>>
    BY <1>1 DEF SizeBytes
  <2>2. n \in Byte /\ ~ (n >= Base)
    BY <1>1, FramingAssumption DEF Byte
  <2> QED
    BY <2>1, <2>2 DEF Longer
<1>2. CASE n >= Base
  <2> DEFINE q == n \div Base
             r == n % Base
  <2>1. q \in Byte /\ r \in 0 .. Base - 1 /\ n = q * Base + r
    <3>1. n \in Nat
      BY FramingAssumption
    <3> QED
      BY <3>1, Division, SecondByteFits
  <2>2. SizeBytes(n) = <<r + Base, q>>
    BY <1>2, FramingAssumption DEF SizeBytes
  <2>3. r + Base \in Byte /\ r + Base >= Base
    BY <2>1, FramingAssumption DEF Byte
  <2>4. SizeOf(r + Base, q) = n
    BY <2>1, HighBit DEF SizeOf
  <2> HIDE DEF q, r
  <2> QED
    BY <2>1, <2>2, <2>3, <2>4 DEF Longer
<1> QED
  BY <1>1, <1>2, FramingAssumption

-----------------------------------------------------------------------------
(* Bytes and frames *)

Frame == [number : Nat, size : 0 .. MaxMessage, kind : {"request", "reply", "debug"}]
Cell == [of : Frame, place : Nat, value : Byte]
Reading == [size : Nat, body : Seq(Cell)]

\* The first byte of a frame and, for a long one, the second.
First(f) == [of |-> f, place |-> 0, value |-> SizeBytes(f.size)[1]]
Second(f) == [of |-> f, place |-> 0, value |-> SizeBytes(f.size)[2]]
IsLong(f) == Longer(SizeBytes(f.size)[1])

\* What is left of a frame when its first byte has been read.
Rest(f) == IF IsLong(f) THEN <<Second(f)>> \o Body(f) ELSE Body(f)

LEMMA BodyType ==
    ASSUME NEW f \in Frame
    PROVE  Body(f) \in Seq(Cell) /\ Len(Body(f)) = f.size
<1>1. f.size \in Nat /\ 0 \in Byte
  BY FramingAssumption DEF Frame, Byte
<1>2. \A k \in 1 .. f.size : [of |-> f, place |-> k, value |-> 0] \in Cell
  BY <1>1 DEF Cell
<1> QED
  BY <1>1, <1>2 DEF Body

LEMMA CellTypes ==
    ASSUME NEW f \in Frame
    PROVE  /\ First(f) \in Cell /\ (IsLong(f) => Second(f) \in Cell)
           /\ Rest(f) \in Seq(Cell)
<1>1. f.size \in 0 .. MaxMessage
  BY DEF Frame
<1> DEFINE s == SizeBytes(f.size)
<1>2. /\ \A i \in 1 .. Len(s) : s[i] \in Byte
      /\ Longer(s[1]) <=> Len(s) = 2
  BY <1>1, SizeRoundTrip
<1>3. Len(s) \in {1, 2}
  BY DEF SizeBytes
<1>4. s[1] \in Byte /\ (IsLong(f) => s[2] \in Byte)
  BY <1>2, <1>3 DEF IsLong
<1>5. First(f) \in Cell /\ (IsLong(f) => Second(f) \in Cell)
  BY <1>4 DEF First, Second, Cell
<1> QED
  BY <1>5, BodyType DEF Rest

\* A frame on the line is its first byte and the rest of it.
LEMMA FrameOnLine ==
    ASSUME NEW f \in Frame
    PROVE  Bytes(f) = <<First(f)>> \o Rest(f)
<1> DEFINE s == SizeBytes(f.size)
           c == [k \in 1 .. Len(s) |-> [of |-> f, place |-> 0, value |-> s[k]]]
<1>1. f.size \in 0 .. MaxMessage
  BY DEF Frame
<1>2. Longer(s[1]) <=> Len(s) = 2
  BY <1>1, SizeRoundTrip
<1>3. Bytes(f) = c \o Body(f)
  BY DEF Bytes
<1>4. CASE IsLong(f)
  <2>1. Len(s) = 2
    BY <1>2, <1>4 DEF IsLong
  <2>2. c = <<First(f), Second(f)>>
    BY <2>1 DEF First, Second
  <2> HIDE DEF c
  <2>3. <<First(f), Second(f)>> \o Body(f) = <<First(f)>> \o (<<Second(f)>> \o Body(f))
    BY BodyType, CellTypes, <1>4
  <2> QED
    BY <1>3, <1>4, <2>2, <2>3 DEF Rest
<1>5. CASE ~ IsLong(f)
  <2>1. Len(s) = 1
    BY <1>2, <1>5 DEF IsLong, SizeBytes
  <2>2. c = <<First(f)>>
    BY <2>1 DEF First
  <2> HIDE DEF c
  <2> QED
    BY <1>3, <1>5, <2>2 DEF Rest
<1> QED
  BY <1>4, <1>5

\* What a reader makes of the size bytes of a frame.
LEMMA SizeRead ==
    ASSUME NEW f \in Frame
    PROVE  /\ SizeBytes(f.size)[1] \in Nat
           /\ IsLong(f) => SizeOf(SizeBytes(f.size)[1], SizeBytes(f.size)[2]) = f.size
           /\ ~ IsLong(f) => SizeBytes(f.size)[1] = f.size
           /\ IsLong(f) => f.size > 0
<1>1. f.size \in 0 .. MaxMessage
  BY DEF Frame
<1>2. SizeBytes(f.size)[1] \in Byte
  BY CellTypes DEF First, Cell
<1>3. IsLong(f) => f.size > 0
  <2>1. ~ (f.size < Base) \/ ~ IsLong(f)
    BY <1>1, FramingAssumption DEF IsLong, Longer, SizeBytes
  <2> QED
    BY <1>1, <2>1, FramingAssumption
<1> QED
  BY <1>1, <1>2, <1>3, SizeRoundTrip, FramingAssumption DEF IsLong, Byte

-----------------------------------------------------------------------------
(* Taking bytes from the front of what is under way *)

LEMMA TakeOne ==
    ASSUME NEW s \in Seq(Cell), NEW t \in Seq(Cell), s # <<>>
    PROVE  /\ Tail(s) \in Seq(Cell) /\ Head(s) \in Cell
           /\ Head(s \o t) = Head(s) /\ Tail(s \o t) = Tail(s) \o t
           /\ s \o t # <<>>
  OBVIOUS

LEMMA HeadTail ==
    ASSUME NEW x \in Cell, NEW t \in Seq(Cell)
    PROVE  Head(<<x>> \o t) = x /\ Tail(<<x>> \o t) = t /\ <<x>> \o t # <<>>
  OBVIOUS

LEMMA Regroup ==
    ASSUME NEW s \in Seq(Cell), NEW t \in Seq(Cell), NEW u \in Seq(Cell)
    PROVE  (s \o t) \o u = s \o (t \o u)
  BY ConcatAssociative

\* Moving one byte from the front of s to the end of b.
LEMMA MoveOne ==
    ASSUME NEW b \in Seq(Cell), NEW s \in Seq(Cell), NEW t \in Seq(Cell), s # <<>>
    PROVE  Append(b, Head(s)) \o (Tail(s) \o t) = b \o (s \o t)
<1>1. Append(b, Head(s)) = b \o <<Head(s)>> /\ <<Head(s)>> \in Seq(Cell) /\ Tail(s) \in Seq(Cell)
  OBVIOUS
<1>5. Tail(s) \o t \in Seq(Cell)
  BY <1>1
<1>2. (b \o <<Head(s)>>) \o (Tail(s) \o t) = b \o (<<Head(s)>> \o (Tail(s) \o t))
  BY <1>1, <1>5, Regroup, Zenon
<1>3. <<Head(s)>> \o (Tail(s) \o t) = (<<Head(s)>> \o Tail(s)) \o t
  BY <1>1, Regroup, Zenon
<1>4. <<Head(s)>> \o Tail(s) = s
  OBVIOUS
<1> QED
  BY <1>1, <1>2, <1>3, <1>4

\* Moving l from the front of what comes to the end of what has come.
Joined(b, l, r, t) == (b \o l) \o (r \o t) = b \o ((l \o r) \o t)

LEMMA MoveBlock ==
    ASSUME NEW b \in Seq(Cell), NEW l \in Seq(Cell), NEW r \in Seq(Cell),
           NEW t \in Seq(Cell)
    PROVE  Joined(b, l, r, t)
<1>1. r \o t \in Seq(Cell)
  OBVIOUS
<1>2. ASSUME NEW u \in Seq(Cell) PROVE (b \o l) \o u = b \o (l \o u)
  BY Regroup
<1>3. (b \o l) \o (r \o t) = b \o (l \o (r \o t))
  BY <1>1, <1>2, Zenon
<1>4. (l \o r) \o t = l \o (r \o t)
  BY Regroup
<1> QED
  BY <1>3, <1>4 DEF Joined

\* Moving n bytes.
LEMMA MoveSome ==
    ASSUME NEW b \in Seq(Cell), NEW s \in Seq(Cell), NEW t \in Seq(Cell),
           NEW n \in 1 .. Len(s)
    PROVE  (b \o SubSeq(s, 1, n)) \o (SubSeq(s, n + 1, Len(s)) \o t) = b \o (s \o t)
<1>1. SubSeq(s, 1, n) \in Seq(Cell) /\ SubSeq(s, n + 1, Len(s)) \in Seq(Cell)
  OBVIOUS
<1>2. s = SubSeq(s, 1, n) \o SubSeq(s, n + 1, Len(s))
  OBVIOUS
<1>3. Joined(b, SubSeq(s, 1, n), SubSeq(s, n + 1, Len(s)), t)
  BY <1>1, MoveBlock
<1> QED
  BY <1>2, <1>3, Zenon DEF Joined

-----------------------------------------------------------------------------
(* The inductive invariant.  Each direction of the line is read together     *)
(* with what its writer has still to write and its reader has already taken: *)
(* no byte is anywhere else, so that the three always add up to the frames.  *)

\* What the client has still to write of its request.
Unsent ==
    CASE client = "write2" -> <<Second(request)>> \o Body(request)
      [] client = "write"  -> Body(request)
      [] OTHER             -> <<>>

Due    == up \o Unsent
Coming == down \o writing

FrameTypes ==
    /\ up \in Seq(Cell) /\ down \in Seq(Cell) /\ writing \in Seq(Cell)
    /\ client \in {"idle", "write2", "write", "size", "size2", "body", "got", "lost"}
    /\ server \in {"size", "size2", "body", "got"}
    /\ request \in Frame /\ taken \in Reading /\ answer \in Reading
    /\ replies \in Seq(Frame)
    /\ calm \in BOOLEAN

\* The server is reading the request: size byte, second size byte, body.
Reads ==
    \/ server = "size" /\ Due = Bytes(request)
    \/ /\ server = "size2" /\ IsLong(request)
       /\ taken.size = SizeBytes(request.size)[1] /\ taken.body = <<>>
       /\ Due = <<Second(request)>> \o Body(request)
    \/ /\ server = "body"
       /\ taken.size = request.size /\ Len(taken.body) < taken.size
       /\ taken.body \o Due = Body(request)
    \/ server = "got" /\ taken.body = Body(request) /\ Due = <<>>

\* The reply to the request is among the frames of the server.
IsReply(i) == i \in 1 .. Len(replies) /\ replies[i].kind = "reply"
Answered == \E i \in Nat : IsReply(i)

\* Towards the server: nothing is due between two calls or once the request
\* has been answered, and it is answered once.
Upward ==
    /\ client = "idle" => server = "size" /\ ~ Answered /\ Due = <<>>
    /\ client # "idle" /\ ~ Answered => Reads
    /\ Answered => server = "size" /\ Due = <<>>
    /\ client = "write2" => IsLong(request)
    /\ \A i, j \in Nat : IsReply(i) /\ IsReply(j) => i = j

\* The frames one after the other: rest[i] is what comes from the i-th on.
Laid(rest) ==
    /\ rest \in [1 .. Len(replies) + 1 -> Seq(Cell)]
    /\ rest[Len(replies) + 1] = <<>>
    /\ \A i \in 1 .. Len(replies) : rest[i] = Bytes(replies[i]) \o rest[i + 1]

\* The client reads the frame it should, or (without calm) took some other
\* byte for a late second size byte and has that one still before it.
Aligned(f, later) ==
    /\ answer.size = f.size
    /\ answer.body \o Coming = Body(f) \o later

Misread(f) ==
    /\ ~ calm /\ f.size > 0
    /\ answer.body \o Coming # <<>> /\ (answer.body \o Coming)[1].place = 0

\* Towards the client: what comes is the frames of the server, but for what
\* the client has taken of the first of them.
Downward(rest) ==
    /\ client \in {"idle", "write2", "write", "size"} => Coming = rest[1]
    /\ client \in {"size2", "body", "got"} => replies # <<>>
    /\ client = "size2" =>
           /\ IsLong(replies[1])
           /\ answer.size = SizeBytes(replies[1].size)[1] /\ answer.body = <<>>
           /\ Coming = (<<Second(replies[1])>> \o Body(replies[1])) \o rest[2]
    /\ client \in {"body", "got"} => Aligned(replies[1], rest[2]) \/ Misread(replies[1])
    /\ client = "body" => Len(answer.body) < answer.size
    /\ client = "got" /\ calm => Len(answer.body) = answer.size
    /\ client = "lost" => ~ calm

Comes == \E rest : Laid(rest) /\ Downward(rest)

IInv == FrameTypes /\ Upward /\ Comes

-----------------------------------------------------------------------------
LEMMA AppendShift ==
    ASSUME NEW s \in Seq(Cell), NEW x \in Cell, NEW t \in Seq(Cell)
    PROVE  Append(s, x) \o t = s \o (<<x>> \o t)
<1>1. Append(s, x) = s \o <<x>> /\ <<x>> \in Seq(Cell)
  OBVIOUS
<1> QED
  BY <1>1, Regroup

LEMMA Nothing ==
    ASSUME NEW s \in Seq(Cell)
    PROVE  s \o <<>> = s /\ <<>> \o s = s /\ <<>> \in Seq(Cell)
  OBVIOUS

LEMMA NothingLeft ==
    ASSUME NEW s \in Seq(Cell), NEW t \in Seq(Cell), s \o t = <<>>
    PROVE  s = <<>> /\ t = <<>>
<1>1. Len(s \o t) = Len(s) + Len(t) /\ Len(s \o t) = 0
  OBVIOUS
<1>2. Len(s) \in Nat /\ Len(t) \in Nat
  OBVIOUS
<1> QED
  BY <1>1, <1>2

\* Of two readings that begin the same, the rests are the same.
LEMMA Cancel ==
    ASSUME NEW s \in Seq(Cell), NEW t \in Seq(Cell), NEW u \in Seq(Cell),
           s \o t = s \o u
    PROVE  t = u
<1>1. Len(t) = Len(u)
  <2>1. Len(s \o t) = Len(s) + Len(t) /\ Len(s \o u) = Len(s) + Len(u)
    OBVIOUS
  <2>2. Len(s) \in Nat /\ Len(t) \in Nat /\ Len(u) \in Nat
    OBVIOUS
  <2> QED
    BY <2>1, <2>2
<1>2. ASSUME NEW i \in 1 .. Len(t) PROVE t[i] = u[i]
  <2>1. (s \o t)[Len(s) + i] = t[i] /\ (s \o u)[Len(s) + i] = u[i]
    BY <1>1
  <2> QED
    BY <2>1
<1> QED
  BY <1>1, <1>2, SeqEqual

\* A reading that is as long as the whole is the whole.
LEMMA WholeRead ==
    ASSUME NEW s \in Seq(Cell), NEW t \in Seq(Cell), NEW u \in Seq(Cell),
           s \o t = u, Len(s) >= Len(u)
    PROVE  t = <<>> /\ s = u
<1>1. Len(u) = Len(s) + Len(t) /\ Len(s) \in Nat /\ Len(t) \in Nat
  OBVIOUS
<1>2. t = <<>>
  BY <1>1
<1> QED
  BY <1>2, Nothing

LEMMA BytesType ==
    ASSUME NEW f \in Frame
    PROVE  Bytes(f) \in Seq(Cell) /\ Bytes(f) # <<>>
<1>1. <<First(f)>> \in Seq(Cell) /\ Rest(f) \in Seq(Cell) /\ First(f) \in Cell
  BY CellTypes
<1>2. <<First(f)>> \o Rest(f) \in Seq(Cell) /\ <<First(f)>> \o Rest(f) # <<>>
  BY <1>1
<1> QED
  BY <1>2, FrameOnLine

LEMMA UnsentIs ==
    /\ client = "write2" => Unsent = <<Second(request)>> \o Body(request)
    /\ client = "write" => Unsent = Body(request)
    /\ client \notin {"write2", "write"} => Unsent = <<>>
  BY DEF Unsent

\* Two readings of the same bytes that are equally long are the same.
LEMMA SameBeginning ==
    ASSUME NEW s \in Seq(Cell), NEW t \in Seq(Cell), NEW u \in Seq(Cell),
           NEW v \in Seq(Cell), s \o t = u \o v, Len(s) = Len(u)
    PROVE  s = u
<1>1. ASSUME NEW i \in 1 .. Len(s) PROVE s[i] = u[i]
  <2>1. (s \o t)[i] = s[i] /\ (u \o v)[i] = u[i]
    OBVIOUS
  <2> QED
    BY <2>1
<1> QED
  BY <1>1, SeqEqual

LEMMA LineTypes ==
    ASSUME FrameTypes, client = "write2" => IsLong(request)
    PROVE  Unsent \in Seq(Cell) /\ Due \in Seq(Cell) /\ Coming \in Seq(Cell)
<1>1. request \in Frame /\ up \in Seq(Cell) /\ down \in Seq(Cell) /\ writing \in Seq(Cell)
  BY DEF FrameTypes
<1>2. Body(request) \in Seq(Cell)
  BY <1>1, BodyType
<1>3. Unsent \in Seq(Cell)
  <2>1. CASE client = "write2"
    <3>1. <<Second(request)>> \in Seq(Cell)
      BY <1>1, <2>1, CellTypes
    <3>2. <<Second(request)>> \o Body(request) \in Seq(Cell)
      BY <1>2, <3>1
    <3> QED
      BY <2>1, <3>2, UnsentIs
  <2>2. CASE client = "write"
    BY <1>2, <2>2, UnsentIs
  <2>3. CASE client \notin {"write2", "write"}
    <3>1. <<>> \in Seq(Cell)
      OBVIOUS
    <3> QED
      BY <2>3, <3>1, UnsentIs
  <2> QED
    BY <2>1, <2>2, <2>3
<1> QED
  BY <1>1, <1>3 DEF Due, Coming

\* What the server does to the request, and the client to its own bytes, does
\* not disturb what comes to the client ...
LEMMA ComesKept ==
    ASSUME Comes, UNCHANGED <<down, writing, replies, calm>>,
           \/ UNCHANGED <<client, answer>>
           \/ /\ client \in {"idle", "write2", "write", "size"}
              /\ client' \in {"idle", "write2", "write", "size"}
    PROVE  Comes'
<1>1. PICK rest : Laid(rest) /\ Downward(rest)
  BY DEF Comes
<1>2. Laid(rest)'
  BY <1>1 DEF Laid
<1>3. Downward(rest)'
  <2>1. Coming' = Coming
    BY DEF Coming
  <2>2. CASE UNCHANGED <<client, answer>>
    BY <1>1, <2>1, <2>2 DEF Downward, Aligned, Misread
  <2>3. CASE /\ client \in {"idle", "write2", "write", "size"}
             /\ client' \in {"idle", "write2", "write", "size"}
    BY <1>1, <2>1, <2>3 DEF Downward
  <2> QED
    BY <2>2, <2>3
<1> QED
  BY <1>2, <1>3 DEF Comes

\* ... and what the client reads does not disturb the request.
LEMMA UpwardKept ==
    ASSUME Upward, UNCHANGED <<up, server, request, taken, replies>>,
           client \notin {"idle", "write2", "write"},
           client' \notin {"idle", "write2", "write"}
    PROVE  Upward'
<1>1. Due' = Due
  BY UnsentIs DEF Due, Unsent
<1>2. \A i : IsReply(i)' <=> IsReply(i)
  BY DEF IsReply
<1>3. Answered' <=> Answered
  BY <1>2 DEF Answered
<1>4. Reads => Reads'
  BY <1>1 DEF Reads
<1> QED
  BY <1>1, <1>2, <1>3, <1>4 DEF Upward

-----------------------------------------------------------------------------
(* The client writes *)

LEMMA SendKeeps ==
    ASSUME IInv, Send
    PROVE  IInv'
<1> USE DEF IInv
<1>1. PICK n \in RequestSizes :
          LET f == [request EXCEPT !.number = Following(@), !.size = n]
          IN  /\ request' = f
              /\ up' = Append(up, Bytes(f)[1])
              /\ client' = IF Longer(SizeBytes(n)[1]) THEN "write2" ELSE "write"
  BY DEF Send
<1>2. /\ client = "idle" /\ UNCHANGED <<down, server, taken, writing, replies, answer, calm>>
  BY DEF Send
<1>3. request' \in Frame /\ request'.size = n
  <2>1. request.number \in Nat /\ request.kind \in {"request", "reply", "debug"}
    BY DEF FrameTypes, Frame
  <2>2. Following(request.number) \in Nat
    BY <2>1, FramingAssumption DEF Following
  <2>3. n \in 0 .. MaxMessage
    BY <1>1, FramingAssumption
  <2> QED
    BY <1>1, <2>1, <2>2, <2>3 DEF FrameTypes, Frame
<1>4. client' = IF IsLong(request') THEN "write2" ELSE "write"
  BY <1>1, <1>3 DEF IsLong
<1>5. up = <<>> /\ ~ Answered /\ server = "size"
  <2>1. Unsent = <<>>
    BY <1>2, UnsentIs
  <2> QED
    BY <1>2, <2>1, Nothing DEF FrameTypes, Upward, Due
<1>6. up' = <<First(request')>> /\ First(request') \in Cell /\ Rest(request') \in Seq(Cell)
  <2>1. Bytes(request')[1] = First(request')
    <3>1. First(request') \in Cell /\ Rest(request') \in Seq(Cell)
      BY <1>3, CellTypes
    <3>2. (<<First(request')>> \o Rest(request'))[1] = First(request')
      BY <3>1
    <3> QED
      BY <1>3, <3>2, FrameOnLine
  <2> QED
    BY <1>1, <1>3, <1>5, <2>1, CellTypes
<1>7. Due' = Bytes(request')
  <2>1. Unsent' = Rest(request')
    BY <1>4 DEF Unsent, Rest
  <2> QED
    BY <1>3, <1>6, <2>1, FrameOnLine DEF Due
<1>8. FrameTypes'
  <2>1. <<First(request')>> \in Seq(Cell)
    BY <1>6
  <2> QED
    BY <1>2, <1>3, <1>4, <1>6, <2>1 DEF FrameTypes
<1>9. Upward'
  <2>1. \A i : IsReply(i)' <=> IsReply(i)
    BY <1>2 DEF IsReply
  <2>2. ~ Answered'
    BY <1>5, <2>1 DEF Answered
  <2> QED
    BY <1>2, <1>4, <1>5, <1>7, <2>1, <2>2 DEF Upward, Reads
<1>10. Comes'
  BY <1>2, <1>4, ComesKept
<1> QED
  BY <1>8, <1>9, <1>10

LEMMA SendSize2Keeps ==
    ASSUME IInv, SendSize2
    PROVE  IInv'
<1> USE DEF IInv
<1>1. /\ client = "write2" /\ client' = "write" /\ up' = Append(up, Bytes(request)[2])
      /\ UNCHANGED <<down, server, request, taken, writing, replies, answer, calm>>
  BY DEF SendSize2
<1>2. IsLong(request) /\ request \in Frame /\ up \in Seq(Cell)
  BY <1>1 DEF Upward, FrameTypes
<1>3. Second(request) \in Cell /\ First(request) \in Cell /\ Body(request) \in Seq(Cell)
  BY <1>2, CellTypes, BodyType
<1>4. Bytes(request)[2] = Second(request)
  <2>1. (<<First(request)>> \o (<<Second(request)>> \o Body(request)))[2] = Second(request)
    BY <1>3
  <2> QED
    BY <1>2, <2>1, FrameOnLine DEF Rest
<1>5. Due' = Due
  <2>1. Unsent = <<Second(request)>> \o Body(request) /\ Unsent' = Body(request)
    BY <1>1 DEF Unsent
  <2> QED
    BY <1>1, <1>2, <1>3, <1>4, <2>1, AppendShift DEF Due
<1>6. FrameTypes'
  <2>1. up' \in Seq(Cell)
    BY <1>1, <1>2, <1>3, <1>4
  <2> QED
    BY <1>1, <2>1 DEF FrameTypes
<1>7. Upward'
  <2>1. \A i : IsReply(i)' <=> IsReply(i)
    BY <1>1 DEF IsReply
  <2>2. Answered' <=> Answered
    BY <2>1 DEF Answered
  <2> QED
    BY <1>1, <1>5, <2>1, <2>2 DEF Upward, Reads
<1>8. Comes'
  BY <1>1, ComesKept
<1> QED
  BY <1>6, <1>7, <1>8

LEMMA SendBodyKeeps ==
    ASSUME IInv, SendBody
    PROVE  IInv'
<1> USE DEF IInv
<1>1. /\ client = "write" /\ client' = "size" /\ up' = up \o Body(request)
      /\ answer' = NoFrame
      /\ UNCHANGED <<down, server, request, taken, writing, replies, calm>>
  BY DEF SendBody
<1>2. request \in Frame /\ up \in Seq(Cell) /\ Body(request) \in Seq(Cell)
  BY BodyType DEF FrameTypes
<1>3. up' \in Seq(Cell)
  BY <1>1, <1>2
<1>4. Due' = Due
  <2>1. Unsent = Body(request) /\ Unsent' = <<>>
    BY <1>1 DEF Unsent
  <2> QED
    BY <1>1, <1>3, <2>1, Nothing DEF Due
<1>5. FrameTypes'
  <2>1. NoFrame \in Reading
    <3>1. <<>> \in Seq(Cell)
      OBVIOUS
    <3> QED
      BY <3>1 DEF NoFrame, Reading
  <2> QED
    BY <1>1, <1>3, <2>1 DEF FrameTypes
<1>6. Upward'
  <2>1. \A i : IsReply(i)' <=> IsReply(i)
    BY <1>1 DEF IsReply
  <2>2. Answered' <=> Answered
    BY <2>1 DEF Answered
  <2> QED
    BY <1>1, <1>4, <2>1, <2>2 DEF Upward, Reads
<1>7. Comes'
  BY <1>1, ComesKept
<1> QED
  BY <1>5, <1>6, <1>7

-----------------------------------------------------------------------------
(* The server reads *)

\* A server that reads a byte reads the request the client has begun.
LEMMA ServerReads ==
    ASSUME IInv, up # <<>>
    PROVE  /\ client # "idle" /\ ~ Answered /\ Reads
           /\ Unsent \in Seq(Cell) /\ Due \in Seq(Cell) /\ up \in Seq(Cell)
           /\ request \in Frame
           /\ Head(Due) = Head(up) /\ Tail(Due) = Tail(up) \o Unsent /\ Due # <<>>
           /\ Tail(up) \in Seq(Cell)
<1> USE DEF IInv
<1>1. Unsent \in Seq(Cell) /\ Due \in Seq(Cell) /\ up \in Seq(Cell) /\ request \in Frame
  BY LineTypes DEF FrameTypes, Upward
<1>2. /\ Head(Due) = Head(up) /\ Tail(Due) = Tail(up) \o Unsent /\ Due # <<>>
      /\ Tail(up) \in Seq(Cell)
  BY <1>1, TakeOne DEF Due
<1>3. client # "idle" /\ ~ Answered
  BY <1>2 DEF Upward
<1> QED
  BY <1>1, <1>2, <1>3 DEF Upward

\* While it reads, the request is not answered and nothing else changes.
LEMMA ReadingKeeps ==
    ASSUME Upward, client # "idle", ~ Answered, Reads',
           UNCHANGED <<client, request, replies>>
    PROVE  Upward'
<1>1. \A i : IsReply(i)' <=> IsReply(i)
  BY DEF IsReply
<1>2. ~ Answered'
  BY <1>1 DEF Answered
<1> QED
  BY <1>1, <1>2 DEF Upward, IsLong

LEMMA ServerSizeKeeps ==
    ASSUME IInv, ServerSize
    PROVE  IInv'
<1> USE DEF IInv
<1>1. /\ server = "size" /\ up # <<>> /\ up' = Tail(up)
      /\ UNCHANGED <<down, client, request, writing, replies, answer, calm>>
  BY DEF ServerSize
<1>2. PICK b \in Values(Head(up)) :
          /\ taken' = [NoFrame EXCEPT !.size = b]
          /\ server' = IF Longer(b) THEN "size2" ELSE AfterSize(b)
  BY DEF ServerSize
<1>3. /\ client # "idle" /\ ~ Answered
      /\ Head(Due) = Head(up) /\ Tail(Due) = Tail(up) \o Unsent
      /\ Tail(up) \in Seq(Cell) /\ request \in Frame
  BY <1>1, ServerReads
<1>4. Due = <<First(request)>> \o Rest(request)
  BY <1>1, <1>3, ServerReads, FrameOnLine DEF Reads
<1>5. Head(up) = First(request) /\ Tail(Due) = Rest(request)
  BY <1>3, <1>4, CellTypes, HeadTail
<1>6. Due' = Rest(request)
  <2>1. Unsent' = Unsent
    BY <1>1 DEF Unsent
  <2> QED
    BY <1>1, <1>3, <1>5, <2>1 DEF Due
<1>7. b = SizeBytes(request.size)[1]
  BY <1>2, <1>5 DEF Values, First
<1>8. b \in Nat /\ taken' = [size |-> b, body |-> <<>>]
  BY <1>2, <1>3, <1>7, SizeRead DEF NoFrame
<1>9. FrameTypes'
  <2>1. taken' \in Reading
    <3>1. <<>> \in Seq(Cell)
      OBVIOUS
    <3> QED
      BY <1>8, <3>1 DEF Reading
  <2>2. server' \in {"size2", "got", "body"}
    BY <1>2 DEF AfterSize
  <2> QED
    BY <1>1, <1>3, <2>1, <2>2 DEF FrameTypes
<1>10. Reads'
  <2>1. CASE IsLong(request)
    BY <1>1, <1>2, <1>6, <1>7, <1>8, <2>1 DEF Reads, IsLong, Rest
  <2>2. CASE ~ IsLong(request)
    <3>1. b = request.size /\ ~ Longer(b)
      BY <1>3, <1>7, <2>2, SizeRead DEF IsLong
    <3>2. Body(request) \in Seq(Cell) /\ Len(Body(request)) = request.size
      BY <1>3, BodyType
    <3>3. Due' = Body(request) /\ taken'.body \o Due' = Body(request)
      BY <1>6, <1>8, <2>2, <3>2, Nothing DEF Rest
    <3>4. CASE b = 0
      <4>1. Body(request) = <<>>
        BY <3>1, <3>2, <3>4
      <4> QED
        BY <1>1, <1>2, <1>8, <3>1, <3>3, <3>4, <4>1 DEF Reads, AfterSize
    <3>5. CASE b # 0
      <4>1. Len(taken'.body) < taken'.size /\ taken'.size = request'.size
        BY <1>1, <1>8, <3>1, <3>5
      <4> QED
        BY <1>1, <1>2, <3>1, <3>3, <3>5, <4>1 DEF Reads, AfterSize, Body
    <3> QED
      BY <3>4, <3>5
  <2> QED
    BY <2>1, <2>2
<1>11. Upward'
  BY <1>1, <1>3, <1>10, ReadingKeeps
<1> QED
  BY <1>1, <1>9, <1>11, ComesKept

LEMMA ServerSize2Keeps ==
    ASSUME IInv, ServerSize2
    PROVE  IInv'
<1> USE DEF IInv
<1>1. /\ server = "size2" /\ up # <<>> /\ up' = Tail(up)
      /\ UNCHANGED <<down, client, request, writing, replies, answer, calm>>
  BY DEF ServerSize2
<1>2. PICK b \in Values(Head(up)) :
          /\ taken' = [taken EXCEPT !.size = SizeOf(taken.size, b)]
          /\ server' = AfterSize(taken'.size)
  BY DEF ServerSize2
<1>3. /\ client # "idle" /\ ~ Answered
      /\ Head(Due) = Head(up) /\ Tail(Due) = Tail(up) \o Unsent
      /\ Tail(up) \in Seq(Cell) /\ request \in Frame
  BY <1>1, ServerReads
<1>4. /\ IsLong(request) /\ taken.size = SizeBytes(request.size)[1] /\ taken.body = <<>>
      /\ Due = <<Second(request)>> \o Body(request)
  BY <1>1, ServerReads DEF Reads
<1>5. Body(request) \in Seq(Cell) /\ Len(Body(request)) = request.size
  BY <1>3, BodyType
<1>6. Head(up) = Second(request) /\ Tail(Due) = Body(request)
  BY <1>3, <1>4, <1>5, CellTypes, HeadTail
<1>7. Due' = Body(request)
  <2>1. Unsent' = Unsent
    BY <1>1 DEF Unsent
  <2> QED
    BY <1>1, <1>3, <1>6, <2>1 DEF Due
<1>8. b = SizeBytes(request.size)[2]
  BY <1>2, <1>6 DEF Values, Second
<1>9. taken' = [size |-> request.size, body |-> <<>>] /\ request.size \in Nat
  <2>1. taken = [size |-> taken.size, body |-> taken.body]
    BY DEF FrameTypes, Reading
  <2>2. SizeOf(taken.size, b) = request.size
    BY <1>3, <1>4, <1>8, SizeRead
  <2>3. request.size \in Nat
    BY <1>3, FramingAssumption DEF Frame
  <2> QED
    BY <1>2, <1>4, <2>1, <2>2, <2>3
<1>10. FrameTypes'
  <2>1. taken' \in Reading
    <3>1. <<>> \in Seq(Cell)
      OBVIOUS
    <3> QED
      BY <1>9, <3>1 DEF Reading
  <2>2. server' \in {"got", "body"}
    BY <1>2 DEF AfterSize
  <2> QED
    BY <1>1, <1>3, <2>1, <2>2 DEF FrameTypes
<1>11. Reads'
  <2>1. request.size > 0
    BY <1>3, <1>4, SizeRead
  <2>2. server' = "body" /\ Len(taken'.body) < taken'.size
    BY <1>2, <1>9, <2>1 DEF AfterSize
  <2>3. taken'.body \o Due' = Body(request)
    BY <1>5, <1>7, <1>9, Nothing
  <2> QED
    BY <1>1, <1>9, <2>2, <2>3 DEF Reads
<1>12. Upward'
  BY <1>1, <1>3, <1>11, ReadingKeeps
<1> QED
  BY <1>1, <1>10, <1>12, ComesKept

LEMMA ServerBodyKeeps ==
    ASSUME IInv, ServerBody
    PROVE  IInv'
<1> USE DEF IInv
<1>1. /\ server = "body" /\ up # <<>> /\ up' = Tail(up)
      /\ taken' = [taken EXCEPT !.body = Append(@, Head(up))]
      /\ server' = IF Len(taken'.body) = taken.size THEN "got" ELSE "body"
      /\ UNCHANGED <<down, client, request, writing, replies, answer, calm>>
  BY DEF ServerBody
<1>2. /\ client # "idle" /\ ~ Answered
      /\ Tail(up) \in Seq(Cell) /\ up \in Seq(Cell) /\ Unsent \in Seq(Cell)
      /\ request \in Frame
  BY <1>1, ServerReads
<1>3. /\ taken.size = request.size /\ Len(taken.body) < taken.size
      /\ taken.body \o Due = Body(request)
  BY <1>1, ServerReads DEF Reads
<1>4. Body(request) \in Seq(Cell) /\ Len(Body(request)) = request.size
  BY <1>2, BodyType
<1>5. taken.body \in Seq(Cell) /\ taken.size \in Nat /\ taken = [size |-> taken.size, body |-> taken.body]
  BY DEF FrameTypes, Reading
<1>6. taken' = [size |-> taken.size, body |-> Append(taken.body, Head(up))]
  BY <1>1, <1>5
<1>7. Head(up) \in Cell
  BY <1>1, <1>2
<1>8. taken'.body \in Seq(Cell) /\ Len(taken'.body) = Len(taken.body) + 1
  BY <1>5, <1>6, <1>7
<1>9. Due' = Tail(up) \o Unsent
  BY <1>1 DEF Due, Unsent
<1>10. Due' \in Seq(Cell)
  BY <1>2, <1>9
<1>11. taken'.body \o Due' = Body(request)
  <2>1. Append(taken.body, Head(up)) \o (Tail(up) \o Unsent) = taken.body \o (up \o Unsent)
    BY <1>1, <1>2, <1>5, MoveOne
  <2> QED
    BY <1>3, <1>6, <1>9, <2>1 DEF Due
<1>12. FrameTypes'
  <2>1. taken' \in Reading
    BY <1>5, <1>6, <1>8 DEF Reading
  <2> QED
    BY <1>1, <1>2, <2>1 DEF FrameTypes
<1>13. Reads'
  <2>1. CASE Len(taken'.body) = taken.size
    <3>1. Due' = <<>> /\ taken'.body = Body(request)
      <4>1. Len(taken'.body) >= Len(Body(request))
        BY <1>3, <1>4, <1>5, <2>1
      <4> QED
        BY <1>4, <1>8, <1>10, <1>11, <4>1, WholeRead
    <3> QED
      BY <1>1, <2>1, <3>1 DEF Reads
  <2>2. CASE Len(taken'.body) # taken.size
    <3>1. Len(taken.body) \in Nat
      BY <1>5
    <3>2. Len(taken'.body) < taken'.size /\ taken'.size = request.size
      BY <1>3, <1>5, <1>6, <1>8, <2>2, <3>1
    <3> QED
      BY <1>1, <1>11, <2>2, <3>2 DEF Reads
  <2> QED
    BY <2>1, <2>2
<1>14. Upward'
  BY <1>1, <1>2, <1>13, ReadingKeeps
<1> QED
  BY <1>1, <1>12, <1>14, ComesKept

-----------------------------------------------------------------------------
(* The server writes *)

\* A frame more follows those that are on the line.
LEMMA WritesKeeps ==
    ASSUME IInv, NEW f \in Frame, Writes(f)
    PROVE  /\ Comes' /\ writing' \in Seq(Cell) /\ replies' \in Seq(Frame)
           /\ \A i \in Nat : IsReply(i)' <=> IsReply(i) \/ (i = Len(replies) + 1 /\ f.kind = "reply")
<1> USE DEF IInv
<1>0. PICK n : n = Len(replies)
  OBVIOUS
<1> DEFINE w == Bytes(f)
<1>1. /\ writing = <<>> /\ writing' = w /\ replies' = Append(replies, f)
      /\ UNCHANGED <<up, down, client, request, taken, answer, calm>>
  BY DEF Writes
<1>2. replies \in Seq(Frame) /\ n \in Nat /\ down \in Seq(Cell) /\ Coming \in Seq(Cell)
  BY <1>0, LineTypes DEF FrameTypes, Upward
<1>3. w \in Seq(Cell)
  BY BytesType
<1> HIDE DEF w
<1>4. /\ Len(replies') = n + 1 /\ replies'[n + 1] = f /\ replies' \in Seq(Frame)
      /\ \A i \in 1 .. n : replies'[i] = replies[i] /\ replies[i] \in Frame
  BY <1>0, <1>1, <1>2
<1>5. Coming' = Coming \o w
  <2>1. Coming = down
    BY <1>1, <1>2, Nothing DEF Coming
  <2> QED
    BY <1>1, <2>1 DEF Coming
<1>6. PICK rest : Laid(rest) /\ Downward(rest)
  BY DEF Comes
<1>7. /\ rest \in [1 .. n + 1 -> Seq(Cell)] /\ rest[n + 1] = <<>>
      /\ \A i \in 1 .. n : rest[i] = Bytes(replies[i]) \o rest[i + 1]
  BY <1>0, <1>6 DEF Laid
<1>8. PICK more :
      /\ \A i \in 1 .. n + 1 : more[i] = rest[i] \o w /\ more[i] \in Seq(Cell) /\ rest[i] \in Seq(Cell)
      /\ more[n + 2] = <<>> /\ more \in [1 .. n + 2 -> Seq(Cell)]
  <2> DEFINE more == [i \in 1 .. n + 2 |-> IF i <= n + 1 THEN rest[i] \o w ELSE <<>>]
  <2>1. ASSUME NEW i \in 1 .. n + 1
        PROVE  more[i] = rest[i] \o w /\ more[i] \in Seq(Cell) /\ rest[i] \in Seq(Cell)
    <3>1. i \in 1 .. n + 2 /\ i <= n + 1
      BY <1>2
    <3>2. rest[i] \in Seq(Cell)
      BY <1>7
    <3>3. rest[i] \o w \in Seq(Cell)
      BY <1>3, <3>2
    <3>4. more[i] = rest[i] \o w
      BY <3>1
    <3> QED
      BY <3>2, <3>3, <3>4
  <2>2. more[n + 2] = <<>>
    <3>1. n + 2 \in 1 .. n + 2 /\ ~ (n + 2 <= n + 1)
      BY <1>2
    <3> QED
      BY <3>1
  <2>3. \A i \in 1 .. n + 2 : more[i] \in Seq(Cell)
    <3>1. ASSUME NEW i \in 1 .. n + 2, i \notin 1 .. n + 1 PROVE i = n + 2
      BY <1>2, <3>1
    <3>2. <<>> \in Seq(Cell)
      OBVIOUS
    <3> QED
      BY <2>1, <2>2, <3>1, <3>2, Zenon
  <2>4. more \in [1 .. n + 2 -> Seq(Cell)]
    <3>1. more = [i \in 1 .. n + 2 |-> more[i]]
      OBVIOUS
    <3> HIDE DEF more
    <3> QED
      BY <2>3, <3>1, Zenon
  <2> HIDE DEF more
  <2> QED
    BY <2>1, <2>2, <2>4, Zenon
<1>9. Laid(more)'
  <2>1. ASSUME NEW i \in 1 .. n PROVE more[i] = Bytes(replies'[i]) \o more[i + 1]
    <3>1. /\ Bytes(replies[i]) \in Seq(Cell) /\ rest[i + 1] \in Seq(Cell)
          /\ more[i] = rest[i] \o w /\ more[i + 1] = rest[i + 1] \o w
          /\ rest[i] = Bytes(replies[i]) \o rest[i + 1] /\ replies'[i] = replies[i]
      <4>1. i + 1 \in 1 .. n + 1 /\ i \in 1 .. n + 1
        BY <1>2
      <4> QED
        BY <1>4, <1>7, <1>8, <4>1, BytesType
    <3>2. (Bytes(replies[i]) \o rest[i + 1]) \o w = Bytes(replies[i]) \o (rest[i + 1] \o w)
      BY <1>3, <3>1, Regroup
    <3> QED
      BY <3>1, <3>2, Zenon
  <2>2. more[n + 1] = Bytes(replies'[n + 1]) \o more[n + 2]
    <3>1. more[n + 1] = <<>> \o w
      <4>1. n + 1 \in 1 .. n + 1
        BY <1>2
      <4> QED
        BY <1>7, <1>8, <4>1, Zenon
    <3>2. <<>> \o w = w /\ w \o <<>> = w
      BY <1>3, Nothing
    <3> QED
      BY <1>4, <1>8, <3>1, <3>2, Zenon DEF w
  <2>3. \A i \in 1 .. n + 1 : more[i] = Bytes(replies'[i]) \o more[i + 1]
    <3>1. ASSUME NEW i \in 1 .. n + 1, i \notin 1 .. n PROVE i = n + 1 /\ i + 1 = n + 2
      BY <1>2, <3>1
    <3> QED
      BY <2>1, <2>2, <3>1
  <2>4. Len(replies') + 1 = n + 2
    BY <1>2, <1>4
  <2>5. \A i \in 1 .. Len(replies') : more[i] = Bytes(replies'[i]) \o more[i + 1]
    BY <1>4, <2>3, Zenon
  <2>6. more \in [1 .. Len(replies') + 1 -> Seq(Cell)] /\ more[Len(replies') + 1] = <<>>
    BY <1>8, <2>4
  <2> QED
    BY <2>5, <2>6, Zenon DEF Laid
<1>10. Downward(more)'
  <2>1. more[1] = rest[1] \o w
    BY <1>2, <1>8
  <2>2. replies' # <<>>
    BY <1>2, <1>4
  <2>3. ASSUME client \in {"size2", "body", "got"}
        PROVE  /\ replies'[1] = replies[1] /\ replies[1] \in Frame /\ more[2] = rest[2] \o w
               /\ rest[2] \in Seq(Cell) /\ Body(replies[1]) \in Seq(Cell)
    <3>1. n # 0
      BY <1>0, <1>2, <1>6, <2>3, EmptySeq DEF Downward
    <3>2. 1 \in 1 .. n /\ 2 \in 1 .. n + 1
      BY <1>2, <3>1
    <3> QED
      BY <1>4, <1>8, <3>2, BodyType
  <2>4. CASE client \in {"idle", "write2", "write", "size", "lost"}
    <3>1. client' = client /\ calm' = calm
      BY <1>1
    <3>2. client \notin {"size2", "body", "got"}
      BY <2>4
    <3>3. client # "lost" => Coming' = more[1]
      BY <1>5, <1>6, <2>1, <2>4, Zenon DEF Downward
    <3>4. client = "lost" => ~ calm
      BY <1>6 DEF Downward
    <3> QED
      BY <3>1, <3>2, <3>3, <3>4, Zenon DEF Downward
  <2>5. CASE client = "size2"
    <3>1. <<Second(replies[1])>> \o Body(replies[1]) \in Seq(Cell)
      <4>1. IsLong(replies[1])
        BY <1>6, <2>5 DEF Downward
      <4>2. <<Second(replies[1])>> \in Seq(Cell)
        BY <2>3, <2>5, <4>1, CellTypes
      <4> QED
        BY <2>3, <2>5, <4>2
    <3>2. Coming' = (<<Second(replies[1])>> \o Body(replies[1])) \o more[2]
      <4> DEFINE b == <<Second(replies[1])>> \o Body(replies[1])
      <4>1. Coming = b \o rest[2]
        BY <1>6, <2>5 DEF Downward
      <4>2. more[2] = rest[2] \o w /\ rest[2] \in Seq(Cell)
        BY <2>3, <2>5
      <4>3. b \in Seq(Cell)
        BY <3>1
      <4> HIDE DEF b
      <4>4. (b \o rest[2]) \o w = b \o (rest[2] \o w)
        BY <1>3, <4>2, <4>3, Regroup
      <4>5. Coming' = b \o more[2]
        BY <1>5, <4>1, <4>2, <4>4, Zenon
      <4> QED
        BY <4>5 DEF b
    <3>3. /\ IsLong(replies'[1]) /\ answer'.body = <<>>
          /\ answer'.size = SizeBytes(replies'[1].size)[1]
          /\ Coming' = (<<Second(replies'[1])>> \o Body(replies'[1])) \o more[2]
      BY <1>1, <1>6, <2>3, <2>5, <3>2, Zenon DEF Downward
    <3> QED
      BY <1>1, <2>2, <2>5, <3>3, Zenon DEF Downward
  <2>6. CASE client \in {"body", "got"}
    <3>1. answer.body \in Seq(Cell)
      BY DEF FrameTypes, Reading
    <3>2. ASSUME Aligned(replies[1], rest[2]) PROVE Aligned(replies[1], more[2])'
      <4>1. answer.body \o Coming = Body(replies[1]) \o rest[2]
        BY <3>2 DEF Aligned
      <4>2. answer.body \o (Coming \o w) = Body(replies[1]) \o (rest[2] \o w)
        <5> DEFINE b == Body(replies[1])
        <5>1. b \in Seq(Cell) /\ rest[2] \in Seq(Cell) /\ answer.body \o Coming = b \o rest[2]
          BY <2>3, <2>6, <4>1
        <5> HIDE DEF b
        <5>2. answer.body \o (Coming \o w) = b \o (rest[2] \o w)
          <6>1. (answer.body \o Coming) \o w = answer.body \o (Coming \o w)
            BY <1>2, <1>3, <3>1, Regroup
          <6>2. (b \o rest[2]) \o w = b \o (rest[2] \o w)
            BY <1>3, <5>1, Regroup
          <6> QED
            BY <5>1, <6>1, <6>2, Zenon
        <5> QED
          BY <5>2 DEF b
      <4>3. /\ answer'.body = answer.body /\ answer'.size = answer.size
            /\ more[2] = rest[2] \o w /\ replies'[1] = replies[1]
            /\ answer.size = replies[1].size
        BY <1>1, <2>3, <2>6, <3>2 DEF Aligned
      <4>4. answer'.body \o Coming' = Body(replies'[1]) \o more[2]
        BY <1>5, <4>2, <4>3, Zenon
      <4> QED
        BY <4>3, <4>4, Zenon DEF Aligned
    <3>3. ASSUME Misread(replies[1]) PROVE Misread(replies[1])'
      <4>1. answer.body \o Coming \in Seq(Cell) /\ answer.body \o Coming # <<>>
        BY <1>2, <3>1, <3>3 DEF Misread
      <4>2. answer.body \o (Coming \o w) = (answer.body \o Coming) \o w
        BY <1>2, <1>3, <3>1, Regroup
      <4>3. ASSUME NEW s \in Seq(Cell), s # <<>> PROVE s \o w # <<>> /\ (s \o w)[1] = s[1]
        BY <1>3, <4>3
      <4>4. /\ (answer.body \o Coming) \o w # <<>>
            /\ ((answer.body \o Coming) \o w)[1] = (answer.body \o Coming)[1]
        BY <4>1, <4>3
      <4> QED
        BY <1>1, <1>5, <2>3, <2>6, <3>3, <4>2, <4>4 DEF Misread
    <3>4. Aligned(replies[1], rest[2]) \/ Misread(replies[1])
      BY <1>6, <2>6 DEF Downward
    <3> QED
      BY <1>1, <1>6, <2>2, <2>3, <2>6, <3>2, <3>3, <3>4 DEF Downward
  <2>7. client \in {"idle", "write2", "write", "size", "size2", "body", "got", "lost"}
    BY DEF FrameTypes
  <2> QED
    BY <2>4, <2>5, <2>6, <2>7
<1>11. ASSUME NEW i \in Nat
       PROVE  IsReply(i)' <=> IsReply(i) \/ (i = Len(replies) + 1 /\ f.kind = "reply")
  <2>1. i \in 1 .. Len(replies') <=> i \in 1 .. n \/ i = n + 1
    BY <1>2, <1>4
  <2>2. i = n + 1 => i \notin 1 .. n
    BY <1>2
  <2> QED
    BY <1>0, <1>4, <2>1, <2>2 DEF IsReply
<1> QED
  BY <1>1, <1>3, <1>4, <1>9, <1>10, <1>11 DEF Comes

LEMMA NumbersAreNumbers ==
    ASSUME FrameTypes
    PROVE  NextNumber \in Nat
<1>1. CASE replies = <<>>
  BY <1>1 DEF NextNumber
<1>2. CASE replies # <<>>
  <2>1. replies[Len(replies)] \in Frame
    <3>1. Len(replies) \in Nat /\ Len(replies) # 0
      BY <1>2, EmptySeq, LenProperties DEF FrameTypes
    <3>2. Len(replies) \in 1 .. Len(replies)
      BY <3>1
    <3> QED
      BY <3>2 DEF FrameTypes
  <2>2. replies[Len(replies)].number \in Nat
    BY <2>1 DEF Frame
  <2> QED
    BY <1>2, <2>2, FramingAssumption DEF NextNumber, Following
<1> QED
  BY <1>1, <1>2

LEMMA HandleKeeps ==
    ASSUME IInv, Handle
    PROVE  IInv'
<1> USE DEF IInv
<1>1. server = "got" /\ server' = "size"
  BY DEF Handle
<1>2. PICK n \in ReplySizes : Writes([number |-> NextNumber, size |-> n, kind |-> "reply"])
  BY DEF Handle
<1> DEFINE f == [number |-> NextNumber, size |-> n, kind |-> "reply"]
<1>3. f \in Frame /\ f.kind = "reply"
  BY NumbersAreNumbers, FramingAssumption DEF Frame
<1>4. Writes(f) /\ UNCHANGED <<up, down, client, request, taken, answer, calm>>
  BY <1>2 DEF Writes
<1> HIDE DEF f
<1>5. /\ Comes' /\ writing' \in Seq(Cell) /\ replies' \in Seq(Frame)
      /\ \A i \in Nat : IsReply(i)' <=> IsReply(i) \/ i = Len(replies) + 1
  BY <1>3, <1>4, WritesKeeps
<1>6. ~ Answered /\ client # "idle" /\ Due = <<>>
  BY <1>1 DEF Upward, Reads
<1>7. FrameTypes'
  BY <1>1, <1>4, <1>5 DEF FrameTypes
<1>8. Due' = <<>>
  BY <1>4, <1>6 DEF Due, Unsent, Second, Body
<1>9. Upward'
  <2>1. Answered'
    <3>1. Len(replies) + 1 \in Nat
      BY LenProperties DEF FrameTypes
    <3> QED
      BY <1>5, <3>1 DEF Answered
  <2>2. \A i, j \in Nat : IsReply(i)' /\ IsReply(j)' => i = j
    BY <1>5, <1>6 DEF Answered
  <2> QED
    BY <1>1, <1>4, <1>6, <1>8, <2>1, <2>2 DEF Upward, IsLong
<1> QED
  BY <1>5, <1>7, <1>9

LEMMA DebugKeeps ==
    ASSUME IInv, Debug
    PROVE  IInv'
<1> USE DEF IInv
<1>1. server' = server
  BY DEF Debug
<1>2. PICK n \in DebugSizes : Writes([number |-> NextNumber, size |-> n, kind |-> "debug"])
  BY DEF Debug
<1> DEFINE f == [number |-> NextNumber, size |-> n, kind |-> "debug"]
<1>3. f \in Frame /\ f.kind # "reply"
  BY NumbersAreNumbers, FramingAssumption DEF Frame
<1>4. Writes(f) /\ UNCHANGED <<up, down, client, request, taken, answer, calm>>
  BY <1>2 DEF Writes
<1> HIDE DEF f
<1>5. /\ Comes' /\ writing' \in Seq(Cell) /\ replies' \in Seq(Frame)
      /\ \A i \in Nat : IsReply(i)' <=> IsReply(i)
  BY <1>3, <1>4, WritesKeeps
<1>6. FrameTypes'
  BY <1>1, <1>4, <1>5 DEF FrameTypes
<1>7. Due' = Due
  BY <1>4 DEF Due, Unsent, Second, Body
<1>8. Upward'
  <2>1. Answered' <=> Answered
    BY <1>5 DEF Answered
  <2>2. Reads => Reads'
    BY <1>1, <1>4, <1>7 DEF Reads, IsLong, Bytes, Body, Second
  <2> QED
    BY <1>1, <1>4, <1>5, <1>7, <2>1, <2>2 DEF Upward, IsLong
<1> QED
  BY <1>5, <1>6, <1>8

LEMMA WriteByteKeeps ==
    ASSUME IInv, WriteByte
    PROVE  IInv'
<1> USE DEF IInv
<1>1. /\ writing # <<>>
      /\ down' = Append(down, Head(writing)) /\ writing' = Tail(writing)
      /\ UNCHANGED <<up, client, server, request, taken, replies, answer, calm>>
  BY DEF WriteByte
<1>2. writing \in Seq(Cell) /\ down \in Seq(Cell)
  BY DEF FrameTypes
<1>3. Tail(writing) \in Seq(Cell) /\ Head(writing) \in Cell
  BY <1>1, <1>2
<1>4. down' \in Seq(Cell)
  BY <1>1, <1>2, <1>3
<1>5. Coming' = Coming
  <2>1. Append(down, Head(writing)) \o Tail(writing) = down \o (<<Head(writing)>> \o Tail(writing))
    BY <1>2, <1>3, AppendShift
  <2>2. <<Head(writing)>> \o Tail(writing) = writing
    BY <1>1, <1>2
  <2> QED
    BY <1>1, <2>1, <2>2 DEF Coming
<1>6. FrameTypes'
  BY <1>1, <1>3, <1>4 DEF FrameTypes
<1>7. Upward'
  <2>1. Due' = Due
    BY <1>1 DEF Due, Unsent, Second, Body
  <2>2. \A i : IsReply(i)' <=> IsReply(i)
    BY <1>1 DEF IsReply
  <2>3. Answered' <=> Answered
    BY <2>2 DEF Answered
  <2>4. Reads => Reads'
    BY <1>1, <2>1 DEF Reads, IsLong, Bytes, Body, Second
  <2> QED
    BY <1>1, <2>1, <2>2, <2>3, <2>4 DEF Upward, IsLong
<1>8. Comes'
  <2>1. PICK rest : Laid(rest) /\ Downward(rest)
    BY DEF Comes
  <2>2. Laid(rest)'
    BY <1>1, <2>1 DEF Laid
  <2>3. Downward(rest)'
    BY <1>1, <1>5, <2>1 DEF Downward, Aligned, Misread
  <2> QED
    BY <2>2, <2>3 DEF Comes
<1> QED
  BY <1>6, <1>7, <1>8

-----------------------------------------------------------------------------
(* The client receives *)

\* A client that reads, or has read, receives the first frame of the server.
LEMMA ClientReads ==
    ASSUME IInv, NEW rest, Laid(rest), replies # <<>>
    PROVE  /\ replies[1] \in Frame /\ replies \in Seq(Frame) /\ Body(replies[1]) \in Seq(Cell)
           /\ Len(Body(replies[1])) = replies[1].size /\ replies[1].size \in 0 .. MaxMessage
           /\ replies[1].size \in Nat
           /\ down \in Seq(Cell) /\ writing \in Seq(Cell) /\ Coming \in Seq(Cell)
           /\ rest[2] \in Seq(Cell) /\ rest[1] = Bytes(replies[1]) \o rest[2]
           /\ answer.size \in Nat /\ answer.body \in Seq(Cell)
           /\ answer = [size |-> answer.size, body |-> answer.body]
<1> USE DEF IInv
<1>1. replies \in Seq(Frame) /\ Len(replies) \in Nat /\ Len(replies) # 0
  BY EmptySeq DEF FrameTypes
<1>2. 1 \in 1 .. Len(replies) /\ 2 \in 1 .. Len(replies) + 1
  BY <1>1
<1>3. replies[1] \in Frame
  BY <1>1, <1>2
<1>4. /\ Body(replies[1]) \in Seq(Cell) /\ Len(Body(replies[1])) = replies[1].size
      /\ replies[1].size \in 0 .. MaxMessage /\ replies[1].size \in Nat
  BY <1>3, BodyType, FramingAssumption DEF Frame
<1>5. rest[2] \in Seq(Cell) /\ rest[1] = Bytes(replies[1]) \o rest[2]
  <2>1. rest[1] = Bytes(replies[1]) \o rest[2]
    <3>1. rest[1] = Bytes(replies[1]) \o rest[1 + 1]
      BY <1>2, Zenon DEF Laid
    <3>2. 1 + 1 = 2
      OBVIOUS
    <3> QED
      BY <3>1, <3>2, Zenon
  <2>2. rest[2] \in Seq(Cell)
    BY <1>2 DEF Laid
  <2> QED
    BY <2>1, <2>2
<1>6. down \in Seq(Cell) /\ writing \in Seq(Cell) /\ Coming \in Seq(Cell)
  BY LineTypes DEF FrameTypes, Upward
<1>7. /\ answer.size \in Nat /\ answer.body \in Seq(Cell)
      /\ answer = [size |-> answer.size, body |-> answer.body]
  BY DEF FrameTypes, Reading
<1> QED
  BY <1>1, <1>3, <1>4, <1>5, <1>6, <1>7

\* Nothing is on the line but frames of the server.
LEMMA SomethingComes ==
    ASSUME IInv, NEW rest, Laid(rest), Coming = rest[1], down # <<>>
    PROVE  replies # <<>>
<1>1. SUFFICES ASSUME replies = <<>> PROVE FALSE
  OBVIOUS
<1>2. rest[1] = <<>>
  <2>1. Len(replies) + 1 = 1
    BY <1>1
  <2> QED
    BY <2>1 DEF Laid
<1>3. down \in Seq(Cell) /\ writing \in Seq(Cell)
  BY DEF IInv, FrameTypes
<1> QED
  BY <1>2, <1>3, NothingLeft DEF Coming

LEMMA ReceiveSizeKeeps ==
    ASSUME IInv, ReceiveSize
    PROVE  IInv'
<1> USE DEF IInv
<1> DEFINE h == replies[1]
<1>1. /\ client = "size" /\ down # <<>> /\ down' = Tail(down) /\ calm' = TRUE
      /\ UNCHANGED <<up, server, request, taken, writing, replies>>
  BY DEF ReceiveSize
<1>2. PICK b \in Values(Head(down)) :
          /\ answer' = [NoFrame EXCEPT !.size = b]
          /\ client' = IF Longer(b) THEN "size2" ELSE AfterSize(b)
  BY DEF ReceiveSize
<1>3. PICK rest : Laid(rest) /\ Downward(rest)
  BY DEF Comes
<1>4. PICK later : later = rest[2]
  OBVIOUS
<1>5. /\ replies # <<>> /\ h \in Frame /\ down \in Seq(Cell) /\ writing \in Seq(Cell)
      /\ later \in Seq(Cell) /\ Coming = Bytes(h) \o later
      /\ Body(h) \in Seq(Cell) /\ Len(Body(h)) = h.size /\ h.size \in Nat
  <2>1. Coming = rest[1]
    BY <1>1, <1>3 DEF Downward
  <2>2. replies # <<>>
    BY <1>1, <1>3, <2>1, SomethingComes
  <2> QED
    BY <1>3, <1>4, <2>1, <2>2, ClientReads
<1>6. replies' # <<>> /\ replies'[1] = h
  BY <1>1, <1>5
<1> HIDE DEF h
<1>7. First(h) \in Cell /\ Rest(h) \in Seq(Cell)
  BY <1>5, CellTypes
<1>8. Coming = <<First(h)>> \o (Rest(h) \o later)
  <2>1. Bytes(h) = <<First(h)>> \o Rest(h)
    BY <1>5, FrameOnLine
  <2>2. <<First(h)>> \in Seq(Cell)
    BY <1>7
  <2>3. (<<First(h)>> \o Rest(h)) \o later = <<First(h)>> \o (Rest(h) \o later)
    BY <1>5, <1>7, <2>2, Regroup
  <2> QED
    BY <1>5, <2>1, <2>3
<1>9. Rest(h) \o later \in Seq(Cell)
  BY <1>5, <1>7
<1>10. Head(Coming) = First(h) /\ Tail(Coming) = Rest(h) \o later
  BY <1>7, <1>8, <1>9, HeadTail
<1>11. /\ Head(Coming) = Head(down) /\ Tail(Coming) = Tail(down) \o writing
       /\ Tail(down) \in Seq(Cell)
  BY <1>1, <1>5, TakeOne DEF Coming
<1>12. Coming' = Rest(h) \o later
  BY <1>1, <1>10, <1>11 DEF Coming
<1>13. b = SizeBytes(h.size)[1] /\ b \in Nat
  <2>1. Head(down) = First(h) /\ SizeBytes(h.size)[1] \in Nat
    BY <1>5, <1>10, <1>11, SizeRead
  <2> QED
    BY <1>2, <2>1 DEF Values, First
<1>14. answer' = [size |-> b, body |-> <<>>]
  BY <1>2 DEF NoFrame
<1>15. client' \in {"size2", "body", "got"}
  BY <1>2 DEF AfterSize
<1>16. FrameTypes'
  <2>1. answer' \in Reading
    <3>1. <<>> \in Seq(Cell)
      OBVIOUS
    <3> QED
      BY <1>13, <1>14, <3>1 DEF Reading
  <2> QED
    BY <1>1, <1>11, <1>15, <2>1 DEF FrameTypes
<1>17. Upward'
  BY <1>1, <1>15, UpwardKept
<1>18. Downward(rest)'
  <2>1. CASE IsLong(h)
    <3>1. client' = "size2"
      BY <1>2, <1>13, <2>1 DEF IsLong
    <3>2. Coming' = (<<Second(h)>> \o Body(h)) \o later
      BY <1>12, <2>1 DEF Rest
    <3> QED
      BY <1>4, <1>6, <1>13, <1>14, <2>1, <3>1, <3>2 DEF Downward
  <2>2. CASE ~ IsLong(h)
    <3>1. b = h.size /\ ~ Longer(b)
      BY <1>5, <1>13, <2>2, SizeRead DEF IsLong
    <3>2. answer'.body \o Coming' = Body(h) \o later
      BY <1>9, <1>12, <1>14, <2>2, Nothing DEF Rest
    <3>3. client' = IF b = 0 THEN "got" ELSE "body"
      BY <1>2, <3>1 DEF AfterSize
    <3>4. /\ client' = "body" => Len(answer'.body) < answer'.size
          /\ client' = "got" => Len(answer'.body) = answer'.size
      BY <1>13, <1>14, <3>3
    <3>5. Aligned(replies[1], rest[2])'
      BY <1>4, <1>6, <1>14, <3>1, <3>2 DEF Aligned
    <3> QED
      BY <1>6, <3>3, <3>4, <3>5 DEF Downward
  <2> QED
    BY <2>1, <2>2
<1>19. Comes'
  <2>1. Laid(rest)'
    BY <1>1, <1>3 DEF Laid
  <2> QED
    BY <1>18, <2>1 DEF Comes
<1> QED
  BY <1>16, <1>17, <1>19

LEMMA ReceiveSize2Keeps ==
    ASSUME IInv, ReceiveSize2
    PROVE  IInv'
<1> USE DEF IInv
<1> DEFINE h == replies[1]
<1>1. /\ client = "size2" /\ down' = IF down = <<>> THEN down ELSE Tail(down)
      /\ calm' = (down # <<>>)
      /\ UNCHANGED <<up, server, request, taken, writing, replies>>
  BY DEF ReceiveSize2
<1>2. PICK b \in IF down = <<>> THEN Byte ELSE Values(Head(down)) :
          LET size == SizeOf(answer.size, b) IN
          /\ answer' = [NoFrame EXCEPT !.size = size]
          /\ client' = IF size > MaxMessage THEN "lost" ELSE AfterSize(size)
  BY DEF ReceiveSize2
<1> DEFINE size == SizeOf(answer.size, b)
<1>3. answer' = [size |-> size, body |-> <<>>]
  BY <1>2 DEF NoFrame
<1>4. client' = IF size > MaxMessage THEN "lost" ELSE AfterSize(size)
  BY <1>2
<1>5. PICK rest : Laid(rest) /\ Downward(rest)
  BY DEF Comes
<1>6. PICK later : later = rest[2]
  OBVIOUS
<1>7. /\ replies # <<>> /\ IsLong(h) /\ answer.size = SizeBytes(h.size)[1]
      /\ answer.body = <<>> /\ Coming = (<<Second(h)>> \o Body(h)) \o later
  BY <1>1, <1>5, <1>6 DEF Downward
<1>8. /\ h \in Frame /\ down \in Seq(Cell) /\ writing \in Seq(Cell)
      /\ later \in Seq(Cell) /\ answer.size \in Nat
      /\ Body(h) \in Seq(Cell) /\ Len(Body(h)) = h.size /\ h.size \in 0 .. MaxMessage
      /\ h.size \in Nat
  BY <1>5, <1>6, <1>7, ClientReads
<1>9. replies' # <<>> /\ replies'[1] = h
  BY <1>1, <1>7
<1> HIDE DEF h
<1>10. Second(h) \in Cell /\ h.size > 0
  BY <1>7, <1>8, CellTypes, SizeRead
<1>11. Coming = <<Second(h)>> \o (Body(h) \o later) /\ Body(h) \o later \in Seq(Cell)
  <2>1. <<Second(h)>> \in Seq(Cell) /\ Body(h) \o later \in Seq(Cell)
    BY <1>8, <1>10
  <2>2. (<<Second(h)>> \o Body(h)) \o later = <<Second(h)>> \o (Body(h) \o later)
    BY <1>8, <2>1, Regroup
  <2> QED
    BY <1>7, <2>1, <2>2
<1>12. Head(Coming) = Second(h) /\ Tail(Coming) = Body(h) \o later /\ Coming # <<>>
  BY <1>10, <1>11, HeadTail
<1>13. ASSUME down # <<>>
       PROVE  Coming' = Body(h) \o later /\ size = h.size
  <2>1. Head(Coming) = Head(down) /\ Tail(Coming) = Tail(down) \o writing
    BY <1>8, <1>13, TakeOne DEF Coming
  <2>2. Coming' = Tail(Coming)
    BY <1>1, <1>13, <2>1 DEF Coming
  <2>3. b = SizeBytes(h.size)[2]
    <3>1. b \in Values(Head(down))
      BY <1>2, <1>13
    <3> QED
      BY <1>12, <2>1, <3>1 DEF Values, Second
  <2>4. size = h.size
    BY <1>7, <1>8, <2>3, SizeRead
  <2> QED
    BY <1>12, <2>2, <2>4
<1>14. size \in Nat
  <2>1. CASE down = <<>>
    <3>1. b \in Nat
      BY <1>2, <2>1, FramingAssumption DEF Byte
    <3>2. answer.size % Base \in Nat
      <4>1. ASSUME NEW n \in Nat PROVE n % Base \in Nat
        BY <4>1, FramingAssumption
      <4> QED
        BY <1>8, <4>1, Zenon
    <3> QED
      BY <3>1, <3>2, FramingAssumption DEF SizeOf
  <2>2. CASE down # <<>>
    BY <1>8, <1>13, <2>2
  <2> QED
    BY <2>1, <2>2
<1> HIDE DEF size
<1>15. client' \in {"body", "got", "lost"}
  BY <1>4 DEF AfterSize
<1>16. FrameTypes'
  <2>1. answer' \in Reading
    <3>1. <<>> \in Seq(Cell)
      OBVIOUS
    <3> QED
      BY <1>3, <1>14, <3>1 DEF Reading
  <2>2. down' \in Seq(Cell)
    BY <1>1, <1>8, TakeOne
  <2> QED
    BY <1>1, <1>15, <2>1, <2>2 DEF FrameTypes
<1>17. Upward'
  BY <1>1, <1>15, UpwardKept
<1>18. Downward(rest)'
  <2>1. /\ client' = "body" => Len(answer'.body) < answer'.size
        /\ client' = "got" => Len(answer'.body) = answer'.size
    BY <1>3, <1>4, <1>14 DEF AfterSize
  <2>2. Aligned(replies[1], rest[2])' \/ Misread(replies[1])'
    <3>1. CASE down # <<>>
      <4>1. answer'.body \o Coming' = Body(h) \o later
        BY <1>3, <1>11, <1>13, <3>1, Nothing
      <4>2. answer'.size = h.size
        BY <1>3, <1>13, <3>1
      <4> QED
        BY <1>6, <1>9, <4>1, <4>2 DEF Aligned
    <3>2. CASE down = <<>>
      <4>1. Coming' = Coming
        BY <1>1, <3>2 DEF Coming
      <4>2. answer'.body \o Coming' = Coming
        <5>1. Coming \in Seq(Cell)
          BY <1>8 DEF Coming
        <5> QED
          BY <1>3, <4>1, <5>1, Nothing
      <4>3. Coming[1].place = 0
        <5>1. Coming[1] = Second(h)
          BY <1>10, <1>11
        <5> QED
          BY <5>1 DEF Second
      <4> QED
        BY <1>1, <1>9, <1>10, <1>12, <3>2, <4>2, <4>3 DEF Misread
    <3> QED
      BY <3>1, <3>2
  <2>3. client' = "lost" => ~ calm'
    <3>1. SUFFICES ASSUME down # <<>> PROVE client' # "lost"
      BY <1>1
    <3>2. ~ (size > MaxMessage)
      BY <1>8, <1>13, <3>1, FramingAssumption
    <3> QED
      BY <1>4, <3>2 DEF AfterSize
  <2> QED
    BY <1>9, <1>15, <2>1, <2>2, <2>3 DEF Downward
<1>19. Comes'
  <2>1. Laid(rest)'
    BY <1>1, <1>5 DEF Laid
  <2> QED
    BY <1>18, <2>1 DEF Comes
<1> QED
  BY <1>16, <1>17, <1>19

\* A sequence cut in two.
LEMMA Split ==
    ASSUME NEW s \in Seq(Cell), NEW m \in 1 .. Len(s)
    PROVE  /\ SubSeq(s, 1, m) \in Seq(Cell) /\ Len(SubSeq(s, 1, m)) = m
           /\ SubSeq(s, m + 1, Len(s)) \in Seq(Cell)
OBVIOUS

\* The first place behind size is among the n places behind l.
LEMMA FirstBeyond ==
    ASSUME NEW l \in Nat, NEW size \in Nat, NEW m \in Nat, NEW n \in 1 .. m,
           l < size, l + n > size
    PROVE  LET k == size + 1 - l
           IN  k \in 1 .. n /\ k \in 1 .. m /\ l + k = size + 1
OBVIOUS

\* A block that has no size byte in it ends with the frame.
LEMMA BlockOfFrame ==
    ASSUME NEW b \in Seq(Cell), NEW s \in Seq(Cell), NEW t \in Seq(Cell),
           NEW later \in Seq(Cell), NEW f \in Frame, NEW n \in 1 .. Len(s),
           b \o (s \o t) = Body(f) \o later, Len(b) < f.size,
           \A k \in 1 .. Len(s) : s[k].place # 0,
           later # <<>> => later[1].place = 0
    PROVE  Len(b) + n <= f.size
<1>1. SUFFICES ASSUME Len(b) + n > f.size PROVE FALSE
  <2>1. f.size \in Nat
    BY BodyType
  <2> QED
    BY <2>1
<1>2. Body(f) \in Seq(Cell) /\ Len(Body(f)) = f.size /\ f.size \in Nat
  BY BodyType
<1> DEFINE k == f.size + 1 - Len(b)
<1>3. k \in 1 .. n /\ k \in 1 .. Len(s) /\ Len(b) + k = f.size + 1
  <2>1. Len(b) \in Nat /\ Len(s) \in Nat
    OBVIOUS
  <2> QED
    BY <1>1, <1>2, <2>1, FirstBeyond
<1>4. (b \o (s \o t))[Len(b) + k] = s[k]
  <2>1. PICK u \in Seq(Cell) : u = s \o t
    <3>1. s \o t \in Seq(Cell)
      OBVIOUS
    <3> QED
      BY <3>1, Zenon
  <2>2. u[k] = s[k] /\ k \in 1 .. Len(u)
    BY <1>3, <2>1
  <2>3. (b \o u)[Len(b) + k] = u[k]
    <3>1. ASSUME NEW v \in Seq(Cell), NEW i \in 1 .. Len(v) PROVE (b \o v)[Len(b) + i] = v[i]
      OBVIOUS
    <3> QED
      BY <2>1, <2>2, <3>1
  <2> QED
    BY <2>1, <2>2, <2>3
<1>5. Len(b) + Len(s) + Len(t) = f.size + Len(later)
  <2>1. Len(b \o (s \o t)) = Len(b) + Len(s) + Len(t)
    OBVIOUS
  <2>2. Len(Body(f) \o later) = f.size + Len(later)
    <3>1. PICK u \in Seq(Cell) : u = Body(f)
      BY <1>2
    <3>2. Len(u \o later) = Len(u) + Len(later)
      BY <3>1
    <3> QED
      BY <1>2, <3>1, <3>2
  <2> QED
    BY <2>1, <2>2
<1>6. Len(later) >= 1 /\ later # <<>>
  <2>1. Len(b) \in Nat /\ Len(s) \in Nat /\ Len(t) \in Nat /\ Len(later) \in Nat
    OBVIOUS
  <2>2. Len(later) >= 1
    BY <1>2, <1>3, <1>5, <2>1
  <2> QED
    BY <2>2
<1> HIDE DEF k
<1>7. (Body(f) \o later)[f.size + 1] = later[1]
  BY <1>2, <1>6
<1>8. s[k] = later[1]
  BY <1>3, <1>4, <1>7
<1> QED
  BY <1>3, <1>6, <1>8

\* What follows the first frame is nothing or begins with a size.
LEMMA SizeFollows ==
    ASSUME IInv, NEW rest, Laid(rest), replies # <<>>, rest[2] # <<>>
    PROVE  rest[2][1].place = 0
<1>1. replies \in Seq(Frame) /\ Len(replies) \in Nat /\ Len(replies) # 0
  BY EmptySeq DEF IInv, FrameTypes
<1>2. Len(replies) # 1
  <2>1. SUFFICES ASSUME Len(replies) = 1 PROVE FALSE
    OBVIOUS
  <2>2. Len(replies) + 1 = 2
    BY <2>1
  <2> QED
    BY <2>2 DEF Laid
<1>3. 2 \in 1 .. Len(replies) /\ 3 \in 1 .. Len(replies) + 1
  <2>1. PICK n \in Nat : n = Len(replies)
    BY <1>1
  <2>2. 2 \in 1 .. n /\ 3 \in 1 .. n + 1
    BY <1>1, <1>2, <2>1
  <2> QED
    BY <2>1, <2>2
<1>4. PICK g, later : g = replies[2] /\ later = rest[3]
  OBVIOUS
<1>5. g \in Frame /\ later \in Seq(Cell) /\ rest[2] = Bytes(g) \o later
  <2>1. rest[2] = Bytes(replies[2]) \o rest[3]
    <3>1. rest[2] = Bytes(replies[2]) \o rest[2 + 1]
      BY <1>3, Zenon DEF Laid
    <3>2. 2 + 1 = 3
      OBVIOUS
    <3> QED
      BY <3>1, <3>2, Zenon
  <2>2. rest[3] \in Seq(Cell) /\ replies[2] \in Frame
    BY <1>1, <1>3 DEF Laid
  <2> QED
    BY <1>4, <2>1, <2>2
<1>6. First(g) \in Cell /\ Rest(g) \in Seq(Cell) /\ Bytes(g) = <<First(g)>> \o Rest(g)
  BY <1>5, CellTypes, FrameOnLine
<1>7. ((<<First(g)>> \o Rest(g)) \o later)[1] = First(g)
  BY <1>5, <1>6
<1>8. rest[2][1] = First(g)
  BY <1>5, <1>6, <1>7, Zenon
<1> QED
  BY <1>8 DEF First

LEMMA ReceiveBodyKeeps ==
    ASSUME IInv, ReceiveBody
    PROVE  IInv'
<1> USE DEF IInv
<1>1. /\ client = "body" /\ down # <<>>
      /\ client' = IF Len(answer'.body) >= answer.size THEN "got" ELSE "body"
      /\ calm' = (calm /\ (answer.body # <<>> => \A k \in 1 .. Len(down) : down[k].place # 0))
      /\ UNCHANGED <<up, server, request, taken, writing, replies>>
  BY DEF ReceiveBody
<1>2. PICK n \in 1 .. Len(down) :
          /\ n <= answer.size
          /\ answer' = [answer EXCEPT !.body = @ \o SubSeq(down, 1, n)]
          /\ down' = SubSeq(down, n + 1, Len(down))
  BY DEF ReceiveBody
<1>3. PICK rest : Laid(rest) /\ Downward(rest)
  BY DEF Comes
<1>4. /\ replies # <<>> /\ Len(answer.body) < answer.size
      /\ Aligned(replies[1], rest[2]) \/ Misread(replies[1])
  BY <1>1, <1>3 DEF Downward
<1>5. /\ down \in Seq(Cell) /\ writing \in Seq(Cell) /\ rest[2] \in Seq(Cell)
      /\ replies[1] \in Frame
      /\ answer.size \in Nat /\ answer.body \in Seq(Cell)
      /\ answer = [size |-> answer.size, body |-> answer.body]
  BY <1>3, <1>4, ClientReads
<1>6. answer' = [size |-> answer.size, body |-> answer.body \o SubSeq(down, 1, n)]
  BY <1>2, <1>5
<1>7. /\ SubSeq(down, 1, n) \in Seq(Cell) /\ Len(SubSeq(down, 1, n)) = n
      /\ down' \in Seq(Cell)
  <2>1. down \in Seq(Cell) /\ n \in 1 .. Len(down)
    BY <1>5
  <2>2. /\ SubSeq(down, 1, n) \in Seq(Cell) /\ Len(SubSeq(down, 1, n)) = n
        /\ SubSeq(down, n + 1, Len(down)) \in Seq(Cell)
    BY <2>1, Split, Zenon
  <2> QED
    BY <1>2, <2>2
<1>8. /\ answer'.body \in Seq(Cell) /\ answer'.size = answer.size
      /\ Len(answer'.body) = Len(answer.body) + n
  BY <1>5, <1>6, <1>7
<1>9. answer'.body \o Coming' = answer.body \o Coming
  <2>1. (answer.body \o SubSeq(down, 1, n)) \o (SubSeq(down, n + 1, Len(down)) \o writing)
           = answer.body \o (down \o writing)
    BY <1>2, <1>5, MoveSome
  <2> QED
    BY <1>1, <1>2, <1>6, <2>1 DEF Coming
<1>10. client' \in {"body", "got"} /\ calm' \in BOOLEAN
  BY <1>1
<1>11. FrameTypes'
  <2>1. answer' \in Reading
    BY <1>5, <1>6, <1>8 DEF Reading
  <2> QED
    BY <1>1, <1>7, <1>10, <2>1 DEF FrameTypes
<1>12. Upward'
  BY <1>1, <1>10, UpwardKept
<1>13. Downward(rest)'
  <2>1. Aligned(replies[1], rest[2])' \/ Misread(replies[1])'
    BY <1>1, <1>4, <1>8, <1>9 DEF Aligned, Misread
  <2>2. client' = "body" => Len(answer'.body) < answer'.size
    <3>1. Len(answer'.body) \in Nat
      BY <1>8
    <3> QED
      BY <1>1, <1>5, <1>8, <3>1
  <2>3. client' = "got" /\ calm' => Len(answer'.body) = answer'.size
    <3>1. SUFFICES ASSUME client' = "got", calm' PROVE Len(answer'.body) <= answer.size
      BY <1>1, <1>5, <1>8
    <3>2. CASE answer.body = <<>>
      BY <1>2, <1>5, <1>8, <3>2
    <3>3. CASE answer.body # <<>>
      <4>1. \A k \in 1 .. Len(down) : down[k].place # 0
        BY <1>1, <3>1, <3>3
      <4>2. Aligned(replies[1], rest[2])
        BY <1>1, <1>4, <3>1 DEF Misread
      <4>3. PICK f, later : f = replies[1] /\ later = rest[2]
        OBVIOUS
      <4>4. /\ f \in Frame /\ later \in Seq(Cell) /\ answer.size = f.size
            /\ answer.body \o (down \o writing) = Body(f) \o later
        BY <1>5, <4>2, <4>3 DEF Aligned, Coming
      <4>5. later # <<>> => later[1].place = 0
        BY <1>3, <1>4, <4>3, SizeFollows
      <4>6. Len(answer.body) + n <= f.size
        BY <1>2, <1>4, <1>5, <4>1, <4>4, <4>5, BlockOfFrame
      <4> QED
        BY <1>8, <4>4, <4>6
    <3> QED
      BY <3>2, <3>3
  <2> QED
    BY <1>1, <1>4, <1>10, <2>1, <2>2, <2>3 DEF Downward
<1>14. Comes'
  <2>1. Laid(rest)'
    BY <1>1, <1>3 DEF Laid
  <2> QED
    BY <1>13, <2>1 DEF Comes
<1> QED
  BY <1>11, <1>12, <1>14

\* The frames after the first one, renumbered.
LEMMA NextLaid ==
    ASSUME IInv, NEW rest, Laid(rest), replies # <<>>, replies' = Tail(replies)
    PROVE  /\ replies' \in Seq(Frame)
           /\ \E next : Laid(next)' /\ next[1] = rest[2]
           /\ \A i \in Nat : IsReply(i)' <=> i # 0 /\ IsReply(i + 1)
<1>1. PICK n : n = Len(replies)
  OBVIOUS
<1>2. replies \in Seq(Frame) /\ n \in Nat /\ n # 0
  BY <1>1, EmptySeq DEF IInv, FrameTypes
<1>3. /\ replies' \in Seq(Frame) /\ Len(replies') = n - 1
      /\ \A i \in 1 .. n - 1 : replies'[i] = replies[i + 1]
  BY <1>1, <1>2
<1>4. /\ rest \in [1 .. n + 1 -> Seq(Cell)] /\ rest[n + 1] = <<>>
      /\ \A i \in 1 .. n : rest[i] = Bytes(replies[i]) \o rest[i + 1]
  BY <1>1 DEF Laid
<1>5. PICK next : next = [i \in 1 .. n |-> rest[i + 1]]
  OBVIOUS
<1>6. /\ \A i \in 1 .. n : next[i] = rest[i + 1]
      /\ next \in [1 .. n -> Seq(Cell)]
  BY <1>2, <1>4, <1>5
<1>7. ASSUME NEW i \in 1 .. n - 1
      PROVE  next[i] = Bytes(replies'[i]) \o next[i + 1]
  <2>1. i \in 1 .. n /\ i + 1 \in 1 .. n
    BY <1>2
  <2>2. rest[i + 1] = Bytes(replies[i + 1]) \o rest[i + 1 + 1]
    BY <1>4, <2>1
  <2>3. next[i] = rest[i + 1] /\ next[i + 1] = rest[i + 1 + 1]
    BY <1>6, <2>1
  <2> QED
    BY <1>3, <2>2, <2>3, Zenon
<1>8. Laid(next)'
  <2>1. Len(replies') + 1 = n /\ n \in 1 .. n
    BY <1>2, <1>3
  <2>2. next[n] = <<>>
    BY <1>4, <1>6, <2>1
  <2> QED
    BY <1>3, <1>6, <1>7, <2>1, <2>2, Zenon DEF Laid
<1>9. next[1] = rest[2]
  BY <1>2, <1>6
<1>10. ASSUME NEW i \in Nat
       PROVE  IsReply(i)' <=> i # 0 /\ IsReply(i + 1)
  <2>1. i \in 1 .. n - 1 <=> i # 0 /\ i + 1 \in 1 .. n
    BY <1>2
  <2> QED
    BY <1>1, <1>3, <2>1 DEF IsReply
<1> QED
  BY <1>3, <1>8, <1>9, <1>10

LEMMA ReceiveKeeps ==
    ASSUME IInv, Receive
    PROVE  IInv'
<1> USE DEF IInv
<1> DEFINE h == replies[1]
<1>1. /\ client = "got" /\ Intact
      /\ client' = IF Head(replies).kind = "reply" THEN "idle" ELSE "size"
      /\ replies' = Tail(replies) /\ answer' = NoFrame
      /\ UNCHANGED <<up, down, server, request, taken, writing, calm>>
  BY DEF Receive
<1>2. PICK rest : Laid(rest) /\ Downward(rest)
  BY DEF Comes
<1>3. PICK later : later = rest[2]
  OBVIOUS
<1>4. replies # <<>> /\ (Aligned(h, later) \/ Misread(h))
  BY <1>1, <1>2, <1>3 DEF Downward
<1>5. /\ h \in Frame /\ replies \in Seq(Frame) /\ Coming \in Seq(Cell) /\ later \in Seq(Cell)
      /\ Body(h) \in Seq(Cell) /\ Len(Body(h)) = h.size /\ h.size \in Nat
  BY <1>2, <1>3, <1>4, ClientReads
<1>6. Head(replies) = h /\ Len(replies) \in Nat /\ 1 \in 1 .. Len(replies)
  <2>1. Len(replies) \in Nat /\ Len(replies) # 0
    BY <1>4, <1>5, EmptySeq
  <2> QED
    BY <1>5, <2>1
<1>7. IsReply(1) <=> h.kind = "reply"
  BY <1>6 DEF IsReply
<1> HIDE DEF h
<1>8. answer.body = Body(h)
  BY <1>1, <1>6 DEF Intact
<1>9. ~ Misread(h)
  <2>1. SUFFICES ASSUME h.size > 0, (Body(h) \o Coming)[1].place = 0 PROVE FALSE
    BY <1>8 DEF Misread
  <2>2. (Body(h) \o Coming)[1] = Body(h)[1]
    BY <1>5, <2>1
  <2>3. Body(h)[1].place = 1
    BY <1>5, <2>1 DEF Body
  <2> QED
    BY <2>1, <2>2, <2>3
<1>10. Coming = later
  <2>1. Body(h) \o Coming = Body(h) \o later
    BY <1>4, <1>8, <1>9 DEF Aligned
  <2> QED
    BY <1>5, <2>1, Cancel
<1>11. PICK next : Laid(next)' /\ next[1] = later
  BY <1>1, <1>2, <1>3, <1>4, NextLaid
<1>12. /\ replies' \in Seq(Frame)
       /\ \A i \in Nat : IsReply(i)' <=> i # 0 /\ IsReply(i + 1)
  BY <1>1, <1>2, <1>4, NextLaid
<1>13. client' \in {"size", "idle"}
  BY <1>1
<1>14. FrameTypes'
  <2>1. answer' \in Reading
    <3>1. <<>> \in Seq(Cell)
      OBVIOUS
    <3> QED
      BY <1>1, <3>1 DEF NoFrame, Reading
  <2> QED
    BY <1>1, <1>12, <1>13, <2>1 DEF FrameTypes
<1>15. Comes'
  <2>1. Coming' = next[1]
    BY <1>1, <1>10, <1>11 DEF Coming
  <2>2. Downward(next)'
    BY <1>13, <2>1 DEF Downward
  <2> QED
    BY <1>11, <2>2 DEF Comes
<1>16. Upward'
  <2>1. Due' = Due
    BY <1>1, <1>13, UnsentIs DEF Due, Unsent
  <2>2. \A i, j \in Nat : IsReply(i)' /\ IsReply(j)' => i = j
    <3>1. ASSUME NEW i \in Nat, NEW j \in Nat, IsReply(i)', IsReply(j)'
          PROVE  i = j
      <4>1. i + 1 \in Nat /\ j + 1 \in Nat /\ IsReply(i + 1) /\ IsReply(j + 1)
        BY <1>12, <3>1
      <4>2. i + 1 = j + 1
        BY <4>1 DEF Upward
      <4> QED
        BY <4>2
    <3> QED
      BY <3>1
  <2>3. CASE h.kind = "reply"
    <3>1. IsReply(1) /\ client' = "idle"
      BY <1>1, <1>6, <1>7, <2>3
    <3>2. ~ Answered'
      <4>1. SUFFICES ASSUME NEW i \in Nat, IsReply(i)' PROVE FALSE
        BY DEF Answered
      <4>2. i # 0 /\ IsReply(i + 1) /\ i + 1 \in Nat /\ 1 \in Nat
        BY <1>12, <4>1
      <4>3. i + 1 = 1
        BY <3>1, <4>2 DEF Upward
      <4> QED
        BY <4>2, <4>3
    <3>3. server = "size" /\ Due = <<>>
      BY <3>1 DEF Upward, Answered
    <3> QED
      BY <1>1, <2>1, <2>2, <3>1, <3>2, <3>3 DEF Upward
  <2>4. CASE h.kind # "reply"
    <3>1. client' = "size"
      BY <1>1, <1>6, <2>4
    <3>2. Answered' <=> Answered
      <4>1. ASSUME Answered' PROVE Answered
        <5>1. PICK i \in Nat : IsReply(i)'
          BY <4>1 DEF Answered
        <5>2. IsReply(i + 1) /\ i + 1 \in Nat
          BY <1>12, <5>1
        <5> QED
          BY <5>2 DEF Answered
      <4>2. ASSUME Answered PROVE Answered'
        <5>1. PICK i \in Nat : IsReply(i)
          BY <4>2 DEF Answered
        <5>2. i # 1 /\ i # 0
          BY <1>7, <2>4, <5>1 DEF IsReply
        <5>3. PICK j \in Nat : j + 1 = i /\ j # 0
          BY <5>1, <5>2
        <5>4. IsReply(j)'
          BY <1>12, <5>1, <5>3
        <5> QED
          BY <5>4 DEF Answered
      <4> QED
        BY <4>1, <4>2
    <3>3. Reads => Reads'
      BY <1>1, <2>1 DEF Reads
    <3> QED
      BY <1>1, <2>1, <2>2, <3>1, <3>2, <3>3 DEF Upward
  <2> QED
    BY <2>3, <2>4
<1> QED
  BY <1>14, <1>15, <1>16

-----------------------------------------------------------------------------
LEMMA InitFraming == Init => IInv
<1> SUFFICES ASSUME Init PROVE IInv
  OBVIOUS
<1> USE DEF Init
<1>1. <<>> \in Seq(Cell) /\ <<>> \in Seq(Frame) /\ Len(<<>>) = 0
  OBVIOUS
<1>2. request \in Frame
  BY FramingAssumption DEF Frame
<1>3. FrameTypes
  BY <1>1, <1>2 DEF FrameTypes, Reading, NoFrame
<1>4. Due = <<>> /\ Coming = <<>>
  BY <1>1, Nothing DEF Due, Unsent, Coming
<1>5. \A i \in Nat : ~ IsReply(i)
  BY <1>1 DEF IsReply
<1>6. Upward
  BY <1>4, <1>5 DEF Upward, Answered
<1>7. PICK rest : rest = [i \in 1 .. 1 |-> <<>>]
  OBVIOUS
<1>8. rest \in [1 .. 1 -> Seq(Cell)] /\ rest[1] = <<>>
  BY <1>1, <1>7
<1>9. Laid(rest)
  BY <1>1, <1>8 DEF Laid
<1>10. Downward(rest)
  BY <1>4, <1>8 DEF Downward
<1> QED
  BY <1>3, <1>6, <1>9, <1>10 DEF IInv, Comes

LEMMA NextFraming == IInv /\ [Next]_vars => IInv'
<1> SUFFICES ASSUME IInv, [Next]_vars PROVE IInv'
  OBVIOUS
<1>1. CASE UNCHANGED vars
  <2>1. UNCHANGED <<up, down, client, server, request, taken, writing, replies, answer, calm>>
    BY <1>1 DEF vars
  <2>2. Due' = Due
    BY <2>1 DEF Due, Unsent
  <2>3. FrameTypes'
    BY <2>1 DEF IInv, FrameTypes
  <2>4. Upward'
    <3>1. \A i : IsReply(i)' <=> IsReply(i)
      BY <2>1 DEF IsReply
    <3>2. Answered' <=> Answered
      BY <3>1 DEF Answered
    <3>3. Reads => Reads'
      BY <2>1, <2>2 DEF Reads
    <3> QED
      BY <2>1, <2>2, <3>1, <3>2, <3>3 DEF IInv, Upward
  <2>5. Comes'
    BY <2>1, ComesKept DEF IInv
  <2> QED
    BY <2>3, <2>4, <2>5 DEF IInv
<1>2. CASE Next
  <2>1. CASE Send
    BY <2>1, SendKeeps
  <2>2. CASE SendSize2
    BY <2>2, SendSize2Keeps
  <2>3. CASE SendBody
    BY <2>3, SendBodyKeeps
  <2>4. CASE ServerSize
    BY <2>4, ServerSizeKeeps
  <2>5. CASE ServerSize2
    BY <2>5, ServerSize2Keeps
  <2>6. CASE ServerBody
    BY <2>6, ServerBodyKeeps
  <2>7. CASE Handle
    BY <2>7, HandleKeeps
  <2>8. CASE Debug
    BY <2>8, DebugKeeps
  <2>9. CASE WriteByte
    BY <2>9, WriteByteKeeps
  <2>10. CASE ReceiveSize
    BY <2>10, ReceiveSizeKeeps
  <2>11. CASE ReceiveSize2
    BY <2>11, ReceiveSize2Keeps
  <2>12. CASE ReceiveBody
    BY <2>12, ReceiveBodyKeeps
  <2>13. CASE Receive
    BY <2>13, ReceiveKeeps
  <2> QED
    BY <1>2, <2>1, <2>2, <2>3, <2>4, <2>5, <2>6, <2>7, <2>8, <2>9, <2>10, <2>11, <2>12, <2>13 DEF Next
<1> QED
  BY <1>1, <1>2

\* The inductive invariant, of which the two theorems below are consequences.
THEOREM FramesAddUp == Spec => []IInv
  BY InitFraming, NextFraming, PTL DEF Spec

\* RequestsArrive: for every base, every size up to MaxMessage and every
\* interleaving of the bytes, also after a reply that was misread,
\* comm_receive_next_message decodes the body of the request that was sent.
THEOREM RequestsArrive == Spec => []RequestsIntact
<1>1. IInv => RequestsIntact
  BY DEF IInv, Upward, Reads, RequestsIntact
<1> QED
  BY <1>1, FramesAddUp, PTL

\* RepliesArrive: for the same, and any number of debug frames before, between
\* and after the replies, FdbgClient::receive parses the body of the frame that
\* the server wrote, provided that the second size byte was there when it was
\* read and that no size of another frame was when a body was read on.
THEOREM RepliesArrive == Spec => []RepliesIntact
<1>1. IInv => RepliesIntact
  <2>1. SUFFICES ASSUME IInv, calm PROVE client # "lost" /\ (client = "got" => Intact)
    BY DEF RepliesIntact
  <2>2. PICK rest : Laid(rest) /\ Downward(rest)
    BY <2>1 DEF IInv, Comes
  <2>3. client # "lost"
    BY <2>1, <2>2 DEF Downward
  <2>4. ASSUME client = "got" PROVE Intact
    <3>1. PICK f, later : f = replies[1] /\ later = rest[2]
      OBVIOUS
    <3>2. /\ replies # <<>> /\ Aligned(f, later) /\ Len(answer.body) = answer.size
      BY <2>1, <2>2, <2>4, <3>1 DEF Downward, Misread
    <3>3. /\ replies \in Seq(Frame) /\ Body(f) \in Seq(Cell) /\ Len(Body(f)) = f.size
          /\ Coming \in Seq(Cell) /\ answer.body \in Seq(Cell) /\ later \in Seq(Cell)
      BY <2>1, <2>2, <3>1, <3>2, ClientReads
    <3>4. answer.body = Body(f)
      BY <3>2, <3>3, SameBeginning DEF Aligned
    <3> QED
      BY <3>1, <3>2, <3>3, <3>4 DEF Intact
  <2> QED
    BY <2>3, <2>4
<1> QED
  BY <1>1, FramesAddUp, PTL
=============================================================================
