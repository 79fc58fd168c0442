----------------------------- MODULE GdbLink_proofs -----------------------------
(***************************************************************************)
(* Safety of the conversation with GDB, for any number of packets,         *)
(* connections, wrong checksums and Ctrl+Cs: no packet is torn, repeated   *)
(* or left over, and the client takes the answer to its own packet.        *)
(*                                                                         *)
(* Three readers share the bytes from the client: readchar with its        *)
(* buffer, the loop of putpkt and remote_interrupt.  What keeps them apart *)
(* is where the packet lies among the other bytes: see Ahead.              *)
(***************************************************************************)
EXTENDS GdbLink, SequenceTheorems, TLAPS

Bodies == [conn : Nat, n : Nat, op : Op]
Items == [c : {"$", "body", "#", "#bad", "+", "-", "brk", "answer"}, body : Bodies]
Busy == {"run", "send", "ack"}
Pending == req.n = handled + 1

LinkTypes ==
  /\ c2s \in Seq(Items) /\ rbuf \in Seq(Items) /\ s2c \in Seq(Items)
  /\ srv \in GettingPacket \cup Busy \cup {"accept"}
  /\ cli \in {"idle", "wack", "wreply", "gone"}
  /\ eof => cli = "gone"
  /\ own_buf \in Bodies /\ req \in Bodies
  /\ conn \in 1 .. MaxConn /\ handled \in Nat

\* A byte that is no part of a packet.
Noise(x) == x.c \in {"+", "brk"}
AllNoise(s) == \A i \in 1 .. Len(s) : Noise(s[i])

\* The packet r begins at place p of s, which may be in front of s or behind it, and
\* may be cut by the end of s; everything else is noise.
Framed(s, p, r) ==
  \A i \in 1 .. Len(s) :
    /\ i = p => s[i].c = "$"
    /\ i = p + 1 => s[i].c = "body" /\ s[i].body = r
    /\ i = p + 2 => s[i].c \in {"#", "#bad"}
    /\ i \notin p .. p + 2 => Noise(s[i])

\* What the next call of getpkt will read.
Stream == IF srv \in Busy THEN c2s ELSE rbuf \o c2s

\* A "+" lies in front of place p: putpkt stops there and leaves the packet alone.
Ahead(p) == \E j \in 1 .. Len(c2s) : j < p /\ c2s[j].c = "+"

Refused == \E i \in 1 .. Len(s2c) : s2c[i].c = "-"

\* The packet is at place p of the stream: further on than the server has read, whole
\* unless the client is gone, and not there after it was refused.
FrameAt(p) ==
  /\ Framed(Stream, p, req)
  /\ srv = "body" => p = 0
  /\ srv = "sum" => p = -1
  /\ srv \notin {"body", "sum"} => p > 0
  /\ p <= Len(Stream) => Pending
  /\ cli # "gone" => p > Len(Stream) \/ p + 2 <= Len(Stream)
  /\ cli # "gone" /\ Refused => p > Len(Stream)
  /\ srv \in {"send", "ack"} /\ (p <= Len(Stream) \/ cli = "idle") => Ahead(p)

Frame == \E p \in Int : FrameAt(p)

\* Whose packet the server has.
Handling ==
  /\ req.n = handled \/ Pending
  /\ req.n > 0 => req.conn = conn
  /\ srv \in Busy => own_buf.conn = conn /\ own_buf.n = handled /\ AllNoise(rbuf)
  /\ srv = "run" => req.n = handled
  /\ srv = "body" => Pending
  /\ srv = "sum" => Pending /\ own_buf = req
  /\ srv = "accept" => rbuf = <<>> /\ cli = "gone"

IsAnswer(x) == x.c = "answer"
Current(x) == IsAnswer(x) /\ x.body.n = handled

\* What is on its way to the client, by what it waits for: only answers that came twice
\* before the acknowledgement, and only answers to its packet behind it.
Replies ==
  /\ cli = "idle" => /\ req.n = handled /\ answered = handled /\ srv # "run"
                     /\ \A i \in 1 .. Len(s2c) : IsAnswer(s2c[i])
  /\ cli = "wreply" => /\ req.n = handled
                       /\ srv = "run" => s2c = <<>>
                       /\ \A i \in 1 .. Len(s2c) : Current(s2c[i])
  /\ cli = "wack" /\ Pending =>
       \A i \in 1 .. Len(s2c) : \/ IsAnswer(s2c[i])
                                \/ s2c[i].c = "-" /\ i = Len(s2c) /\ srv = "hunt"
  /\ cli = "wack" /\ req.n = handled =>
       \E q \in 1 .. Len(s2c) :
         /\ s2c[q].c = "+"
         /\ srv = "run" => q = Len(s2c)
         /\ \A i \in 1 .. Len(s2c) : /\ i < q => IsAnswer(s2c[i])
                                     /\ i > q => Current(s2c[i])

LinkInv == LinkTypes /\ Handling /\ Frame /\ Replies
-------------------------------------------------------------------------------
\* What the operations on a stream do to a frame.

LEMMA FramedTail ==
  ASSUME NEW s \in Seq(Items), s # <<>>, NEW p \in Int, NEW r, Framed(s, p, r)
  PROVE  /\ Framed(Tail(s), p - 1, r)
         /\ Len(Tail(s)) = Len(s) - 1 /\ Len(s) \in Nat \ {0}
         /\ Tail(s) \in Seq(Items) /\ Head(s) = s[1]
<1>1. /\ Tail(s) \in Seq(Items) /\ Len(Tail(s)) = Len(s) - 1
      /\ \A i \in 1 .. Len(Tail(s)) : Tail(s)[i] = s[i + 1]
      /\ Len(s) \in Nat \ {0}
  BY HeadTailProperties, EmptySeq
<1>2. ASSUME NEW i \in 1 .. Len(Tail(s))
      PROVE  /\ i = p - 1 => Tail(s)[i].c = "$"
             /\ i = (p - 1) + 1 => Tail(s)[i].c = "body" /\ Tail(s)[i].body = r
             /\ i = (p - 1) + 2 => Tail(s)[i].c \in {"#", "#bad"}
             /\ i \notin p - 1 .. (p - 1) + 2 => Noise(Tail(s)[i])
  <2>1. i + 1 \in 1 .. Len(s) /\ Tail(s)[i] = s[i + 1] /\ i \in Int
    BY <1>1
  <2> QED
    BY <2>1 DEF Framed
<1> QED
  BY <1>1, <1>2 DEF Framed

\* The same when the frame is behind the end: nothing but noise.
LEMMA NoiseFramed ==
  ASSUME NEW s \in Seq(Items), NEW p \in Int, NEW r
  PROVE  /\ AllNoise(s) /\ p > Len(s) => Framed(s, p, r)
         /\ Framed(s, p, r) /\ p > Len(s) => AllNoise(s)
<1>1. Len(s) \in Nat
  BY LenProperties
<1> QED
  BY <1>1 DEF Framed, AllNoise

LEMMA FramedAppend ==
  ASSUME NEW s \in Seq(Items), NEW x \in Items, Noise(x), NEW p \in Int, NEW r,
         Framed(s, p, r), p + 2 <= Len(s) \/ p > Len(s) + 1
  PROVE  /\ Framed(Append(s, x), p, r)
         /\ Append(s, x) \in Seq(Items) /\ Len(Append(s, x)) = Len(s) + 1
<1>1. /\ Append(s, x) \in Seq(Items) /\ Len(Append(s, x)) = Len(s) + 1
      /\ \A i \in 1 .. Len(s) : Append(s, x)[i] = s[i]
      /\ Append(s, x)[Len(s) + 1] = x
      /\ Len(s) \in Nat
  BY AppendProperties, LenProperties
<1>2. ASSUME NEW i \in 1 .. Len(s) + 1
      PROVE  /\ i = p => Append(s, x)[i].c = "$"
             /\ i = p + 1 => Append(s, x)[i].c = "body" /\ Append(s, x)[i].body = r
             /\ i = p + 2 => Append(s, x)[i].c \in {"#", "#bad"}
             /\ i \notin p .. p + 2 => Noise(Append(s, x)[i])
  <2>1. CASE i = Len(s) + 1
    <3>1. i \notin p .. p + 2 /\ i # p /\ i # p + 1 /\ i # p + 2
      BY <1>1, <2>1
    <3> QED
      BY <1>1, <2>1, <3>1
  <2>2. CASE i \in 1 .. Len(s)
    BY <1>1, <2>2 DEF Framed
  <2> QED
    BY <1>1, <2>1, <2>2
<1> QED
  BY <1>1, <1>2 DEF Framed

\* A packet behind noise.
LEMMA FramedPacket ==
  ASSUME NEW s \in Seq(Items), AllNoise(s), NEW r \in Bodies, NEW sum \in {"#", "#bad"}
  PROVE  /\ Framed(s \o Packet(r, sum), Len(s) + 1, r)
         /\ s \o Packet(r, sum) \in Seq(Items)
         /\ Len(s \o Packet(r, sum)) = Len(s) + 3
         /\ Len(s) \in Nat
         /\ \A i \in 1 .. Len(s) : (s \o Packet(r, sum))[i] = s[i]
<1> DEFINE k == Packet(r, sum)
<1>1. NoBody \in Bodies
  BY DEF NoBody, Bodies, Op
<1>2. /\ k \in Seq(Items) /\ Len(k) = 3
      /\ k[1].c = "$" /\ k[2].c = "body" /\ k[2].body = r /\ k[3].c = sum
  BY <1>1 DEF Packet, Byte, Items
<1> HIDE DEF k
<1>3. /\ s \o k \in Seq(Items) /\ Len(s) \in Nat /\ Len(s \o k) = Len(s) + 3
      /\ \A i \in 1 .. Len(s) + 3 : (s \o k)[i] = IF i <= Len(s) THEN s[i] ELSE k[i - Len(s)]
  <2>1. /\ s \o k \in Seq(Items) /\ Len(s \o k) = Len(s) + Len(k)
        /\ \A i \in 1 .. Len(s) + Len(k) :
             (s \o k)[i] = IF i <= Len(s) THEN s[i] ELSE k[i - Len(s)]
    BY <1>2, ConcatProperties
  <2>2. Len(s) \in Nat
    BY LenProperties
  <2> QED
    BY <1>2, <2>1, <2>2
<1>4. ASSUME NEW i \in 1 .. Len(s) + 3
      PROVE  /\ i = Len(s) + 1 => (s \o k)[i].c = "$"
             /\ i = (Len(s) + 1) + 1 => (s \o k)[i].c = "body" /\ (s \o k)[i].body = r
             /\ i = (Len(s) + 1) + 2 => (s \o k)[i].c \in {"#", "#bad"}
             /\ i \notin Len(s) + 1 .. (Len(s) + 1) + 2 => Noise((s \o k)[i])
  <2>1. CASE i <= Len(s)
    BY <1>3, <2>1 DEF AllNoise
  <2>2. CASE i = Len(s) + 1
    BY <1>2, <1>3, <2>2
  <2>3. CASE i = Len(s) + 2
    BY <1>2, <1>3, <2>3
  <2>4. CASE i = Len(s) + 3
    BY <1>2, <1>3, <2>4
  <2> QED
    BY <1>3, <2>1, <2>2, <2>3, <2>4
<1>5. Framed(s \o k, Len(s) + 1, r)
  BY <1>3, <1>4 DEF Framed
<1>6. \A i \in 1 .. Len(s) : (s \o k)[i] = s[i]
  BY <1>3
<1> QED
  BY <1>3, <1>5, <1>6 DEF k

\* The buffer of readchar in front of the socket.
LEMMA FramedConcat ==
  ASSUME NEW s \in Seq(Items), AllNoise(s), NEW t \in Seq(Items),
         NEW p \in Int, p > 0, NEW r, Framed(t, p, r)
  PROVE  /\ Framed(s \o t, Len(s) + p, r)
         /\ s \o t \in Seq(Items) /\ Len(s \o t) = Len(s) + Len(t)
         /\ Len(s) \in Nat /\ Len(t) \in Nat
<1>1. /\ s \o t \in Seq(Items) /\ Len(s \o t) = Len(s) + Len(t)
      /\ \A i \in 1 .. Len(s) + Len(t) :
           (s \o t)[i] = IF i <= Len(s) THEN s[i] ELSE t[i - Len(s)]
      /\ Len(s) \in Nat /\ Len(t) \in Nat
  BY ConcatProperties, LenProperties
<1>2. ASSUME NEW i \in 1 .. Len(s) + Len(t)
      PROVE  /\ i = Len(s) + p => (s \o t)[i].c = "$"
             /\ i = (Len(s) + p) + 1 => (s \o t)[i].c = "body" /\ (s \o t)[i].body = r
             /\ i = (Len(s) + p) + 2 => (s \o t)[i].c \in {"#", "#bad"}
             /\ i \notin Len(s) + p .. (Len(s) + p) + 2 => Noise((s \o t)[i])
  <2>1. CASE i <= Len(s)
    <3>1. Noise((s \o t)[i])
      BY <1>1, <2>1 DEF AllNoise
    <3> QED
      BY <1>1, <2>1, <3>1
  <2>2. CASE ~(i <= Len(s))
    <3>1. i - Len(s) \in 1 .. Len(t) /\ (s \o t)[i] = t[i - Len(s)]
      BY <1>1, <2>2
    <3> QED
      BY <1>1, <3>1 DEF Framed
  <2> QED
    BY <2>1, <2>2
<1> QED
  BY <1>1, <1>2 DEF Framed

LEMMA NoiseConcat ==
  ASSUME NEW s \in Seq(Items), NEW t \in Seq(Items), AllNoise(s \o t)
  PROVE  AllNoise(s) /\ AllNoise(t)
<1>1. /\ s \o t \in Seq(Items) /\ Len(s \o t) = Len(s) + Len(t)
      /\ \A i \in 1 .. Len(s) + Len(t) :
           (s \o t)[i] = IF i <= Len(s) THEN s[i] ELSE t[i - Len(s)]
      /\ Len(s) \in Nat /\ Len(t) \in Nat
  BY ConcatProperties, LenProperties
<1>2. ASSUME NEW i \in 1 .. Len(s) PROVE Noise(s[i])
  BY <1>1, <1>2 DEF AllNoise
<1>3. ASSUME NEW i \in 1 .. Len(t) PROVE Noise(t[i])
  <2>1. i + Len(s) \in 1 .. Len(s) + Len(t) /\ ~(i + Len(s) <= Len(s))
        /\ (i + Len(s)) - Len(s) = i
    BY <1>1
  <2> QED
    BY <1>1, <2>1 DEF AllNoise
<1> QED
  BY <1>2, <1>3 DEF AllNoise

\* What is lost when a connection breaks.
LEMMA FramedPrefix ==
  ASSUME NEW s \in Seq(Items), NEW k \in 0 .. Len(s), NEW p \in Int, NEW r, Framed(s, p, r)
  PROVE  /\ Framed(SubSeq(s, 1, k), p, r)
         /\ SubSeq(s, 1, k) \in Seq(Items) /\ Len(SubSeq(s, 1, k)) = k
         /\ \A i \in 1 .. k : SubSeq(s, 1, k)[i] = s[i]
<1>1. Len(s) \in Nat /\ \A i \in 1 .. k : s[i] \in Items
  BY LenProperties, ElementOfSeq
<1>2. /\ SubSeq(s, 1, k) \in Seq(Items) /\ Len(SubSeq(s, 1, k)) = k
      /\ \A i \in 1 .. k : SubSeq(s, 1, k)[i] = s[i]
  BY <1>1, SubSeqProperties
<1>3. ASSUME NEW i \in 1 .. k
      PROVE  i \in 1 .. Len(s) /\ SubSeq(s, 1, k)[i] = s[i]
  BY <1>1, <1>2
<1> QED
  BY <1>2, <1>3 DEF Framed

LEMMA ByteItem ==
  ASSUME NEW c \in {"$", "#", "#bad", "+", "-", "brk"}
  PROVE  Byte(c) \in Items /\ Byte(c).c = c
BY DEF Byte, NoBody, Items, Bodies, Op

LEMMA TailConcat ==
  ASSUME NEW s \in Seq(Items), s # <<>>, NEW t \in Seq(Items)
  PROVE  /\ Tail(s) \o t = Tail(s \o t) /\ s \o t # <<>>
         /\ Head(s) = (s \o t)[1] /\ s \o t \in Seq(Items) /\ Tail(s) \in Seq(Items)
<1>1. /\ s \o t \in Seq(Items) /\ Len(s \o t) = Len(s) + Len(t)
      /\ \A i \in 1 .. Len(s) + Len(t) :
           (s \o t)[i] = IF i <= Len(s) THEN s[i] ELSE t[i - Len(s)]
  BY ConcatProperties
<1>2. Len(s) \in Nat \ {0} /\ Len(t) \in Nat
  BY EmptySeq, LenProperties
<1>3. s \o t # <<>>
  BY <1>1, <1>2, EmptySeq
<1>4. /\ Tail(s) \in Seq(Items) /\ Len(Tail(s)) = Len(s) - 1
      /\ \A i \in 1 .. Len(Tail(s)) : Tail(s)[i] = s[i + 1]
  BY HeadTailProperties
<1>5. /\ Tail(s \o t) \in Seq(Items) /\ Len(Tail(s \o t)) = Len(s \o t) - 1
      /\ \A i \in 1 .. Len(Tail(s \o t)) : Tail(s \o t)[i] = (s \o t)[i + 1]
  <2> DEFINE u == s \o t
  <2> HIDE DEF u
  <2>1. u \in Seq(Items) /\ u # <<>>
    BY <1>1, <1>3 DEF u
  <2>2. /\ Tail(u) \in Seq(Items) /\ Len(Tail(u)) = Len(u) - 1
        /\ \A i \in 1 .. Len(Tail(u)) : Tail(u)[i] = u[i + 1]
    BY <2>1, HeadTailProperties
  <2> QED
    BY <2>2 DEF u
<1>6. /\ Tail(s) \o t \in Seq(Items) /\ Len(Tail(s) \o t) = Len(Tail(s)) + Len(t)
      /\ \A i \in 1 .. Len(Tail(s)) + Len(t) :
           (Tail(s) \o t)[i] = IF i <= Len(Tail(s)) THEN Tail(s)[i] ELSE t[i - Len(Tail(s))]
  BY <1>4, ConcatProperties
<1>7. ASSUME NEW i \in 1 .. Len(s) + Len(t) - 1
      PROVE  (Tail(s) \o t)[i] = Tail(s \o t)[i]
  <2>1. Tail(s \o t)[i] = (s \o t)[i + 1]
    BY <1>1, <1>2, <1>5
  <2>2. CASE i <= Len(s) - 1
    BY <1>1, <1>2, <1>4, <1>6, <2>1, <2>2
  <2>3. CASE ~(i <= Len(s) - 1)
    <3>1. i - Len(Tail(s)) = i + 1 - Len(s) /\ ~(i <= Len(Tail(s)))
      BY <1>2, <1>4, <2>3
    <3>2. (Tail(s) \o t)[i] = t[i + 1 - Len(s)]
      BY <1>2, <1>4, <1>6, <3>1
    <3>3. (s \o t)[i + 1] = t[i + 1 - Len(s)]
      BY <1>1, <1>2, <2>3
    <3> QED
      BY <2>1, <3>2, <3>3
  <2> QED
    BY <2>2, <2>3
<1>8. /\ Len(Tail(s) \o t) = Len(s) + Len(t) - 1
      /\ Len(Tail(s \o t)) = Len(s) + Len(t) - 1
  BY <1>1, <1>2, <1>4, <1>5, <1>6
<1>9. Tail(s) \o t = Tail(s \o t)
  BY <1>5, <1>6, <1>7, <1>8, SeqEqual
<1>10. Head(s) = (s \o t)[1]
  BY <1>1, <1>2
<1> QED
  BY <1>1, <1>3, <1>4, <1>9, <1>10

-------------------------------------------------------------------------------
\* The server.

LEMMA ReadKeeps ==
  ASSUME LinkInv, Read
  PROVE  LinkInv'
<1>1. PICK k \in 1 .. Len(c2s) :
        /\ rbuf' = SubSeq(c2s, 1, k)
        /\ c2s' = SubSeq(c2s, k + 1, Len(c2s))
  BY DEF Read
<1>2. /\ srv \in GettingPacket /\ rbuf = <<>>
      /\ UNCHANGED <<eof, s2c, cli, req, conn, answered, srv, own_buf, handled>>
  BY DEF Read, clientV
<1>3. c2s \in Seq(Items) /\ Len(c2s) \in Nat
  BY LenProperties DEF LinkInv, LinkTypes
<1>4. rbuf' \o c2s' = c2s
  <2>1. SubSeq(c2s, 1, k) \o SubSeq(c2s, k + 1, Len(c2s)) = SubSeq(c2s, 1, Len(c2s))
    BY <1>3, ConcatAdjacentSubSeq
  <2> QED
    BY <1>1, <1>3, <2>1, SubSeqFull
<1>5. rbuf' \in Seq(Items) /\ c2s' \in Seq(Items)
  <2>1. \A i \in 1 .. Len(c2s) : c2s[i] \in Items
    BY <1>3, ElementOfSeq
  <2>2. SubSeq(c2s, 1, k) \in Seq(Items)
    BY <1>3, <2>1, SubSeqProperties
  <2>3. SubSeq(c2s, k + 1, Len(c2s)) \in Seq(Items)
    BY <1>3, <2>1, SubSeqProperties
  <2> QED
    BY <1>1, <2>2, <2>3
<1>6. rbuf \o c2s = c2s
  BY <1>2, <1>3, ConcatEmptySeq
<1>7. Stream' = Stream
  BY <1>2, <1>4, <1>6 DEF Stream, GettingPacket, Busy
<1>8. LinkTypes' /\ Handling' /\ Replies'
  BY <1>2, <1>5 DEF LinkInv, LinkTypes, Handling, Pending, Replies, IsAnswer, Current,
     GettingPacket, Busy
<1>9. Frame'
  <2>1. PICK p \in Int : FrameAt(p)
    BY DEF LinkInv, Frame
  <2>2. FrameAt(p)'
    BY <1>2, <1>7, <2>1 DEF FrameAt, Pending, Refused, GettingPacket
  <2> QED
    BY <2>2 DEF Frame
<1> QED
  BY <1>8, <1>9 DEF LinkInv

\* A frame may be taken to begin anywhere behind the end of an empty stream.
LEMMA EmptyFramed ==
  ASSUME NEW r
  PROVE  Framed(<<>>, 1, r) /\ Len(<<>>) = 0 /\ <<>> \in Seq(Items) /\ AllNoise(<<>>)
BY DEF Framed, AllNoise

LEMMA ReadEofKeeps ==
  ASSUME LinkInv, ReadEof
  PROVE  LinkInv'
<1>1. /\ srv \in GettingPacket /\ rbuf = <<>> /\ c2s = <<>> /\ cli = "gone"
      /\ UNCHANGED <<eof, c2s, rbuf, s2c, cli, req, conn, answered, own_buf>>
  BY DEF ReadEof, LinkInv, LinkTypes, clientV
<1>2. /\ srv' \in {"accept", "hunt", "run", "send"}
      /\ \/ handled' = handled /\ srv' \in {"accept", "hunt"}
         \/ handled' = handled + 1 /\ srv = "sum" /\ srv' \in {"run", "send"}
  BY DEF ReadEof, Handle
<1>3. Stream' = <<>>
  BY <1>1, EmptyFramed, ConcatEmptySeq DEF Stream
<1>4. FrameAt(1)'
  BY <1>1, <1>2, <1>3, EmptyFramed DEF FrameAt
<1>5. LinkTypes'
  BY <1>1, <1>2 DEF LinkInv, LinkTypes, Busy, GettingPacket
<1>6. Handling'
  BY <1>1, <1>2, EmptyFramed DEF LinkInv, LinkTypes, Handling, Pending, Busy, Bodies
<1>7. Replies'
  BY <1>1 DEF Replies
<1> QED
  BY <1>4, <1>5, <1>6, <1>7 DEF LinkInv, Frame

\* getpkt takes a byte of the stream.
LEMMA Taken ==
  ASSUME LinkInv, srv \in GettingPacket, rbuf # <<>>, rbuf' = Tail(rbuf), c2s' = c2s,
         NEW p \in Int, FrameAt(p)
  PROVE  /\ Framed(rbuf' \o c2s', p - 1, req)
         /\ Len(rbuf' \o c2s') = Len(Stream) - 1 /\ Len(Stream) \in Nat \ {0}
         /\ rbuf' \in Seq(Items) /\ c2s' \in Seq(Items)
         /\ rbuf' \o c2s' \in Seq(Items)
         /\ Head(rbuf) = Stream[1] /\ Stream[1] \in Items
<1>1. rbuf \in Seq(Items) /\ c2s \in Seq(Items)
  BY DEF LinkInv, LinkTypes
<1>2. Stream = rbuf \o c2s
  BY DEF Stream, GettingPacket, Busy
<1>3. /\ Tail(rbuf) \o c2s = Tail(Stream) /\ Stream # <<>>
      /\ Head(rbuf) = Stream[1] /\ Stream \in Seq(Items) /\ Tail(rbuf) \in Seq(Items)
  BY <1>1, <1>2, TailConcat
<1>4. Framed(Stream, p, req)
  BY DEF FrameAt
<1> DEFINE st == Stream
<1> HIDE DEF st
<1>5. /\ Framed(Tail(st), p - 1, req)
      /\ Len(Tail(st)) = Len(st) - 1 /\ Len(st) \in Nat \ {0}
      /\ Tail(st) \in Seq(Items)
  BY <1>3, <1>4, FramedTail DEF st
<1>6. st[1] \in Items
  <2>1. st \in Seq(Items)
    BY <1>3 DEF st
  <2>2. 1 \in 1 .. Len(st)
    BY <1>5
  <2> QED
    BY <2>1, <2>2, ElementOfSeq
<1> QED
  BY <1>1, <1>3, <1>5, <1>6 DEF st

LEMMA HuntKeeps ==
  ASSUME LinkInv, Hunt
  PROVE  LinkInv'
<1>1. /\ srv = "hunt" /\ rbuf # <<>> /\ rbuf' = Tail(rbuf) /\ c2s' = c2s
      /\ srv' = IF Head(rbuf).c = "$" THEN "body" ELSE "hunt"
      /\ UNCHANGED <<eof, s2c, cli, req, conn, answered, own_buf, handled>>
  BY DEF Hunt, Srv, clientV
<1>2. PICK p \in Int : FrameAt(p)
  BY DEF LinkInv, Frame
<1>3. /\ Framed(Stream', p - 1, req) /\ Len(Stream') = Len(Stream) - 1
      /\ Len(Stream) \in Nat \ {0}
      /\ rbuf' \in Seq(Items) /\ c2s' \in Seq(Items) /\ Head(rbuf) = Stream[1]
  <2>1. Stream' = rbuf' \o c2s'
    BY <1>1 DEF Stream, Busy
  <2> QED
    BY <1>1, <1>2, <2>1, Taken DEF GettingPacket
<1>4. p = 1 <=> Head(rbuf).c = "$"
  <2>1. /\ 1 = p => Stream[1].c = "$"
        /\ 1 \notin p .. p + 2 => Noise(Stream[1])
        /\ p > 0
    BY <1>1, <1>2, <1>3 DEF FrameAt, Framed
  <2> QED
    BY <1>3, <2>1 DEF Noise
<1>5. FrameAt(p - 1)'
  BY <1>1, <1>2, <1>3, <1>4 DEF FrameAt, Pending, Refused
<1>6. srv' = "body" => Pending /\ (cli # "gone" => ~Refused)
  BY <1>1, <1>2, <1>3, <1>4 DEF FrameAt
<1>7. LinkTypes' /\ Handling'
  BY <1>1, <1>3, <1>6 DEF LinkInv, LinkTypes, Handling, Pending, Busy, GettingPacket
<1>8. Replies'
  <2>1. srv' \in {"hunt", "body"}
    BY <1>1
  <2>2. srv' = "hunt" \/ cli = "gone" \/ ~Refused
    BY <1>6, <2>1
  <2> QED
    BY <1>1, <2>1, <2>2 DEF LinkInv, Replies, Refused, IsAnswer, Current, Pending
<1> QED
  BY <1>5, <1>7, <1>8 DEF LinkInv, Frame

LEMMA GetBodyKeeps ==
  ASSUME LinkInv, GetBody
  PROVE  LinkInv'
<1>1. /\ srv = "body" /\ srv' = "sum" /\ rbuf # <<>> /\ rbuf' = Tail(rbuf) /\ c2s' = c2s
      /\ own_buf' = Head(rbuf).body
      /\ UNCHANGED <<eof, s2c, cli, req, conn, answered, handled>>
  BY DEF GetBody, Srv, clientV
<1>2. FrameAt(0)
  <2>1. PICK p \in Int : FrameAt(p)
    BY DEF LinkInv, Frame
  <2> QED
    BY <1>1, <2>1 DEF FrameAt
<1>3. /\ Framed(Stream', -1, req) /\ Len(Stream') = Len(Stream) - 1
      /\ Len(Stream) \in Nat \ {0}
      /\ rbuf' \in Seq(Items) /\ c2s' \in Seq(Items) /\ Head(rbuf) = Stream[1]
  <2>1. Stream' = rbuf' \o c2s'
    BY <1>1 DEF Stream, Busy
  <2>2. 0 - 1 = -1
    OBVIOUS
  <2> QED
    BY <1>1, <1>2, <2>1, <2>2, Taken DEF GettingPacket
<1>4. own_buf' = req
  BY <1>1, <1>2, <1>3 DEF FrameAt, Framed
<1>5. FrameAt(-1)'
  BY <1>1, <1>2, <1>3 DEF FrameAt, Pending, Refused
<1>6. Pending /\ (cli # "gone" => ~Refused)
  BY <1>1, <1>2, <1>3 DEF FrameAt
<1>7. LinkTypes' /\ Handling'
  BY <1>1, <1>3, <1>4, <1>6 DEF LinkInv, LinkTypes, Handling, Pending, Busy, GettingPacket
<1>8. Replies'
  BY <1>1, <1>6 DEF LinkInv, Replies, Refused, IsAnswer, Current, Pending
<1> QED
  BY <1>5, <1>7, <1>8 DEF LinkInv, Frame

LEMMA GetSumKeeps ==
  ASSUME LinkInv, GetSum
  PROVE  LinkInv'
<1>1. /\ srv = "sum" /\ rbuf # <<>> /\ rbuf' = Tail(rbuf) /\ c2s' = c2s
      /\ UNCHANGED <<eof, cli, req, conn, answered, own_buf>>
  BY DEF GetSum, clientV
<1>2. FrameAt(-1)
  <2>1. PICK p \in Int : FrameAt(p)
    BY DEF LinkInv, Frame
  <2> QED
    BY <1>1, <2>1 DEF FrameAt
<1>3. /\ AllNoise(rbuf' \o c2s') /\ rbuf' \o c2s' \in Seq(Items)
      /\ rbuf' \in Seq(Items) /\ c2s' \in Seq(Items)
  <2> DEFINE st == rbuf' \o c2s'
  <2>1. /\ Framed(st, -1 - 1, req) /\ st \in Seq(Items)
        /\ rbuf' \in Seq(Items) /\ c2s' \in Seq(Items)
    BY <1>1, <1>2, Taken DEF GettingPacket
  <2> HIDE DEF st
  <2>2. AllNoise(st)
    BY <2>1, LenProperties DEF Framed, AllNoise
  <2> QED
    BY <2>1, <2>2 DEF st
<1>4. AllNoise(rbuf') /\ AllNoise(c2s')
  BY <1>3, NoiseConcat
<1>5. /\ Pending /\ own_buf = req /\ (cli # "gone" => cli = "wack" /\ ~Refused)
      /\ req.n \in Nat /\ handled \in Nat
  <2>1. Pending /\ own_buf = req /\ req.n \in Nat /\ handled \in Nat
    BY <1>1 DEF LinkInv, Handling, LinkTypes, Bodies
  <2>2. cli # "gone" => cli = "wack"
    BY <2>1 DEF LinkInv, Replies, LinkTypes, Pending
  <2>3. -1 <= Len(Stream)
    <3>1. rbuf \o c2s \in Seq(Items)
      BY ConcatProperties DEF LinkInv, LinkTypes
    <3> QED
      BY <1>1, <3>1, LenProperties DEF Stream, Busy
  <2>4. Len(Stream) \in Nat
    <3>1. rbuf \o c2s \in Seq(Items)
      BY ConcatProperties DEF LinkInv, LinkTypes
    <3> QED
      BY <1>1, <3>1, LenProperties DEF Stream, Busy
  <2>5. cli # "gone" => ~Refused
    BY <1>2, <2>3, <2>4 DEF FrameAt
  <2> QED
    BY <2>1, <2>2, <2>5
<1>6. s2c \in Seq(Items) /\ Len(s2c) \in Nat
  BY LenProperties DEF LinkInv, LinkTypes
<1>7. cli # "gone" => \A i \in 1 .. Len(s2c) : IsAnswer(s2c[i])
  BY <1>1, <1>5 DEF LinkInv, Replies
<1>8. CASE Head(rbuf).c = "#"
  <2>1. /\ s2c' = Append(s2c, Byte("+")) /\ handled' = handled + 1
        /\ srv' \in {"run", "send"}
    BY <1>8 DEF GetSum, Handle
  <2>2. /\ s2c' \in Seq(Items) /\ Len(s2c') = Len(s2c) + 1
        /\ \A i \in 1 .. Len(s2c) : s2c'[i] = s2c[i]
        /\ s2c'[Len(s2c) + 1].c = "+"
    BY <1>6, <2>1, ByteItem, AppendProperties
  <2>3. Stream' = c2s'
    BY <2>1 DEF Stream, Busy
  <2>4. PICK q \in Int : q = Len(c2s') + 1 /\ q > Len(c2s') /\ q > 0
    BY <1>3, LenProperties
  <2>5. Framed(c2s', q, req')
    BY <1>3, <1>4, <2>4, NoiseFramed
  <2>6. FrameAt(q)'
    BY <1>1, <1>3, <1>5, <2>1, <2>3, <2>4, <2>5, LenProperties DEF FrameAt
  <2>7. LinkTypes' /\ Handling'
    BY <1>1, <1>3, <1>4, <1>5, <2>1, <2>2 DEF LinkInv, LinkTypes, Handling, Pending, Busy
  <2>8. Replies'
    <3>1. req'.n = handled' /\ ~Pending'
      BY <1>1, <1>5, <2>1 DEF Pending
    <3>2. cli' # "gone" =>
            /\ Len(s2c') \in 1 .. Len(s2c')
            /\ s2c'[Len(s2c')].c = "+"
            /\ \A i \in 1 .. Len(s2c') : i < Len(s2c') => IsAnswer(s2c'[i])
            /\ \A i \in 1 .. Len(s2c') : ~(i > Len(s2c'))
      BY <1>1, <1>6, <1>7, <2>2
    <3> QED
      BY <1>1, <1>5, <3>1, <3>2 DEF Replies
  <2> QED
    BY <2>6, <2>7, <2>8 DEF LinkInv, Frame
<1>9. CASE Head(rbuf).c # "#"
  <2>1. s2c' = Append(s2c, Byte("-")) /\ handled' = handled /\ srv' = "hunt"
    BY <1>9 DEF GetSum
  <2>2. /\ s2c' \in Seq(Items) /\ Len(s2c') = Len(s2c) + 1
        /\ \A i \in 1 .. Len(s2c) : s2c'[i] = s2c[i]
        /\ s2c'[Len(s2c) + 1].c = "-"
    BY <1>6, <2>1, ByteItem, AppendProperties
  <2>3. Stream' = rbuf' \o c2s'
    BY <2>1 DEF Stream, Busy
  <2> DEFINE st == rbuf' \o c2s'
  <2> HIDE DEF st
  <2>4. PICK q \in Int : q = Len(st) + 1 /\ q > Len(st) /\ q > 0 /\ Len(st) \in Nat
    BY <1>3, LenProperties DEF st
  <2>5. Framed(st, q, req')
    BY <1>3, <2>4, NoiseFramed DEF st
  <2>6. FrameAt(q)'
    BY <1>1, <1>5, <2>1, <2>3, <2>4, <2>5 DEF FrameAt, st
  <2>7. LinkTypes' /\ Handling'
    BY <1>1, <1>3, <1>5, <2>1, <2>2 DEF LinkInv, LinkTypes, Handling, Pending, Busy,
       GettingPacket
  <2>8. Replies'
    <3>1. Pending' /\ req'.n # handled'
      BY <1>1, <1>5, <2>1 DEF Pending
    <3>2. cli' # "gone" => \A i \in 1 .. Len(s2c') :
            \/ IsAnswer(s2c'[i])
            \/ s2c'[i].c = "-" /\ i = Len(s2c')
      BY <1>1, <1>6, <1>7, <2>2
    <3> QED
      BY <1>1, <1>5, <2>1, <3>1, <3>2 DEF Replies
  <2> QED
    BY <2>6, <2>7, <2>8 DEF LinkInv, Frame
<1> QED
  BY <1>8, <1>9

LEMMA RunEndsKeeps ==
  ASSUME LinkInv, RunEnds \/ RunInterrupted
  PROVE  LinkInv'
<1>1. /\ srv = "run" /\ srv' = "send" /\ (c2s' = c2s \/ c2s' = <<>>)
      /\ UNCHANGED <<eof, s2c, cli, req, conn, answered, rbuf, own_buf, handled>>
  BY DEF RunEnds, RunInterrupted, Srv, clientV
<1>2. PICK p \in Int : FrameAt(p)
  BY DEF LinkInv, Frame
<1>3. ~Pending /\ req.n = handled
  BY <1>1 DEF LinkInv, LinkTypes, Handling, Pending, Bodies
<1>4. cli # "idle"
  BY <1>1 DEF LinkInv, Replies
<1>5. Stream = c2s /\ Stream' = c2s' /\ c2s \in Seq(Items)
  BY <1>1 DEF Stream, Busy, LinkInv, LinkTypes
<1>6. c2s' \in Seq(Items) /\ AllNoise(c2s')
  <2>1. p > Len(c2s)
    BY <1>2, <1>3, <1>5, LenProperties DEF FrameAt
  <2>2. AllNoise(c2s)
    BY <1>2, <1>5, <2>1, NoiseFramed DEF FrameAt
  <2> QED
    BY <1>1, <1>5, <2>2, EmptyFramed
<1>7. PICK q \in Int : q = Len(c2s') + 1 /\ q > Len(c2s') /\ q > 0 /\ Len(c2s') \in Nat
  BY <1>6, LenProperties
<1>8. Framed(c2s', q, req')
  BY <1>6, <1>7, NoiseFramed
<1>9. FrameAt(q)'
  BY <1>1, <1>4, <1>5, <1>7, <1>8 DEF FrameAt
<1>10. LinkTypes' /\ Handling'
  BY <1>1, <1>3, <1>6 DEF LinkInv, LinkTypes, Handling, Pending, Busy
<1>11. Replies'
  BY <1>1, <1>3, <1>4 DEF LinkInv, Replies, Pending, IsAnswer, Current
<1> QED
  BY <1>9, <1>10, <1>11 DEF LinkInv, Frame

\* Back to getpkt: what lies in front of the socket in the buffer is noise.
LEMMA BackToHunt ==
  ASSUME LinkInv, srv \in {"send", "ack"}, srv' = "hunt", rbuf' = rbuf,
         NEW p \in Int, p > 0, c2s' \in Seq(Items), Framed(c2s', p, req'),
         p <= Len(c2s') => Pending',
         cli' # "gone" => p > Len(c2s') \/ p + 2 <= Len(c2s'),
         cli' # "gone" /\ Refused' => p > Len(c2s')
  PROVE  Frame'
<1>1. rbuf' \in Seq(Items) /\ AllNoise(rbuf')
  BY DEF LinkInv, LinkTypes, Handling, Busy
<1>2. Stream' = rbuf' \o c2s'
  BY DEF Stream, Busy
<1>3. /\ Framed(Stream', Len(rbuf') + p, req') /\ Len(Stream') = Len(rbuf') + Len(c2s')
      /\ Len(rbuf') \in Nat /\ Len(c2s') \in Nat
  BY <1>1, <1>2, FramedConcat
<1>4. PICK q \in Int : q = Len(rbuf') + p /\ q > 0
  BY <1>3
<1>5. FrameAt(q)'
  BY <1>3, <1>4 DEF FrameAt
<1> QED
  BY <1>5 DEF Frame

LEMMA SendKeeps ==
  ASSUME LinkInv, Send
  PROVE  LinkInv'
<1>1. /\ srv = "send"
      /\ UNCHANGED <<c2s, eof, cli, req, conn, answered, rbuf, own_buf, handled>>
  BY DEF Send, Srv, clientV
<1>2. PICK p \in Int : FrameAt(p)
  BY DEF LinkInv, Frame
<1>3. c2s \in Seq(Items) /\ s2c \in Seq(Items) /\ Len(s2c) \in Nat /\ Stream = c2s
  BY <1>1, LenProperties DEF LinkInv, LinkTypes, Stream, Busy
<1>4. CASE srv' = "ack" /\ s2c' = Append(s2c, Answer(own_buf))
  <2>1. Answer(own_buf) \in Items /\ Current(Answer(own_buf))
    BY <1>1 DEF Answer, Items, Current, IsAnswer, LinkInv, LinkTypes, Handling, Busy
  <2>2. /\ s2c' \in Seq(Items) /\ Len(s2c') = Len(s2c) + 1
        /\ \A i \in 1 .. Len(s2c) : s2c'[i] = s2c[i]
        /\ s2c'[Len(s2c) + 1] = Answer(own_buf)
    BY <1>3, <1>4, <2>1, AppendProperties
  <2>3. ASSUME NEW i \in 1 .. Len(s2c')
        PROVE  (i \in 1 .. Len(s2c) /\ s2c'[i] = s2c[i]) \/ Current(s2c'[i])
    BY <1>3, <2>1, <2>2
  <2>4. Refused' => Refused
    BY <2>3 DEF Refused, Current, IsAnswer
  <2>5. Stream' = Stream
    BY <1>1, <1>4 DEF Stream, Busy
  <2>6. FrameAt(p)'
    BY <1>1, <1>2, <1>4, <2>4, <2>5 DEF FrameAt, Pending, Ahead
  <2>7. LinkTypes' /\ Handling'
    BY <1>1, <1>4, <2>2 DEF LinkInv, LinkTypes, Handling, Pending, Busy
  <2>8. Replies'
    <3>1. cli = "idle" => \A i \in 1 .. Len(s2c') : IsAnswer(s2c'[i])
      BY <2>3 DEF LinkInv, Replies, Current
    <3>2. cli = "wreply" => \A i \in 1 .. Len(s2c') : Current(s2c'[i])
      BY <2>3 DEF LinkInv, Replies
    <3>3. cli = "wack" /\ Pending => \A i \in 1 .. Len(s2c') : IsAnswer(s2c'[i])
      BY <1>1, <2>3 DEF LinkInv, Replies, Current
    <3>4. cli = "wack" /\ req.n = handled =>
            \E q \in 1 .. Len(s2c') :
              /\ s2c'[q].c = "+"
              /\ \A i \in 1 .. Len(s2c') : /\ i < q => IsAnswer(s2c'[i])
                                           /\ i > q => Current(s2c'[i])
      <4> SUFFICES ASSUME cli = "wack", req.n = handled
                   PROVE  \E q \in 1 .. Len(s2c') :
                            /\ s2c'[q].c = "+"
                            /\ \A i \in 1 .. Len(s2c') : /\ i < q => IsAnswer(s2c'[i])
                                                         /\ i > q => Current(s2c'[i])
        OBVIOUS
      <4>1. PICK q \in 1 .. Len(s2c) :
              /\ s2c[q].c = "+"
              /\ \A i \in 1 .. Len(s2c) : /\ i < q => IsAnswer(s2c[i])
                                          /\ i > q => Current(s2c[i])
        BY DEF LinkInv, Replies
      <4>2. q \in 1 .. Len(s2c') /\ s2c'[q].c = "+"
        BY <1>3, <2>2, <4>1
      <4> QED
        BY <2>3, <4>1, <4>2 DEF Current
    <3>5. cli' = cli /\ srv' = "ack" /\ answered' = answered /\ Pending' = Pending
      BY <1>1, <1>4 DEF Pending
    <3> QED
      BY <1>1, <3>1, <3>2, <3>3, <3>4, <3>5 DEF LinkInv, Replies, Current, IsAnswer
  <2> QED
    BY <2>6, <2>7, <2>8 DEF LinkInv, Frame
<1>5. CASE srv' = "hunt" /\ eof /\ s2c' = s2c
  <2>1. cli = "gone" /\ cli' = "gone"
    BY <1>1, <1>5 DEF LinkInv, LinkTypes
  <2>2. /\ p > 0 /\ Framed(c2s', p, req') /\ c2s' \in Seq(Items)
        /\ p <= Len(c2s') => Pending'
    BY <1>1, <1>2, <1>3 DEF FrameAt, Pending
  <2>3. Frame'
    BY <1>1, <1>5, <2>1, <2>2, BackToHunt
  <2>4. LinkTypes' /\ Handling'
    BY <1>1, <1>5 DEF LinkInv, LinkTypes, Handling, Pending, Busy, GettingPacket
  <2>5. Replies'
    BY <2>1 DEF Replies
  <2> QED
    BY <2>3, <2>4, <2>5 DEF LinkInv
<1> QED
  BY <1>4, <1>5 DEF Send, Srv

LEMMA GetAckKeeps ==
  ASSUME LinkInv, GetAck
  PROVE  LinkInv'
<1>1. /\ srv = "ack" /\ (c2s # <<>> \/ eof)
      /\ srv' = IF c2s # <<>> /\ Head(c2s).c # "+" THEN "send" ELSE "hunt"
      /\ c2s' = IF c2s = <<>> THEN <<>> ELSE Tail(c2s)
      /\ UNCHANGED <<eof, s2c, cli, req, conn, answered, rbuf, own_buf, handled>>
  BY DEF GetAck, Srv, clientV
<1>2. PICK p \in Int : FrameAt(p)
  BY DEF LinkInv, Frame
<1>3. c2s \in Seq(Items) /\ Len(c2s) \in Nat /\ Stream = c2s
  BY <1>1, LenProperties DEF LinkInv, LinkTypes, Stream, Busy
<1>4. Replies'
  <2>1. srv # "hunt" /\ srv # "run" /\ srv' # "run"
    BY <1>1
  <2> QED
    BY <1>1, <2>1 DEF LinkInv, Replies, Pending, IsAnswer, Current
<1>5. ASSUME c2s' \in Seq(Items) PROVE LinkTypes' /\ Handling'
  BY <1>1, <1>5 DEF LinkInv, LinkTypes, Handling, Pending, Busy, GettingPacket
<1>6. CASE c2s = <<>>
  <2>1. cli = "gone" /\ cli' = "gone" /\ srv' = "hunt" /\ c2s' = <<>>
    BY <1>1, <1>6 DEF LinkInv, LinkTypes
  <2>2. Framed(c2s', 1, req') /\ c2s' \in Seq(Items) /\ ~(1 <= Len(c2s'))
    BY <2>1 DEF Framed
  <2>3. Frame'
    BY <1>1, <2>1, <2>2, BackToHunt
  <2> QED
    BY <1>4, <1>5, <2>2, <2>3 DEF LinkInv
<1>7. CASE c2s # <<>>
  <2>1. /\ Framed(c2s', p - 1, req') /\ Len(c2s') = Len(c2s) - 1 /\ Len(c2s) \in Nat \ {0}
        /\ c2s' \in Seq(Items) /\ Head(c2s) = c2s[1]
    BY <1>1, <1>2, <1>3, <1>7, FramedTail DEF FrameAt
  <2>2. p > 1
    BY <1>1, <1>2, <1>3, <2>1 DEF FrameAt, Ahead
  <2>3. CASE Head(c2s).c = "+"
    <3>1. srv' = "hunt"
      BY <1>1, <2>3
    <3>2. /\ p - 1 <= Len(c2s') => Pending'
          /\ cli' # "gone" => p - 1 > Len(c2s') \/ (p - 1) + 2 <= Len(c2s')
          /\ cli' # "gone" /\ Refused' => p - 1 > Len(c2s')
      BY <1>1, <1>2, <1>3, <2>1 DEF FrameAt, Pending, Refused
    <3>3. Frame'
      BY <1>1, <2>1, <2>2, <3>1, <3>2, BackToHunt
    <3> QED
      BY <1>4, <1>5, <2>1, <3>3 DEF LinkInv
  <2>4. CASE Head(c2s).c # "+"
    <3>1. srv' = "send" /\ Stream' = c2s'
      BY <1>1, <1>7, <2>4 DEF Stream, Busy
    <3>2. Ahead(p) => Ahead(p - 1)'
      <4> SUFFICES ASSUME Ahead(p) PROVE Ahead(p - 1)'
        OBVIOUS
      <4>1. PICK j \in 1 .. Len(c2s) : j < p /\ c2s[j].c = "+"
        BY DEF Ahead
      <4>2. j # 1
        BY <2>1, <2>4, <4>1
      <4>3. \A i \in 1 .. Len(c2s') : c2s'[i] = c2s[i + 1]
        BY <1>1, <1>3, <1>7, HeadTailProperties
      <4>4. j - 1 \in 1 .. Len(c2s') /\ j - 1 < p - 1 /\ c2s'[j - 1].c = "+"
        BY <2>1, <4>1, <4>2, <4>3
      <4> QED
        BY <4>4 DEF Ahead
    <3>3. FrameAt(p - 1)'
      BY <1>1, <1>2, <1>3, <2>1, <2>2, <3>1, <3>2 DEF FrameAt, Pending, Refused
    <3> QED
      BY <1>4, <1>5, <2>1, <3>3 DEF LinkInv, Frame
  <2> QED
    BY <2>3, <2>4
<1> QED
  BY <1>6, <1>7

LEMMA AcceptKeeps ==
  ASSUME LinkInv, Accept
  PROVE  LinkInv'
<1>1. /\ srv' = "hunt" /\ rbuf' = <<>> /\ own_buf' \in Bodies
      /\ conn < MaxConn /\ conn' = conn + 1 /\ conn \in 1 .. MaxConn
      /\ cli' = "idle" /\ req' = NoBody /\ answered' = 0
      /\ c2s' = <<>> /\ s2c' = <<>> /\ ~eof' /\ handled' = 0
  BY DEF Accept, Srv, LinkInv, LinkTypes, Handling
<1>2. Stream' = <<>>
  BY <1>1, EmptyFramed, ConcatEmptySeq DEF Stream, Busy
<1>3. ~Ahead(1)' /\ ~Refused'
  BY <1>1, EmptyFramed DEF Ahead, Refused
<1>4. FrameAt(1)'
  BY <1>1, <1>2, <1>3, EmptyFramed DEF FrameAt
<1>5. req' \in Bodies /\ req'.n = 0
  BY <1>1 DEF NoBody, Bodies, Op
<1>6. LinkTypes'
  BY <1>1, <1>5, EmptyFramed, LinkConstants DEF LinkTypes, GettingPacket
<1>7. Handling'
  BY <1>1, <1>5 DEF Handling, Busy
<1>8. Replies'
  BY <1>1, <1>5, EmptyFramed DEF Replies
<1> QED
  BY <1>4, <1>6, <1>7, <1>8 DEF LinkInv, Frame
-------------------------------------------------------------------------------
\* The client.

\* What the client writes is added to the end of the stream.
LEMMA StreamGrows ==
  ASSUME LinkInv, srv' = srv, rbuf' = rbuf, NEW t \in Seq(Items), c2s' = c2s \o t
  PROVE  /\ Stream' = Stream \o t /\ Stream \in Seq(Items) /\ Len(Stream) \in Nat
         /\ c2s' \in Seq(Items)
         /\ \A p \in Int : Ahead(p) => Ahead(p)'
<1>1. c2s \in Seq(Items) /\ rbuf \in Seq(Items)
  BY DEF LinkInv, LinkTypes
<1>2. /\ c2s' \in Seq(Items) /\ Len(c2s') = Len(c2s) + Len(t)
      /\ \A i \in 1 .. Len(c2s) + Len(t) :
           c2s'[i] = IF i <= Len(c2s) THEN c2s[i] ELSE t[i - Len(c2s)]
  BY <1>1, ConcatProperties
<1>3. Len(c2s) \in Nat /\ Len(t) \in Nat
  BY <1>1, LenProperties
<1>4. rbuf \o c2s \in Seq(Items)
  BY <1>1, ConcatProperties
<1>5. Stream \in Seq(Items)
  BY <1>1, <1>4 DEF Stream
<1>6. Len(Stream) \in Nat
  BY <1>5, LenProperties
<1>7. rbuf \o (c2s \o t) = (rbuf \o c2s) \o t
  BY <1>1, ConcatAssociative
<1>8. Stream' = Stream \o t
  BY <1>7 DEF Stream
<1>9. ASSUME NEW p \in Int, Ahead(p) PROVE Ahead(p)'
  <2>1. PICK j \in 1 .. Len(c2s) : j < p /\ c2s[j].c = "+"
    BY <1>9 DEF Ahead
  <2>2. j \in 1 .. Len(c2s') /\ c2s'[j] = c2s[j]
    BY <1>2, <1>3
  <2> QED
    BY <2>1, <2>2 DEF Ahead
<1> QED
  BY <1>2, <1>5, <1>6, <1>8, <1>9

LEMMA PacketItems ==
  ASSUME NEW r \in Bodies, NEW sum \in {"#", "#bad"}
  PROVE  Packet(r, sum) \in Seq(Items)
<1>1. NoBody \in Bodies
  BY DEF NoBody, Bodies, Op
<1> QED
  BY <1>1 DEF Packet, Byte, Items

\* A packet is written when the stream is noise, and putpkt, if it waits, stops before it.
LEMMA PacketWritten ==
  ASSUME LinkInv, srv' = srv, rbuf' = rbuf, req' \in Bodies, NEW sum \in {"#", "#bad"},
         c2s' = c2s \o Packet(req', sum), AllNoise(Stream), srv \notin {"body", "sum"},
         srv \in {"send", "ack"} => Ahead(Len(Stream) + 1),
         Pending', cli' = "wack", ~Refused'
  PROVE  Frame' /\ c2s' \in Seq(Items)
<1>1. Packet(req', sum) \in Seq(Items)
  BY PacketItems
<1>2. /\ Stream' = Stream \o Packet(req', sum) /\ Stream \in Seq(Items)
      /\ Len(Stream) \in Nat /\ c2s' \in Seq(Items)
      /\ \A p \in Int : Ahead(p) => Ahead(p)'
  BY <1>1, StreamGrows
<1>3. /\ Framed(Stream', Len(Stream) + 1, req') /\ Len(Stream') = Len(Stream) + 3
  BY <1>2, FramedPacket
<1>4. PICK q \in Int : q = Len(Stream) + 1 /\ q > 0
  BY <1>2
<1>5. FrameAt(q)'
  <2>1. srv \in {"send", "ack"} => Ahead(q)'
    BY <1>2, <1>4
  <2> QED
    BY <1>2, <1>3, <1>4, <2>1 DEF FrameAt
<1> QED
  BY <1>2, <1>5 DEF Frame

LEMMA ClientSendsKeeps ==
  ASSUME LinkInv, ClientSends
  PROVE  LinkInv'
<1>1. PICK op \in Op, sum \in {"#", "#bad"} :
        /\ req' = [conn |-> conn, n |-> req.n + 1, op |-> op]
        /\ c2s' = c2s \o Packet(req', sum)
  BY DEF ClientSends
<1>2. /\ cli = "idle" /\ cli' = "wack"
      /\ UNCHANGED <<eof, s2c, conn, answered, srv, rbuf, own_buf, handled>>
  BY DEF ClientSends, serverV
<1>3. /\ req.n = handled /\ handled \in Nat /\ conn \in 1 .. MaxConn /\ ~Pending
      /\ \A i \in 1 .. Len(s2c) : IsAnswer(s2c[i])
      /\ srv \in {"hunt", "send", "ack"}
  BY <1>2 DEF LinkInv, LinkTypes, Replies, Handling, Pending, GettingPacket, Busy
<1>4. req' \in Bodies /\ req'.n = handled + 1 /\ req'.conn = conn
  BY <1>1, <1>3, LinkConstants DEF Bodies
<1>5. Pending' /\ req'.n # handled' /\ ~Refused'
  BY <1>2, <1>3, <1>4 DEF Pending, Refused, IsAnswer
<1>6. /\ AllNoise(Stream) /\ srv \notin {"body", "sum"}
      /\ srv \in {"send", "ack"} => Ahead(Len(Stream) + 1)
  <2>1. PICK p \in Int : FrameAt(p)
    BY DEF LinkInv, Frame
  <2>2. c2s \in Seq(Items) /\ Stream \in Seq(Items) /\ Len(Stream) \in Nat
    <3>1. c2s \in Seq(Items) /\ rbuf \o c2s \in Seq(Items)
      BY ConcatProperties DEF LinkInv, LinkTypes
    <3>2. Stream \in Seq(Items)
      BY <3>1 DEF Stream
    <3> QED
      BY <3>1, <3>2, LenProperties
  <2>3. p > Len(Stream) /\ Framed(Stream, p, req)
    BY <1>3, <2>1, <2>2 DEF FrameAt
  <2>4. AllNoise(Stream)
    BY <2>2, <2>3, NoiseFramed
  <2>5. ASSUME srv \in {"send", "ack"} PROVE Ahead(Len(Stream) + 1)
    <3>1. Ahead(p) /\ Stream = c2s
      BY <1>2, <2>1, <2>5 DEF FrameAt, Stream, Busy
    <3>2. PICK j \in 1 .. Len(c2s) : c2s[j].c = "+"
      BY <3>1 DEF Ahead
    <3>3. j < Len(Stream) + 1
      BY <2>2, <3>1, <3>2
    <3> QED
      BY <3>2, <3>3 DEF Ahead
  <2> QED
    BY <1>3, <2>4, <2>5
<1>7. Frame' /\ c2s' \in Seq(Items)
  BY <1>1, <1>2, <1>4, <1>5, <1>6, PacketWritten
<1>8. LinkTypes'
  BY <1>2, <1>4, <1>7 DEF LinkInv, LinkTypes
<1>9. Handling'
  BY <1>2, <1>3, <1>4, <1>5 DEF LinkInv, Handling, Busy
<1>10. Replies'
  BY <1>2, <1>3, <1>5 DEF Replies, IsAnswer
<1> QED
  BY <1>7, <1>8, <1>9, <1>10 DEF LinkInv

\* The client writes one byte: behind the packet if that is whole, and otherwise the
\* frame moves behind it.
LEMMA ByteWritten ==
  ASSUME LinkInv, srv' = srv, rbuf' = rbuf, req' = req, handled' = handled,
         NEW x \in Items, Noise(x), c2s' = Append(c2s, x), cli # "gone",
         Refused' => Refused, cli' # "idle" \/ (x.c = "+" /\ ~Pending)
  PROVE  Frame' /\ c2s' \in Seq(Items)
<1>1. c2s \in Seq(Items) /\ c2s' = c2s \o <<x>> /\ <<x>> \in Seq(Items)
  BY AppendIsConcat DEF LinkInv, LinkTypes
<1>2. /\ Stream' = Stream \o <<x>> /\ Stream \in Seq(Items)
      /\ Len(Stream) \in Nat /\ c2s' \in Seq(Items)
      /\ \A p \in Int : Ahead(p) => Ahead(p)'
  BY <1>1, StreamGrows
<1>3. Stream' = Append(Stream, x)
  BY <1>2, AppendIsConcat
<1>4. PICK p \in Int : FrameAt(p)
  BY DEF LinkInv, Frame
<1>5. Framed(Stream, p, req) /\ (p > Len(Stream) \/ p + 2 <= Len(Stream))
  BY <1>4 DEF FrameAt
<1>6. CASE p + 2 <= Len(Stream)
  <2>1. Framed(Stream', p, req') /\ Len(Stream') = Len(Stream) + 1
    BY <1>2, <1>3, <1>5, <1>6, FramedAppend
  <2>2. p <= Len(Stream)
    BY <1>2, <1>6
  <2>3. Pending /\ Pending' /\ ~Refused /\ cli' # "idle"
    BY <1>4, <2>2, <1>2 DEF FrameAt, Pending
  <2>4. srv \in {"send", "ack"} => Ahead(p)'
    BY <1>2, <1>4, <2>2 DEF FrameAt
  <2>5. FrameAt(p)'
    BY <1>2, <1>4, <1>6, <2>1, <2>3, <2>4 DEF FrameAt
  <2> QED
    BY <1>2, <2>5 DEF Frame
<1>7. CASE p > Len(Stream)
  <2>1. srv \notin {"body", "sum"}
    BY <1>2, <1>4, <1>7 DEF FrameAt
  <2>2. PICK q \in Int : q = Len(Stream) + 2 /\ q > Len(Stream) /\ q > Len(Stream) + 1 /\ q > 0
    <3> DEFINE n == Len(Stream)
    <3>1. n \in Nat
      BY <1>2
    <3> HIDE DEF n
    <3>2. n + 2 \in Int /\ n + 2 > n /\ n + 2 > n + 1 /\ n + 2 > 0
      BY <3>1
    <3> QED
      BY <3>2 DEF n
  <2>3. AllNoise(Stream)
    BY <1>2, <1>5, <1>7, NoiseFramed
  <2>4. Framed(Stream, q, req)
    BY <1>2, <2>2, <2>3, NoiseFramed
  <2>5. Framed(Stream', q, req') /\ Len(Stream') = Len(Stream) + 1
    BY <1>2, <1>3, <2>2, <2>4, FramedAppend
  <2>6. ASSUME srv \in {"send", "ack"}, x.c = "+" PROVE Ahead(q)'
    <3>1. Stream = c2s /\ Len(c2s) \in Nat
      BY <1>2, <2>6 DEF Stream, Busy
    <3>2. Len(c2s') = Len(c2s) + 1 /\ c2s'[Len(c2s) + 1] = x
      BY <1>1, AppendProperties
    <3>3. Len(c2s) + 1 \in 1 .. Len(c2s') /\ Len(c2s) + 1 < q
      BY <2>2, <3>1, <3>2
    <3> QED
      BY <2>6, <3>2, <3>3 DEF Ahead
  <2>7. FrameAt(q)'
    BY <1>2, <2>1, <2>2, <2>5, <2>6 DEF FrameAt
  <2> QED
    BY <1>2, <2>7 DEF Frame
<1> QED
  BY <1>5, <1>6, <1>7

LEMMA PlusByte ==
  Byte("+") \in Items /\ Byte("brk") \in Items /\ Byte("+").c = "+"
  /\ Noise(Byte("+")) /\ Noise(Byte("brk"))
BY ByteItem DEF Noise

LEMMA PressCtrlCKeeps ==
  ASSUME LinkInv, PressCtrlC
  PROVE  LinkInv'
<1>1. /\ cli = "wreply" /\ c2s' = Append(c2s, Byte("brk"))
      /\ UNCHANGED <<eof, s2c, cli, req, conn, answered, srv, rbuf, own_buf, handled>>
  BY DEF PressCtrlC, serverV
<1>2. Refused' => Refused
  BY <1>1 DEF Refused
<1>3. Frame' /\ c2s' \in Seq(Items)
  BY <1>1, <1>2, PlusByte, ByteWritten
<1>4. LinkTypes' /\ Handling'
  BY <1>1, <1>3 DEF LinkInv, LinkTypes, Handling, Pending
<1>5. Replies'
  BY <1>1 DEF LinkInv, Replies, IsAnswer, Current
<1> QED
  BY <1>3, <1>4, <1>5 DEF LinkInv

LEMMA FramedCut ==
  ASSUME NEW s \in Seq(Items), NEW t \in Seq(Items), NEW k \in 0 .. Len(t), NEW p \in Int,
         NEW r, Framed(s \o t, p, r)
  PROVE  /\ Framed(s \o SubSeq(t, 1, k), p, r)
         /\ Len(s \o SubSeq(t, 1, k)) <= Len(s \o t)
         /\ Len(s \o SubSeq(t, 1, k)) \in Nat /\ Len(s \o t) \in Nat
<1> DEFINE u == SubSeq(t, 1, k)
<1>1. Len(s) \in Nat /\ Len(t) \in Nat /\ \A i \in 1 .. k : t[i] \in Items
  BY LenProperties, ElementOfSeq
<1>2. u \in Seq(Items) /\ Len(u) = k /\ \A i \in 1 .. k : u[i] = t[i]
  BY <1>1, SubSeqProperties
<1> HIDE DEF u
<1>3. /\ Len(s \o u) = Len(s) + Len(u)
      /\ \A i \in 1 .. Len(s) + Len(u) :
           (s \o u)[i] = IF i <= Len(s) THEN s[i] ELSE u[i - Len(s)]
  BY <1>2, ConcatProperties
<1>4. /\ Len(s \o t) = Len(s) + Len(t)
      /\ \A i \in 1 .. Len(s) + Len(t) :
           (s \o t)[i] = IF i <= Len(s) THEN s[i] ELSE t[i - Len(s)]
  BY ConcatProperties
<1>5. ASSUME NEW i \in 1 .. Len(s \o u)
      PROVE  i \in 1 .. Len(s \o t) /\ (s \o u)[i] = (s \o t)[i]
  BY <1>1, <1>2, <1>3, <1>4
<1>6. Framed(s \o u, p, r)
  BY <1>5 DEF Framed
<1>7. /\ Len(s \o u) <= Len(s \o t) /\ Len(s \o u) \in Nat /\ Len(s \o t) \in Nat
  BY <1>1, <1>2, <1>3, <1>4
<1> QED
  BY <1>6, <1>7 DEF u

LEMMA ClientGoneKeeps ==
  ASSUME LinkInv, ClientGone
  PROVE  LinkInv'
<1>1. /\ cli' = "gone"
      /\ UNCHANGED <<s2c, req, conn, answered, srv, rbuf, own_buf, handled>>
  BY DEF ClientGone, serverV
<1>2. PICK k \in 0 .. Len(c2s) : c2s' = SubSeq(c2s, 1, k)
  BY DEF ClientGone, Prefixes
<1>3. PICK p \in Int : FrameAt(p)
  BY DEF LinkInv, Frame
<1>4. c2s \in Seq(Items) /\ rbuf \in Seq(Items) /\ Len(c2s) \in Nat
  BY LenProperties DEF LinkInv, LinkTypes
<1>5. /\ c2s' \in Seq(Items) /\ Len(c2s') = k
      /\ \A i \in 1 .. k : c2s'[i] = c2s[i]
  <2>1. \A i \in 1 .. k : c2s[i] \in Items
    BY <1>4, ElementOfSeq
  <2> QED
    BY <1>2, <1>4, <2>1, SubSeqProperties
<1>6. /\ Framed(Stream', p, req') /\ Len(Stream') <= Len(Stream)
      /\ Len(Stream') \in Nat /\ Len(Stream) \in Nat
  <2>1. CASE srv \in Busy
    <3>1. Stream = c2s /\ Stream' = SubSeq(c2s, 1, k) /\ Framed(c2s, p, req)
      BY <1>1, <1>2, <1>3, <2>1 DEF Stream, FrameAt
    <3>2. Framed(SubSeq(c2s, 1, k), p, req) /\ Len(SubSeq(c2s, 1, k)) = k
      BY <1>4, <3>1, FramedPrefix
    <3> QED
      BY <1>1, <1>4, <3>1, <3>2
  <2>2. CASE srv \notin Busy
    <3>1. /\ Stream = rbuf \o c2s /\ Stream' = rbuf \o SubSeq(c2s, 1, k)
          /\ Framed(rbuf \o c2s, p, req)
      BY <1>1, <1>2, <1>3, <2>2 DEF Stream, FrameAt
    <3> QED
      BY <1>1, <1>4, <3>1, FramedCut
  <2> QED
    BY <2>1, <2>2
<1>7. ASSUME srv \in {"send", "ack"}, p <= Len(Stream') PROVE Ahead(p)'
  <2>1. Stream' = c2s' /\ Stream = c2s
    BY <1>1, <1>7 DEF Stream, Busy
  <2>2. Ahead(p)
    BY <1>3, <1>6, <1>7 DEF FrameAt
  <2>3. PICK j \in 1 .. Len(c2s) : j < p /\ c2s[j].c = "+"
    BY <2>2 DEF Ahead
  <2>4. j \in 1 .. k
    BY <1>4, <1>5, <1>7, <2>1, <2>3
  <2> QED
    BY <1>5, <2>3, <2>4 DEF Ahead
<1>8. p <= Len(Stream') => Pending'
  BY <1>1, <1>3, <1>6 DEF FrameAt, Pending
<1>9. FrameAt(p)'
  BY <1>1, <1>3, <1>6, <1>7, <1>8 DEF FrameAt
<1>10. LinkTypes' /\ Handling'
  BY <1>1, <1>5 DEF LinkInv, LinkTypes, Handling, Pending
<1>11. Replies'
  BY <1>1 DEF Replies
<1> QED
  BY <1>9, <1>10, <1>11 DEF LinkInv, Frame

LEMMA ClientReceivesKeeps ==
  ASSUME LinkInv, ClientReceives
  PROVE  LinkInv'
<1>1. /\ s2c # <<>> /\ s2c' = Tail(s2c)
      /\ UNCHANGED <<eof, req, conn, srv, rbuf, own_buf, handled>>
  BY DEF ClientReceives, serverV
<1>2. s2c \in Seq(Items)
  BY DEF LinkInv, LinkTypes
<1>3. /\ s2c' \in Seq(Items) /\ Len(s2c') = Len(s2c) - 1 /\ Len(s2c) \in Nat \ {0}
      /\ \A i \in 1 .. Len(s2c') : s2c'[i] = s2c[i + 1]
      /\ Head(s2c) = s2c[1]
  BY <1>1, <1>2, HeadTailProperties, EmptySeq
<1>4. ASSUME NEW i \in 1 .. Len(s2c')
      PROVE  i + 1 \in 1 .. Len(s2c) /\ s2c'[i] = s2c[i + 1] /\ i \in Int
  BY <1>3
<1>5. Refused' => Refused
  BY <1>4 DEF Refused
<1>6. 1 \in 1 .. Len(s2c)
  BY <1>3
<1>7. req.n = handled \/ Pending
  BY DEF LinkInv, Handling
<1>8. req.n \in Nat /\ handled \in Nat
  BY DEF LinkInv, LinkTypes, Bodies
<1>9. PICK p \in Int : FrameAt(p)
  BY DEF LinkInv, Frame
<1>10. CASE cli = "wack" /\ Head(s2c).c = "+"
  <2>1. cli' = "wreply" /\ c2s' = c2s /\ answered' = answered
    BY <1>10 DEF ClientReceives
  <2>2. req.n = handled
    BY <1>3, <1>6, <1>7, <1>10 DEF LinkInv, Replies, IsAnswer
  <2>3. PICK q \in 1 .. Len(s2c) :
          /\ srv = "run" => q = Len(s2c)
          /\ \A i \in 1 .. Len(s2c) : /\ i < q => IsAnswer(s2c[i])
                                      /\ i > q => Current(s2c[i])
    BY <1>10, <2>2 DEF LinkInv, Replies
  <2>4. q = 1
    BY <1>3, <1>6, <1>10, <2>3 DEF IsAnswer
  <2>5. \A i \in 1 .. Len(s2c') : Current(s2c'[i])
    BY <1>4, <2>3, <2>4
  <2>6. srv = "run" => s2c' = <<>>
    <3>1. srv = "run" => Len(s2c) = 1
      BY <2>3, <2>4
    <3>2. Len(s2c') = Len(s2c) - 1 /\ s2c' \in Seq(Items)
      BY <1>3
    <3>3. s2c' # <<>> => Len(s2c') # 0
      BY <3>2, EmptySeq
    <3> QED
      BY <3>1, <3>2, <3>3
  <2>7. Replies'
    BY <1>1, <2>1, <2>2, <2>5, <2>6 DEF Replies, Current, IsAnswer
  <2>8. LinkTypes' /\ Handling'
    BY <1>1, <1>3, <1>10, <2>1 DEF LinkInv, LinkTypes, Handling, Pending
  <2>9. Stream' = Stream
    BY <1>1, <2>1 DEF Stream
  <2>10. FrameAt(p)'
    BY <1>1, <1>5, <1>9, <1>10, <2>1, <2>9 DEF FrameAt, Pending, Ahead
  <2> QED
    BY <2>7, <2>8, <2>10 DEF LinkInv, Frame
<1>11. CASE cli = "wack" /\ Head(s2c).c = "-"
  <2>1. cli' = "wack" /\ c2s' = c2s \o Packet(req, "#")
    BY <1>11 DEF ClientReceives
  <2>2. req.n # handled
    <3> SUFFICES ASSUME req.n = handled PROVE FALSE
      OBVIOUS
    <3>1. PICK q \in 1 .. Len(s2c) :
            /\ s2c[q].c = "+"
            /\ \A i \in 1 .. Len(s2c) : i < q => IsAnswer(s2c[i])
      BY <1>11 DEF LinkInv, Replies
    <3> QED
      BY <1>3, <1>6, <1>11, <3>1 DEF IsAnswer
  <2>3. Pending /\ Len(s2c) = 1 /\ srv = "hunt"
    BY <1>3, <1>6, <1>7, <1>11, <2>2 DEF LinkInv, Replies, IsAnswer
  <2>4. Pending' /\ req'.n # handled'
    BY <1>1, <2>2, <2>3 DEF Pending
  <2>5. Refused /\ ~Refused'
    BY <1>3, <1>6, <1>11, <2>3 DEF Refused
  <2>6. AllNoise(Stream)
    <3>1. p > Len(Stream) /\ Framed(Stream, p, req)
      BY <1>9, <1>11, <2>5 DEF FrameAt
    <3>2. rbuf \o c2s \in Seq(Items) /\ c2s \in Seq(Items)
      BY ConcatProperties DEF LinkInv, LinkTypes
    <3>3. Stream \in Seq(Items)
      BY <3>2 DEF Stream
    <3> QED
      BY <3>1, <3>3, NoiseFramed
  <2>7. req' \in Bodies
    BY <1>1 DEF LinkInv, LinkTypes
  <2>8. Frame' /\ c2s' \in Seq(Items)
    BY <1>1, <2>1, <2>3, <2>4, <2>5, <2>6, <2>7, PacketWritten
  <2>9. LinkTypes' /\ Handling'
    BY <1>1, <1>3, <1>11, <2>1, <2>8 DEF LinkInv, LinkTypes, Handling, Pending
  <2>10. Replies'
    BY <1>3, <2>1, <2>3, <2>4 DEF Replies
  <2> QED
    BY <2>8, <2>9, <2>10 DEF LinkInv
<1>12. CASE cli = "wack" /\ Head(s2c).c = "answer"
  <2>1. cli' = "wack" /\ c2s' = Append(c2s, Byte("+"))
    BY <1>12 DEF ClientReceives
  <2>2. Frame' /\ c2s' \in Seq(Items)
    BY <1>1, <1>5, <1>12, <2>1, PlusByte, ByteWritten
  <2>3. LinkTypes' /\ Handling'
    BY <1>1, <1>3, <1>12, <2>1, <2>2 DEF LinkInv, LinkTypes, Handling, Pending
  <2>4. ASSUME Pending, NEW i \in 1 .. Len(s2c')
        PROVE  IsAnswer(s2c'[i]) \/ (s2c'[i].c = "-" /\ i = Len(s2c') /\ srv = "hunt")
    <3>1. \/ IsAnswer(s2c[i + 1])
          \/ s2c[i + 1].c = "-" /\ i + 1 = Len(s2c) /\ srv = "hunt"
      BY <1>4, <1>12, <2>4 DEF LinkInv, Replies
    <3>2. i + 1 = Len(s2c) => i = Len(s2c')
      BY <1>3
    <3> QED
      BY <1>4, <3>1, <3>2
  <2>5. ASSUME req.n = handled
        PROVE  \E q \in 1 .. Len(s2c') :
                 /\ s2c'[q].c = "+"
                 /\ srv = "run" => q = Len(s2c')
                 /\ \A i \in 1 .. Len(s2c') : /\ i < q => IsAnswer(s2c'[i])
                                              /\ i > q => Current(s2c'[i])
    <3>1. PICK q \in 1 .. Len(s2c) :
            /\ s2c[q].c = "+"
            /\ srv = "run" => q = Len(s2c)
            /\ \A i \in 1 .. Len(s2c) : /\ i < q => IsAnswer(s2c[i])
                                        /\ i > q => Current(s2c[i])
      BY <1>12, <2>5 DEF LinkInv, Replies
    <3>2. q # 1
      BY <1>3, <1>12, <3>1
    <3>3. /\ q - 1 \in 1 .. Len(s2c') /\ s2c'[q - 1].c = "+"
          /\ srv = "run" => q - 1 = Len(s2c')
      BY <1>3, <3>1, <3>2
    <3>4. \A i \in 1 .. Len(s2c') : /\ i < q - 1 => IsAnswer(s2c'[i])
                                    /\ i > q - 1 => Current(s2c'[i])
      BY <1>4, <3>1
    <3> QED
      BY <3>3, <3>4
  <2>6. Replies'
    BY <1>1, <2>1, <2>4, <2>5 DEF Replies, Pending, IsAnswer, Current
  <2> QED
    BY <2>2, <2>3, <2>6 DEF LinkInv
<1>13. CASE cli = "wreply" /\ Head(s2c).c = "answer"
  <2>1. cli' = "idle" /\ c2s' = Append(c2s, Byte("+")) /\ answered' = Head(s2c).body.n
    BY <1>13 DEF ClientReceives
  <2>2. /\ req.n = handled /\ srv # "run"
        /\ \A i \in 1 .. Len(s2c) : Current(s2c[i])
    BY <1>1, <1>13 DEF LinkInv, Replies
  <2>3. ~Pending
    BY <1>8, <2>2 DEF Pending
  <2>4. Frame' /\ c2s' \in Seq(Items)
    BY <1>1, <1>5, <1>13, <2>1, <2>3, PlusByte, ByteWritten
  <2>5. LinkTypes' /\ Handling'
    BY <1>1, <1>3, <1>13, <2>1, <2>4 DEF LinkInv, LinkTypes, Handling, Pending
  <2>6. answered' = handled /\ \A i \in 1 .. Len(s2c') : IsAnswer(s2c'[i])
    BY <1>3, <1>4, <1>6, <2>1, <2>2 DEF Current
  <2>7. Replies'
    BY <1>1, <2>1, <2>2, <2>6 DEF Replies, IsAnswer
  <2> QED
    BY <2>4, <2>5, <2>7 DEF LinkInv
<1> QED
  BY <1>10, <1>11, <1>12, <1>13 DEF ClientReceives
-------------------------------------------------------------------------------
LEMMA LinkInvariant == Spec => []LinkInv
<1>1. Init => LinkInv
  <2> SUFFICES ASSUME Init PROVE LinkInv
    OBVIOUS
  <2>1. NoBody \in Bodies /\ NoBody.n = 0
    BY DEF NoBody, Bodies, Op
  <2>2. LinkTypes
    BY <2>1, EmptyFramed, LinkConstants DEF Init, LinkTypes, GettingPacket
  <2>3. Handling
    BY <2>1 DEF Init, Handling, Busy
  <2>4. Replies
    BY <2>1 DEF Init, Replies
  <2>5. Stream = <<>>
    BY EmptyFramed, ConcatEmptySeq DEF Init, Stream
  <2>6. FrameAt(1)
    BY <2>5, EmptyFramed DEF Init, FrameAt
  <2> QED
    BY <2>2, <2>3, <2>4, <2>6 DEF LinkInv, Frame
<1>2. LinkInv /\ [Next]_vars => LinkInv'
  <2> SUFFICES ASSUME LinkInv, [Next]_vars PROVE LinkInv'
    OBVIOUS
  <2>1. CASE UNCHANGED vars
    BY <2>1 DEF vars, clientV, serverV, LinkInv, LinkTypes, Handling, Frame, FrameAt, Replies,
       Stream, Ahead, Refused, Pending, IsAnswer, Current
  <2>2. CASE Server
    BY <2>2, ReadKeeps, ReadEofKeeps, HuntKeeps, GetBodyKeeps, GetSumKeeps, RunEndsKeeps,
       SendKeeps, GetAckKeeps DEF Server
  <2>3. CASE RunEnds \/ Accept
    BY <2>3, RunEndsKeeps, AcceptKeeps
  <2>4. CASE ClientSends \/ ClientReceives \/ PressCtrlC \/ ClientGone
    BY <2>4, ClientSendsKeeps, ClientReceivesKeeps, PressCtrlCKeeps, ClientGoneKeeps
  <2> QED
    BY <2>1, <2>2, <2>3, <2>4 DEF Next
<1> QED
  BY <1>1, <1>2, PTL DEF Spec

(***************************************************************************)
(* Each packet of a connection is handled once and in the order it was     *)
(* sent, and never one of an earlier client: putpkt and remote_interrupt,  *)
(* which take bytes of the socket past the buffer of readchar, never take  *)
(* a part of a packet, and that buffer is empty when a client is accepted. *)
(***************************************************************************)
THEOREM PacketsHandledOnce == Spec => []HandledOnceInOrder
<1>1. LinkInv => HandledOnceInOrder
  BY DEF LinkInv, Handling, HandledOnceInOrder, Busy
<1> QED
  BY <1>1, LinkInvariant, PTL

(***************************************************************************)
(* The answer the client takes is the one to its last packet, however many *)
(* times putpkt repeated an earlier one.                                   *)
(***************************************************************************)
THEOREM AnswersAlwaysMatch == Spec => []AnswersMatch
<1>1. LinkInv => AnswersMatch
  BY DEF LinkInv, Replies, AnswersMatch
<1> QED
  BY <1>1, LinkInvariant, PTL
=================================================================================
