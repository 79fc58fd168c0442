-------------------------------- MODULE GdbLink --------------------------------
(***************************************************************************)
(* The conversation between GDB and the server of the simulator (utils/    *)
(* debugger/gdbserver.c): getpkt, putpkt and readchar under the main loop  *)
(* of sim_debug, and remote_interrupt, which looks at the same socket      *)
(* while the target runs.  putpkt and remote_interrupt read the socket;    *)
(* getpkt reads it through the static buffer of readchar.                  *)
(*                                                                         *)
(* The socket is reliable and ordered.  A packet is "$", its body and "#"  *)
(* (or "#bad" when the checksum will not match); its body is the           *)
(* connection, its number in it and whether it resumes the target.         *)
(* The client is external: it follows the remote protocol as GDB does,     *)
(* waits for "+", skips and acknowledges a packet that comes instead, then *)
(* waits for the answer and acknowledges it.                               *)
(***************************************************************************)
EXTENDS Integers, Sequences

CONSTANTS MaxReq,    \* bound: packets of one connection
          MaxConn,   \* bound: connections
          MaxBad     \* bound: packets sent with a wrong checksum

ASSUME LinkConstants == MaxReq \in Nat /\ MaxConn \in Nat \ {0} /\ MaxBad \in Nat

Op == {"c", "s", "q"}    \* continue, step, a command answered at once
Body == [conn : 1 .. MaxConn, n : 1 .. MaxReq, op : Op]
NoBody == [conn |-> 0, n |-> 0, op |-> "q"]

VARIABLES c2s, eof,      \* socket: bytes to the server, the client closed it
          s2c,           \* bytes and answers to the client
          srv,           \* where the server is
          rbuf,          \* the static buffer of readchar
          own_buf,       \* the packet being handled
          cli, req,      \* where the client is, its last packet
          conn, bad,     \* how many so far
          \* What happened, for the properties:
          handled,       \* packets the server has handled in this connection
          answered,      \* the number of the last answer the client took
          pressed,       \* Ctrl+C was pressed since the client resumed
          spurious       \* a run ended by remote_interrupt without Ctrl+C

clientV == <<cli, req, conn, bad, answered, pressed>>
serverV == <<srv, rbuf, own_buf, handled, spurious>>
vars == <<c2s, eof, s2c, clientV, serverV>>

\* What goes over the socket: single bytes, bodies and answers.
Byte(c) == [c |-> c, body |-> NoBody]
Packet(b, sum) == <<Byte("$"), [c |-> "body", body |-> b], Byte(sum)>>
Answer(b) == [c |-> "answer", body |-> b]
Prefixes(s) == {SubSeq(s, 1, k) : k \in 0 .. Len(s)}

Init ==
  /\ c2s = <<>> /\ eof = FALSE /\ s2c = <<>>
  /\ srv = "hunt" /\ rbuf = <<>> /\ own_buf = NoBody
  /\ cli = "idle" /\ req = NoBody /\ conn = 1 /\ bad = 0
  /\ handled = 0 /\ answered = 0 /\ pressed = FALSE /\ spurious = FALSE
-------------------------------------------------------------------------------
\* The server.

Srv(from, to) == srv = from /\ srv' = to
GettingPacket == {"hunt", "body", "sum"}

\* readchar finds its buffer empty and reads the socket.
Read ==
  /\ srv \in GettingPacket
  /\ rbuf = <<>> /\ c2s # <<>>
  /\ \E k \in 1 .. Len(c2s) :
       /\ rbuf' = SubSeq(c2s, 1, k)
       /\ c2s' = SubSeq(c2s, k + 1, Len(c2s))
  /\ UNCHANGED <<eof, s2c, clientV, srv, own_buf, handled, spurious>>

\* 'c' and 's' run the target before they are answered.
Handle == IF own_buf.op = "q" THEN "send" ELSE "run"

\* readchar returns -1: getpkt gives up at once, except where it reads the
\* checksum, for which fromhex makes zeros of it that match or do not.
ReadEof ==
  /\ srv \in GettingPacket
  /\ rbuf = <<>> /\ c2s = <<>> /\ eof
  /\ \/ srv # "sum" /\ srv' = "accept" /\ UNCHANGED handled
     \/ srv = "sum" /\ srv' = "hunt" /\ UNCHANGED handled
     \/ srv = "sum" /\ srv' = Handle /\ handled' = handled + 1
  /\ UNCHANGED <<c2s, eof, s2c, clientV, rbuf, own_buf, spurious>>

\* getpkt discards everything before a "$".
Hunt ==
  /\ rbuf # <<>>
  /\ Srv("hunt", IF Head(rbuf).c = "$" THEN "body" ELSE "hunt")
  /\ rbuf' = Tail(rbuf)
  /\ UNCHANGED <<c2s, eof, s2c, clientV, own_buf, handled, spurious>>

\* Mutant: bp is not set back, the new packet is appended to the old one.
GetBodyAppends ==
  /\ rbuf # <<>>
  /\ Srv("body", "sum")
  /\ own_buf' = IF own_buf = NoBody THEN Head(rbuf).body ELSE own_buf
  /\ rbuf' = Tail(rbuf)
  /\ UNCHANGED <<c2s, eof, s2c, clientV, handled, spurious>>

GetBody ==
  /\ rbuf # <<>>
  /\ Srv("body", "sum")
  /\ own_buf' = Head(rbuf).body
  /\ rbuf' = Tail(rbuf)
  /\ UNCHANGED <<c2s, eof, s2c, clientV, handled, spurious>>

\* Mutant: a packet that is refused is handled all the same.
GetSumIgnored ==
  /\ rbuf # <<>>
  /\ srv = "sum"
  /\ s2c' = Append(s2c, Byte(IF Head(rbuf).c = "#" THEN "+" ELSE "-"))
  /\ srv' = Handle
  /\ handled' = handled + 1
  /\ rbuf' = Tail(rbuf)
  /\ UNCHANGED <<c2s, eof, clientV, own_buf, spurious>>

\* The checksum decides: acknowledge and handle, or ask again.
GetSum ==
  /\ rbuf # <<>>
  /\ srv = "sum"
  /\ \/ /\ Head(rbuf).c = "#"
        /\ s2c' = Append(s2c, Byte("+"))
        /\ srv' = Handle
        /\ handled' = handled + 1
     \/ /\ Head(rbuf).c # "#"
        /\ s2c' = Append(s2c, Byte("-"))
        /\ srv' = "hunt"
        /\ UNCHANGED handled
  /\ rbuf' = Tail(rbuf)
  /\ UNCHANGED <<c2s, eof, clientV, own_buf, spurious>>

\* The target stops by itself.
RunEnds ==
  /\ Srv("run", "send")
  /\ UNCHANGED <<c2s, eof, s2c, clientV, rbuf, own_buf, handled, spurious>>

\* remote_interrupt: whatever is on the socket, or its end, stops the target.
RunInterrupted ==
  /\ Srv("run", "send")
  /\ c2s # <<>> \/ eof
  /\ spurious' = (spurious \/ (c2s # <<>> /\ ~pressed))
  /\ c2s' = <<>>
  /\ UNCHANGED <<eof, s2c, clientV, rbuf, own_buf, handled>>

\* putpkt: write, then read one byte; anything but "+" writes again.  A
\* connection that ended fails the write or the read.
Send ==
  /\ \/ Srv("send", "ack") /\ s2c' = Append(s2c, Answer(own_buf))
     \/ Srv("send", "hunt") /\ eof /\ UNCHANGED s2c
  /\ UNCHANGED <<c2s, eof, clientV, rbuf, own_buf, handled, spurious>>

\* Mutant: the test of the do-while loop is inverted.
GetAckInverted ==
  /\ c2s # <<>> \/ eof
  /\ Srv("ack", IF c2s # <<>> /\ Head(c2s).c = "+" THEN "send" ELSE "hunt")
  /\ c2s' = IF c2s = <<>> THEN <<>> ELSE Tail(c2s)
  /\ UNCHANGED <<eof, s2c, clientV, rbuf, own_buf, handled, spurious>>

GetAck ==
  /\ c2s # <<>> \/ eof
  /\ Srv("ack", IF c2s # <<>> /\ Head(c2s).c # "+" THEN "send" ELSE "hunt")
  /\ c2s' = IF c2s = <<>> THEN <<>> ELSE Tail(c2s)
  /\ UNCHANGED <<eof, s2c, clientV, rbuf, own_buf, handled, spurious>>

\* remote_close and remote_open: another client is accepted.
Accept ==
  /\ Srv("accept", "hunt")
  /\ conn < MaxConn
  /\ conn' = conn + 1
  /\ cli' = "idle" /\ req' = NoBody /\ answered' = 0 /\ pressed' = FALSE
  /\ c2s' = <<>> /\ s2c' = <<>> /\ eof' = FALSE /\ handled' = 0
  /\ UNCHANGED <<bad, rbuf, own_buf, spurious>>

Server ==
  \/ Read \/ ReadEof \/ Hunt \/ GetBody \/ GetSum \/ RunInterrupted
  \/ Send \/ GetAck
-------------------------------------------------------------------------------
\* The client, external.

ClientSends ==
  /\ cli = "idle" /\ req.n < MaxReq
  /\ \E op \in Op, sum \in {"#", "#bad"} :
       /\ req' = [conn |-> conn, n |-> req.n + 1, op |-> op]
       /\ bad' = IF sum = "#bad" THEN bad + 1 ELSE bad
       /\ bad' <= MaxBad
       /\ c2s' = c2s \o Packet(req', sum)
  /\ cli' = "wack" /\ pressed' = FALSE
  /\ UNCHANGED <<eof, s2c, conn, answered, serverV>>

ClientReceives ==
  /\ s2c # <<>>
  /\ s2c' = Tail(s2c)
  /\ \/ /\ cli = "wack" /\ Head(s2c).c = "+"
        /\ cli' = "wreply"
        /\ UNCHANGED <<c2s, answered>>
     \/ /\ cli = "wack" /\ Head(s2c).c = "-"
        /\ c2s' = c2s \o Packet(req, "#")
        /\ UNCHANGED <<cli, answered>>
     \/ /\ cli = "wack" /\ Head(s2c).c = "answer"     \* an old answer
        /\ c2s' = Append(c2s, Byte("+"))
        /\ UNCHANGED <<cli, answered>>
     \/ /\ cli = "wreply" /\ Head(s2c).c = "answer"
        /\ c2s' = Append(c2s, Byte("+"))
        /\ cli' = "idle"
        /\ answered' = Head(s2c).body.n
  /\ UNCHANGED <<eof, req, conn, bad, pressed, serverV>>

PressCtrlC ==
  /\ cli = "wreply" /\ req.op # "q" /\ ~pressed
  /\ pressed' = TRUE
  /\ c2s' = Append(c2s, Byte("brk"))
  /\ UNCHANGED <<eof, s2c, cli, req, conn, bad, answered, serverV>>

\* The connection breaks; what was on its way may be lost.
ClientGone ==
  /\ cli # "gone"
  /\ cli' = "gone" /\ eof' = TRUE
  /\ c2s' \in Prefixes(c2s)
  /\ UNCHANGED <<s2c, req, conn, bad, answered, pressed, serverV>>

Next ==
  \/ Server \/ RunEnds \/ Accept
  \/ ClientSends \/ ClientReceives \/ PressCtrlC \/ ClientGone

Spec == Init /\ [][Next]_vars

\* The server and a waiting client keep working, and a step ends; a continued
\* target need not stop by itself and the user need not do anything.
FairSpec ==
  /\ Spec
  /\ WF_vars(Server)
  /\ WF_vars(own_buf.op = "s" /\ RunEnds)
  /\ WF_vars(ClientReceives)
-------------------------------------------------------------------------------
(***************************************************************************)
(* Every packet is handled once and in order, and never one of an earlier  *)
(* client: although putpkt takes bytes of the socket behind the back of    *)
(* readchar, whose buffer outlives the connection, no packet is torn,      *)
(* repeated or left over.                                                  *)
(***************************************************************************)
HandledOnceInOrder ==
  srv \in {"run", "send", "ack"} =>
    own_buf.conn = conn /\ own_buf.n = handled

(***************************************************************************)
(* The answer the client takes is the answer to its last packet, although  *)
(* a Ctrl+C that crosses the stop reply makes putpkt send that reply       *)
(* twice.                                                                  *)
(***************************************************************************)
AnswersMatch == cli = "idle" => answered = req.n

(***************************************************************************)
(* The two sides never wait for each other: a packet is acknowledged, a    *)
(* command is answered, and a resumed target is once Ctrl+C was pressed.   *)
(***************************************************************************)
ClientServed ==
  /\ (cli = "wack") ~> (cli # "wack")
  /\ (cli = "wreply" /\ (req.op # "c" \/ pressed)) ~> (cli # "wreply")

(***************************************************************************)
(* "stop when press Ctrl+c" (gdbserver.c, remote_interrupt): the target is *)
(* interrupted only by a Ctrl+C pressed since it was resumed.              *)
(***************************************************************************)
StopsOnlyOnCtrlC == ~spurious
================================================================================
