------------------------------ MODULE TelnetInput ------------------------------
(***************************************************************************)
(* How the telnet UART turns what a client sends into characters           *)
(* (telnet_input, device/uart/telnet_server.c): a state machine drops      *)
(* option negotiations and folds the two bytes of a line end into one      *)
(* return, looking ahead within the chunk that one recv returned, and      *)
(* offers the rest to the receive ring.                                    *)
(*                                                                         *)
(* The threads do not overlap here: TelnetUart is about that.              *)
(***************************************************************************)
EXTENDS UartRing

CONSTANTS CR, LF,       \* the two bytes of a line end
          IAC, Verb,    \* 0xff; WILL, WONT, DO and DONT
          MaxSent       \* bound: bytes that all clients together send

ASSUME InputConstants ==
  /\ {CR, LF, IAC} \cup Verb \subseteq Char
  /\ IAC \notin {CR, LF}
  /\ MaxSent \in Nat

VARIABLES connected,    \* remote_desc is set and the connection object exists
          state,        \* t_con->state
          chunk,        \* what is left of the buffer of telnet_input
          \* What happened on this connection, for the properties:
          sent,         \* the bytes received
          offered,      \* the characters offered to the ring
          clear,        \* no line end was cut by a chunk, no other command sent
          total         \* bytes received on all connections

parseVars == <<connected, state, chunk, sent, offered, clear, total>>

NewConnection ==
  /\ connected' = TRUE
  /\ state' = "DATA" /\ chunk' = <<>>
  /\ sent' = <<>> /\ offered' = <<>> /\ clear' = TRUE

InputInit ==
  /\ RingInit /\ result = <<>>
  /\ connected = FALSE /\ state = "DATA" /\ chunk = <<>>
  /\ sent = <<>> /\ offered = <<>> /\ clear = TRUE /\ total = 0

\* Mutant: the parser state of the last connection is kept.
ConnectKeepsState ==
  /\ ~connected
  /\ connected' = TRUE
  /\ chunk' = <<>> /\ sent' = <<>> /\ offered' = <<>> /\ clear' = TRUE
  /\ UNCHANGED <<ringVars, result, state, total>>

\* telnet_new_connection; the ring keeps what the last client typed.
Connect ==
  /\ ~connected
  /\ NewConnection
  /\ UNCHANGED <<ringVars, result, total>>

\* recv ends: telnet_connection_closed.
Disconnect ==
  /\ connected
  /\ chunk = <<>>
  /\ connected' = FALSE
  /\ sent' = <<>> /\ offered' = <<>> /\ clear' = TRUE
  /\ UNCHANGED <<ringVars, result, state, chunk, total>>

LineEnd(a, b) == <<a, b>> \in {<<CR, LF>>, <<LF, CR>>}

\* read_socket returns some of what the client sent.
Receive(bytes) ==
  /\ connected
  /\ chunk = <<>>
  /\ total + Len(bytes) <= MaxSent
  /\ total' = total + Len(bytes)
  /\ chunk' = bytes
  /\ sent' = sent \o bytes
  /\ clear' = (clear /\ (sent # <<>> => ~LineEnd(sent[Len(sent)], Head(bytes))))
  /\ UNCHANGED <<ringVars, result, connected, state, offered>>

Offer(c, eaten) ==
  /\ putch(c)
  /\ offered' = Append(offered, c)
  /\ chunk' = SubSeq(chunk, eaten + 1, Len(chunk))
  /\ UNCHANGED <<state, clear>>

\* Mutant: the second byte of a line end is offered as well.
ParseDataBoth ==
  \/ /\ Head(chunk) = IAC
     /\ state' = "IAC" /\ chunk' = Tail(chunk)
     /\ UNCHANGED <<ringVars, result, offered, clear>>
  \/ Head(chunk) # IAC /\ Offer(Head(chunk), 1)

\* One round of the loop in state DATA: a line end is offered as a return.
ParseData ==
  \/ /\ Head(chunk) = IAC
     /\ state' = "IAC" /\ chunk' = Tail(chunk)
     /\ UNCHANGED <<ringVars, result, offered, clear>>
  \/ /\ Len(chunk) > 1 /\ LineEnd(chunk[1], chunk[2])
     /\ Offer(CR, 2)
  \/ /\ Head(chunk) # IAC
     /\ ~(Len(chunk) > 1 /\ LineEnd(chunk[1], chunk[2]))
     /\ Offer(Head(chunk), 1)

\* A byte after IAC: other commands than the four verbs do not end the state.
ParseCommand ==
  /\ state' = IF Head(chunk) \in Verb THEN "OPTION" ELSE "IAC"
  /\ clear' = (clear /\ Head(chunk) \in Verb)
  /\ chunk' = Tail(chunk)
  /\ UNCHANGED <<ringVars, result, offered>>

\* The byte after WILL, WONT, DO or DONT, one state each, is dropped.
ParseOption ==
  /\ state' = "DATA"
  /\ chunk' = Tail(chunk)
  /\ UNCHANGED <<ringVars, result, offered, clear>>

Parse ==
  /\ chunk # <<>>
  /\ \/ state = "DATA" /\ ParseData
     \/ state = "IAC" /\ ParseCommand
     \/ state = "OPTION" /\ ParseOption
  /\ UNCHANGED <<connected, sent, total>>

Chunks == UNION {[1 .. n -> Char] : n \in 1 .. MaxSent}
Telnet == Connect \/ Disconnect \/ Parse \/ \E bytes \in Chunks : Receive(bytes)
-------------------------------------------------------------------------------
\* What a client typed, from the whole stream: every negotiation of three
\* bytes dropped and every line end one return.
\* rest[n] is what the last n bytes say.
Typed(s) ==
  LET rest[n \in 0 .. Len(s)] ==
        LET a == s[Len(s) - n + 1]
            b == s[Len(s) - n + 2]
        IN  CASE n = 0 -> <<>>
              [] n > 0 /\ a = IAC -> IF n <= 3 THEN <<>> ELSE rest[n - 3]
              [] n > 1 /\ a # IAC /\ LineEnd(a, b) -> <<CR>> \o rest[n - 2]
              [] OTHER -> <<a>> \o rest[n - 1]
  IN  rest[Len(s)]

(***************************************************************************)
(* However recv cuts the stream into chunks, and whatever an earlier       *)
(* connection left behind, the characters offered to the ring are the ones *)
(* the client typed: telnet_input remembers a negotiation over a chunk     *)
(* boundary.  A line end cut in two and a command other than the four      *)
(* verbs are the exceptions (the first gives two returns, after the second *)
(* everything is dropped until the next verb).                             *)
(***************************************************************************)
OffersTyped == clear /\ chunk = <<>> => offered = Typed(sent)
===============================================================================
