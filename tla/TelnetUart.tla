------------------------------ MODULE TelnetUart ------------------------------
(***************************************************************************)
(* The UART over telnet (device/uart/skyeye_uart_telnet.c and              *)
(* telnet_server.c).  Two threads share one device structure without a     *)
(* lock:                                                                   *)
(*   - the telnet thread accepts one client at a time, allocates and frees *)
(*     its telnet_connection_t and puts what it types into the ring;       *)
(*   - the simulator thread reads the ring and writes to the client        *)
(*     through uart_telnet_read and uart_telnet_write, and ends the device *)
(*     with uart_telnet_close.                                             *)
(* A step is one load or store of shared memory or one socket call, in     *)
(* program order.  The race on the count is undefined in C: an operation   *)
(* adds to the count it loaded first, kept in a register, or to the one in *)
(* memory now, as the compiler likes.                                      *)
(***************************************************************************)
EXTENDS Integers, Sequences

CONSTANTS BUF_SIZE,
          MaxTyped,   \* bound: characters typed in all connections together
          MaxConn     \* bound: connections accepted

ASSUME TelnetConstants ==
  BUF_SIZE \in Nat \ {0} /\ MaxTyped \in Nat /\ MaxConn \in Nat \ {0}

NULL == 0
Conn == 1 .. MaxConn
Char == 1 .. MaxTyped       \* the n-th character typed is n
NoChar == 0

VARIABLES
  buf, bptr, cnt,           \* the ring
  local_desc,               \* "none", "open", or "closed" by the other thread
  remote_desc,              \* 0 or the connection whose socket it holds
  exit_thread_now,
  priv,                     \* NULL or the connection whose object it points to
  heap,                     \* the telnet_connection_t objects not freed
  closed,                   \* the field of each object: "junk", "no" or "yes"
  dead,                     \* connections that ended, at either side
  conns, typed,             \* how many so far
  tel, tcnt, tw,            \* telnet thread: its next step, the count it loaded,
                            \* the cell it will store to
  sim, scnt, scon,          \* simulator thread: next step, count, object
  \* What happened, for the properties:
  accepted, delivered,      \* characters putch accepted, getch returned
  raced,                    \* a putch and a getch overlapped
  exposed,                  \* a connection began or ended during this write
  closedAt                  \* where the telnet thread was when it was closed

ringV == <<buf, bptr, cnt>>
connV == <<local_desc, remote_desc, priv, heap, closed, dead, conns>>
logV  == <<accepted, delivered, raced>>
vars  == <<ringV, connV, exit_thread_now, typed, tel, tcnt, tw, sim, scnt,
           scon, logV, closedAt, exposed>>

Ring == INSTANCE UartRing WITH result <- <<>>

\* uart_telnet_open: a zeroed structure, then the thread is started.
Init ==
  /\ Ring!RingInit
  /\ local_desc = "none" /\ remote_desc = 0 /\ exit_thread_now = FALSE
  /\ priv = NULL /\ heap = {} /\ closed = [c \in Conn |-> "junk"]
  /\ dead = {} /\ conns = 0 /\ typed = 0
  /\ tel = "top" /\ tcnt = 0 /\ tw = 0
  /\ sim = "idle" /\ scnt = 0 /\ scon = NULL
  /\ accepted = <<>> /\ delivered = <<>> /\ raced = FALSE
  /\ closedAt = "never" /\ exposed = FALSE
-------------------------------------------------------------------------------
\* The telnet thread: uart_telnet_thread.

Tel(from, to) == tel = from /\ tel' = to

\* Where each thread is between its first and its last access to the ring.
Putting == {"index", "store", "count"}
Getting == {"get2", "get3", "wrap"}

simV == <<sim, scnt, scon, closedAt>>

\* The test of the while loop.
TelTop ==
  /\ Tel("top", IF exit_thread_now THEN "done" ELSE "socket")
  /\ UNCHANGED <<ringV, connV, exit_thread_now, typed, tcnt, tw, simV, logV>>

\* socket, bind, listen; a failure sets the exit flag.
TelListen ==
  /\ \/ Tel("socket", "accept") /\ UNCHANGED exit_thread_now
     \/ Tel("socket", "top") /\ exit_thread_now' = TRUE
  /\ local_desc' = "open"
  /\ UNCHANGED <<ringV, remote_desc, priv, heap, closed, dead, conns, typed,
                 tcnt, tw, simV, logV>>

\* accept fails: the thread closes the listening socket and gives up.
AcceptError ==
  /\ Tel("accept", "top")
  /\ exit_thread_now' = TRUE
  /\ local_desc' = "closed"
  /\ UNCHANGED <<ringV, remote_desc, priv, heap, closed, dead, conns, typed,
                 tcnt, tw, simV, logV>>

\* uart_telnet_close closed the socket, or a client reset its request.
TelAcceptFails == local_desc = "closed" /\ AcceptError
TelAcceptReset == local_desc = "open" /\ AcceptError

TelAccept ==
  /\ Tel("accept", "accepted")
  /\ local_desc = "open" /\ conns < MaxConn
  /\ conns' = conns + 1
  /\ UNCHANGED <<ringV, local_desc, remote_desc, priv, heap, closed, dead,
                 exit_thread_now, typed, tcnt, tw, simV, logV>>

TelSetDesc ==
  /\ Tel("accepted", "opened")
  /\ remote_desc' = conns
  /\ UNCHANGED <<ringV, local_desc, priv, heap, closed, dead, conns,
                 exit_thread_now, typed, tcnt, tw, simV, logV>>

TelCloseListener ==
  /\ Tel("opened", "alloc")
  /\ local_desc' = "none"
  /\ UNCHANGED <<ringV, remote_desc, priv, heap, closed, dead, conns,
                 exit_thread_now, typed, tcnt, tw, simV, logV>>

\* telnet_new_connection: malloc, publish, then initialise.
TelAlloc ==
  /\ Tel("alloc", "init")
  /\ priv' = conns
  /\ heap' = heap \cup {conns}
  /\ closed' = [closed EXCEPT ![conns] = "junk"]
  /\ UNCHANGED <<ringV, local_desc, remote_desc, dead, conns,
                 exit_thread_now, typed, tcnt, tw, simV, logV>>

TelInit ==
  /\ Tel("init", "write")
  /\ closed' = [closed EXCEPT ![conns] = "no"]
  /\ UNCHANGED <<ringV, local_desc, remote_desc, priv, heap, dead, conns,
                 exit_thread_now, typed, tcnt, tw, simV, logV>>

\* telnet_write of the option negotiation and the banner, or of the bell: a
\* send may fail once the connection ended, and marks it closed then.
TelWrite ==
  /\ Tel("write", "recv")
  /\ \/ UNCHANGED closed
     \/ conns \in dead /\ closed' = [closed EXCEPT ![conns] = "yes"]
  /\ UNCHANGED <<ringV, local_desc, remote_desc, priv, heap, dead, conns,
                 exit_thread_now, typed, tcnt, tw, simV, logV>>

\* Mutant: the limit test of putch is off by one.
TelPutLoadPastEnd ==
  /\ Tel("recv", IF cnt > BUF_SIZE THEN "write" ELSE "index")
  /\ typed < MaxTyped
  /\ typed' = typed + 1
  /\ tcnt' = cnt
  /\ UNCHANGED <<ringV, connV, exit_thread_now, tw, simV, logV>>

\* telnet_input receives one data character (also one that was on its way
\* when the connection ended) and calls uart_telnet_putch, which loads the
\* count.  A full ring is answered with a bell.
TelPutLoad ==
  /\ Tel("recv", IF cnt >= BUF_SIZE THEN "write" ELSE "index")
  /\ typed < MaxTyped
  /\ typed' = typed + 1
  /\ tcnt' = cnt
  /\ raced' = (raced \/ (cnt < BUF_SIZE /\ sim \in Getting))
  /\ UNCHANGED <<ringV, connV, exit_thread_now, tw, simV, accepted, delivered>>

TelPutIndex ==
  /\ Tel("index", "store")
  /\ \E c \in {tcnt, cnt} : tw' = Ring!WriteIndex(bptr, c)
  /\ UNCHANGED <<ringV, connV, exit_thread_now, typed, tcnt, simV, logV>>

TelPutStore ==
  /\ Tel("store", "count")
  /\ buf' = [buf EXCEPT ![tw] = typed]
  /\ UNCHANGED <<bptr, cnt, connV, exit_thread_now, typed, tcnt, tw, simV,
                 logV>>

\* Mutant: the count is stored without the character just put.
TelPutCountForgets ==
  /\ Tel("count", "recv")
  /\ cnt' = tcnt
  /\ accepted' = Append(accepted, typed)
  /\ UNCHANGED <<buf, bptr, connV, exit_thread_now, typed, tcnt, tw, simV,
                 delivered, raced>>

TelPutCount ==
  /\ Tel("count", "recv")
  /\ \E c \in {tcnt, cnt} : cnt' = c + 1
  /\ accepted' = Append(accepted, typed)
  /\ UNCHANGED <<buf, bptr, connV, exit_thread_now, typed, tcnt, tw, simV,
                 delivered, raced>>

\* recv returns 0 or an error once the connection ended.
TelRecvEnds ==
  /\ Tel("recv", "free")
  /\ conns \in dead
  /\ UNCHANGED <<ringV, connV, exit_thread_now, typed, tcnt, tw, simV, logV>>

\* telnet_connection_closed frees the object, then clears the pointer;
\* the thread then clears remote_desc.  The socket is never closed here.
TelFree ==
  /\ Tel("free", "null")
  /\ heap' = heap \ {priv}
  /\ UNCHANGED <<ringV, local_desc, remote_desc, priv, closed, dead, conns,
                 exit_thread_now, typed, tcnt, tw, simV, logV>>

TelNull ==
  /\ Tel("null", "clear")
  /\ priv' = NULL
  /\ UNCHANGED <<ringV, local_desc, remote_desc, heap, closed, dead, conns,
                 exit_thread_now, typed, tcnt, tw, simV, logV>>

\* Mutant: the thread keeps the descriptor of the connection that ended.
TelClearKeepsDesc ==
  /\ Tel("clear", "top")
  /\ UNCHANGED <<ringV, connV, exit_thread_now, typed, tcnt, tw, simV, logV>>

TelClear ==
  /\ Tel("clear", "top")
  /\ remote_desc' = 0
  /\ UNCHANGED <<ringV, local_desc, priv, heap, closed, dead, conns,
                 exit_thread_now, typed, tcnt, tw, simV, logV>>

TelnetThread ==
  \/ TelTop \/ TelListen \/ TelAcceptFails \/ TelSetDesc \/ TelCloseListener
  \/ TelAlloc \/ TelInit \/ TelWrite
  \/ TelPutIndex \/ TelPutStore \/ TelPutCount
  \/ TelRecvEnds \/ TelFree \/ TelNull \/ TelClear

\* What the client does: connect, type a character, go away.
ClientGone ==
  /\ conns \in Conn \ dead
  /\ dead' = dead \cup {conns}
  /\ UNCHANGED <<ringV, local_desc, remote_desc, priv, heap, closed, conns,
                 exit_thread_now, typed, tel, tcnt, tw, simV, logV>>

Client == TelAccept \/ TelAcceptReset \/ TelPutLoad \/ ClientGone
-------------------------------------------------------------------------------
\* The simulator thread.

telV == <<tel, tcnt, tw, typed>>
Sim(from, to) == sim = from /\ sim' = to

\* uart_telnet_read: nothing when not connected, else uart_telnet_getch.
SimRead ==
  /\ remote_desc # 0
  /\ Sim("idle", "get1")
  /\ UNCHANGED <<ringV, connV, exit_thread_now, telV, scnt, scon, logV,
                 closedAt>>

SimGetLoad ==
  /\ Sim("get1", IF cnt = 0 THEN "idle" ELSE "get2")
  /\ scnt' = cnt
  /\ raced' = (raced \/ (cnt # 0 /\ tel \in Putting))
  /\ UNCHANGED <<ringV, connV, exit_thread_now, telV, scon, accepted,
                 delivered, closedAt>>

SimGetCount ==
  /\ Sim("get2", "get3")
  /\ \E c \in {scnt, cnt} : cnt' = c - 1
  /\ UNCHANGED <<buf, bptr, connV, exit_thread_now, telV, scnt, scon,
                 logV, closedAt>>

\* *p = buf[bptr++]: the index may be out of the array until it is wrapped.
SimGetChar ==
  /\ Sim("get3", "wrap")
  /\ delivered' = Append(delivered, buf[bptr])
  /\ bptr' = bptr + 1
  /\ UNCHANGED <<buf, cnt, connV, exit_thread_now, telV, scnt, scon,
                 accepted, raced, closedAt>>

SimGetWrap ==
  /\ Sim("wrap", "idle")
  /\ bptr' = IF bptr >= BUF_SIZE THEN bptr - BUF_SIZE ELSE bptr
  /\ UNCHANGED <<buf, cnt, connV, exit_thread_now, telV, scnt, scon, logV,
                 closedAt>>

\* uart_telnet_write: nothing when not connected, else telnet_write, which
\* loads the object, reads its closed field, sends, and marks it on failure.
SimWrite ==
  /\ remote_desc # 0
  /\ Sim("idle", "load")
  /\ UNCHANGED <<ringV, connV, exit_thread_now, telV, scnt, scon, logV,
                 closedAt>>

SimLoadConn ==
  /\ Sim("load", "test")
  /\ scon' = priv
  /\ UNCHANGED <<ringV, connV, exit_thread_now, telV, scnt, logV, closedAt>>

\* Reading a field of an object that is not there is undefined.
SimTestClosed ==
  /\ \/ scon \notin heap /\ Sim("test", "crash")
     \/ scon \in heap /\ closed[scon] # "no" /\ Sim("test", "idle")
     \/ scon \in heap /\ closed[scon] # "yes" /\ Sim("test", "send")
  /\ UNCHANGED <<ringV, connV, exit_thread_now, telV, scnt, scon, logV,
                 closedAt>>

SimSend ==
  /\ \/ remote_desc \in Conn /\ Sim("send", "idle")
     \/ remote_desc \notin Conn \ dead /\ Sim("send", "mark")
  /\ UNCHANGED <<ringV, connV, exit_thread_now, telV, scnt, scon, logV,
                 closedAt>>

SimMarkClosed ==
  /\ Sim("mark", IF scon \in heap THEN "idle" ELSE "crash")
  /\ closed' = IF scon \in heap THEN [closed EXCEPT ![scon] = "yes"] ELSE closed
  /\ UNCHANGED <<ringV, local_desc, remote_desc, priv, heap, dead, conns,
                 exit_thread_now, telV, scnt, scon, logV, closedAt>>

\* uart_telnet_close, when the simulator exits: raise the flag, close both
\* sockets to wake the telnet thread, wait for it, free the device.
SimClose ==
  /\ Sim("idle", "close1")
  /\ exit_thread_now' = TRUE
  /\ UNCHANGED <<ringV, connV, telV, scnt, scon, logV, closedAt>>

\* Mutant: only the connection is closed, not the listening socket.
SimCloseRemoteOnly ==
  /\ Sim("close1", "join")
  /\ closedAt' = tel
  /\ dead' = dead \cup ({remote_desc} \cap Conn)
  /\ UNCHANGED <<ringV, local_desc, remote_desc, priv, heap, closed, conns,
                 exit_thread_now, telV, scnt, scon, logV>>

SimCloseSockets ==
  /\ Sim("close1", "join")
  /\ closedAt' = tel
  /\ local_desc' = IF local_desc = "open" THEN "closed" ELSE local_desc
  /\ dead' = dead \cup ({remote_desc} \cap Conn)
  /\ UNCHANGED <<ringV, remote_desc, priv, heap, closed, conns,
                 exit_thread_now, telV, scnt, scon, logV>>

SimJoin ==
  /\ Sim("join", "closed")
  /\ tel = "done"
  /\ UNCHANGED <<ringV, connV, exit_thread_now, telV, scnt, scon, logV,
                 closedAt>>

\* The steps that finish an operation the simulator thread has begun.
SimFinish ==
  \/ SimGetLoad \/ SimGetCount \/ SimGetChar \/ SimGetWrap
  \/ SimLoadConn \/ SimTestClosed \/ SimSend \/ SimMarkClosed
  \/ SimCloseSockets \/ SimJoin

\* Where the telnet thread is while remote_desc is set but the object is not
\* there yet, or is not there any more; where the other one uses the object.
Changing == {"opened", "alloc", "null", "clear"}
Writing == {"load", "test", "send", "mark"}

\* A crash ends the process; history follows every other step.
Watched(step) ==
  /\ sim # "crash"
  /\ step
  /\ exposed' = /\ sim' \in Writing \cup {"crash"}
                /\ (sim \in Writing /\ exposed) \/ tel' \in Changing

Next ==
  Watched(Client \/ TelnetThread \/ SimRead \/ SimWrite \/ SimClose \/ SimFinish)

Spec == Init /\ [][Next]_vars

\* Both threads are scheduled; the client and the emulated program may stop.
FairSpec == Spec /\ WF_vars(Watched(TelnetThread))
                 /\ WF_vars(Watched(SimFinish))
-------------------------------------------------------------------------------
(***************************************************************************)
(* However putch and getch overlap, the ring is addressed inside its       *)
(* array: the cell putch stores to, computed from an index that may not be *)
(* wrapped yet and from a stale count, and the cell getch reads.           *)
(***************************************************************************)
RingInBounds ==
  /\ tw \in Ring!Cell
  /\ sim # "wrap" => bptr \in Ring!Cell
  /\ cnt \in 0 .. BUF_SIZE

\* Between the operations of both threads.
Quiet == sim \notin Getting /\ tel \notin Putting

NothingLost == delivered \o Ring!Contents = accepted

(***************************************************************************)
(* As long as no putch overlapped a getch, the characters the machine has  *)
(* received and those waiting in the ring are together the characters      *)
(* putch accepted, in order; neither a disconnection nor a new client      *)
(* changes that (characters of a client that left are handed to the next). *)
(***************************************************************************)
FifoUnlessRaced == ~raced /\ Quiet => NothingLost

(***************************************************************************)
(* uart_telnet_write reads an object that is not there only if, during     *)
(* that very call, a connection was between its descriptor and its object: *)
(* begun but not allocated, or freed but not cleared.  Once remote_desc is *)
(* 0 again no write dies of an earlier connection, and none dies of one    *)
(* that stays.  Without a lock the code cannot promise more.               *)
(***************************************************************************)
DiesOfChangeOnly == sim = "crash" => exposed

(***************************************************************************)
(* uart_telnet_close wakes a telnet thread that waits in accept or recv:   *)
(* it then returns.                                                        *)
(***************************************************************************)
CloseBreaksWait == closedAt \in {"accept", "recv"} ~> sim = "closed"

(***************************************************************************)
(* "close local socket to break waiting for accept": uart_telnet_close     *)
(* returns.                                                                *)
(***************************************************************************)
CloseReturns == sim = "join" ~> sim = "closed"
===============================================================================
