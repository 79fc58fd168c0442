--------------------------- MODULE TelnetUart_proofs ---------------------------
(***************************************************************************)
(* Safety of the two threads of the telnet UART, for every size of the     *)
(* ring and any number of connections and characters: the ring is          *)
(* addressed inside its array however the threads overlap, what they do    *)
(* not do at the same time is not lost, and a write uses an object that is *)
(* not there only while a connection begins or ends.                       *)
(***************************************************************************)
EXTENDS TelnetUart, SequenceTheorems, TLAPS

\* The count and the indices.  While putch is between its test and its store to the
\* count, whatever the simulator thread stores to the count leaves room for one more.
Bounds ==
  /\ cnt \in 0 .. BUF_SIZE
  /\ tw \in Ring!Cell
  /\ bptr \in 0 .. BUF_SIZE
  /\ sim # "wrap" => bptr \in Ring!Cell
  /\ tel \in Putting => /\ cnt < BUF_SIZE
                        /\ tcnt \in 0 .. BUF_SIZE - 1
  /\ sim = "get2" => cnt > 0 /\ scnt \in 1 .. BUF_SIZE

\* From its allocation to its release the object of the connection is the published one.
Connected == {"init", "write", "recv", "free"} \cup Putting

Owned == /\ tel \in Connected => priv = conns /\ conns \in heap
         /\ remote_desc # 0 => tel \in Connected \cup Changing

\* The object a write is about to load, or has loaded, is there unless a connection
\* changed meanwhile; remote_desc was tested before.
Exposure == /\ sim \in Writing /\ tel \in Changing => exposed
            /\ sim = "load" => priv \in heap \/ exposed
            /\ sim \in {"test", "send", "mark"} => scon \in heap \/ exposed
            /\ sim = "crash" => exposed

\* The n characters from index b on of the array m.
Window(m, b, n) == [i \in 1 .. n |-> m[Ring!WriteIndex(b, i - 1)]]

Wrapped(b) == IF b >= BUF_SIZE THEN b - BUF_SIZE ELSE b

\* What has been delivered and what the ring holds, at each step of a getch.
Conserved ==
  accepted = delivered \o (CASE sim = "get3" -> Window(buf, bptr, cnt + 1)
                             [] sim = "wrap" -> Window(buf, Wrapped(bptr), cnt)
                             [] OTHER        -> Window(buf, bptr, cnt))

\* As long as no putch overlapped a getch the registers of both threads are up to date.
Alone ==
  /\ ~(tel \in Putting /\ sim \in Getting)
  /\ tel \in Putting => tcnt = cnt
  /\ tel \in {"store", "count"} => tw = Ring!WriteIndex(bptr, cnt)
  /\ tel = "count" => buf[tw] = typed
  /\ sim = "get2" => scnt = cnt
  /\ sim = "get3" => cnt < BUF_SIZE
  /\ Conserved

Logs == /\ buf \in [Ring!Cell -> Nat]
        /\ typed \in Nat
        /\ accepted \in Seq(Nat) /\ delivered \in Seq(Nat)

ThreadsInv == Bounds /\ Owned /\ Exposure /\ Logs /\ (~raced => Alone)
-------------------------------------------------------------------------------
\* The steps at the ring, and what every other step leaves alone.
RingStep == \/ TelPutLoad \/ TelPutIndex \/ TelPutStore \/ TelPutCount
            \/ SimGetLoad \/ SimGetCount \/ SimGetChar \/ SimGetWrap

Elsewhere == /\ UNCHANGED <<buf, bptr, cnt, accepted, delivered, raced, typed, tcnt, tw, scnt>>
             /\ tel' = tel \/ (tel \notin Putting /\ tel' \notin Putting)
             /\ sim' = sim \/ (sim \notin Getting /\ sim' \notin Getting)

LEMMA StepsElsewhere ==
  ASSUME [Next]_vars, ~RingStep
  PROVE  Elsewhere
<1> USE DEF ringV, connV, logV, simV, telV, Tel, Sim, Putting, Getting
<1>1. CASE Client
  BY <1>1 DEF RingStep, Elsewhere, Client, TelAccept, TelAcceptReset, AcceptError, ClientGone
<1>2. CASE TelnetThread
  <2>1. CASE TelTop \/ TelListen \/ TelAcceptFails \/ TelSetDesc \/ TelCloseListener
    BY <2>1 DEF Elsewhere, TelTop, TelListen, TelAcceptFails, AcceptError, TelSetDesc,
                TelCloseListener
  <2>2. CASE TelAlloc \/ TelInit \/ TelWrite
    BY <2>2 DEF Elsewhere, TelAlloc, TelInit, TelWrite
  <2>3. CASE TelRecvEnds \/ TelFree \/ TelNull \/ TelClear
    BY <2>3 DEF Elsewhere, TelRecvEnds, TelFree, TelNull, TelClear
  <2> QED
    BY <1>2, <2>1, <2>2, <2>3 DEF TelnetThread, RingStep
<1>3. CASE SimRead \/ SimWrite \/ SimClose
  BY <1>3 DEF Elsewhere, SimRead, SimWrite, SimClose
<1>4. CASE SimFinish
  <2>1. CASE SimLoadConn \/ SimTestClosed \/ SimSend
    BY <2>1 DEF Elsewhere, SimLoadConn, SimTestClosed, SimSend
  <2>2. CASE SimMarkClosed \/ SimCloseSockets \/ SimJoin
    BY <2>2 DEF Elsewhere, SimMarkClosed, SimCloseSockets, SimJoin
  <2> QED
    BY <1>4, <2>1, <2>2 DEF SimFinish, RingStep
<1>5. CASE UNCHANGED vars
  BY <1>5 DEF vars, Elsewhere
<1> QED
  BY <1>1, <1>2, <1>3, <1>4, <1>5 DEF Next, Watched

-------------------------------------------------------------------------------
\* The bounds.

LEMMA BoundsStep ==
  ASSUME Bounds, [Next]_vars
  PROVE  Bounds'
<1> USE TelnetConstants DEF Ring!Cell, Ring!WriteIndex, Putting, Getting, Tel, Sim
<1>1. CASE TelPutLoad
  BY <1>1 DEF Bounds, TelPutLoad, ringV, simV
<1>2. CASE TelPutIndex
  BY <1>2 DEF Bounds, TelPutIndex, ringV, simV
<1>3. CASE TelPutStore
  BY <1>3 DEF Bounds, TelPutStore, simV
<1>4. CASE TelPutCount
  BY <1>4 DEF Bounds, TelPutCount, simV
<1>5. CASE SimGetLoad
  BY <1>5 DEF Bounds, SimGetLoad, ringV, telV
<1>6. CASE SimGetCount
  BY <1>6 DEF Bounds, SimGetCount, telV
<1>7. CASE SimGetChar
  BY <1>7 DEF Bounds, SimGetChar, telV
<1>8. CASE SimGetWrap
  BY <1>8 DEF Bounds, SimGetWrap, telV
<1>9. CASE ~RingStep
  BY <1>9, StepsElsewhere DEF Bounds, Elsewhere
<1> QED
  BY <1>1, <1>2, <1>3, <1>4, <1>5, <1>6, <1>7, <1>8, <1>9 DEF RingStep

-------------------------------------------------------------------------------
\* The connection object.

LEMMA OwnedStep ==
  ASSUME Owned, [Next]_vars
  PROVE  Owned'
<1> USE DEF Owned, Connected, Changing, Putting, Tel, ringV, connV, logV, simV, telV
<1>1. CASE Client
  BY <1>1 DEF Client, TelAccept, TelAcceptReset, AcceptError, TelPutLoad, ClientGone
<1>2. CASE TelnetThread
  <2>1. CASE TelTop \/ TelListen \/ TelAcceptFails \/ TelSetDesc \/ TelCloseListener
    BY <2>1 DEF TelTop, TelListen, TelAcceptFails, AcceptError, TelSetDesc, TelCloseListener
  <2>2. CASE TelAlloc \/ TelInit \/ TelWrite
    BY <2>2 DEF TelAlloc, TelInit, TelWrite
  <2>3. CASE TelPutIndex \/ TelPutStore \/ TelPutCount
    BY <2>3 DEF TelPutIndex, TelPutStore, TelPutCount
  <2>4. CASE TelRecvEnds \/ TelFree \/ TelNull \/ TelClear
    BY <2>4 DEF TelRecvEnds, TelFree, TelNull, TelClear
  <2> QED
    BY <1>2, <2>1, <2>2, <2>3, <2>4 DEF TelnetThread
<1>3. CASE SimRead \/ SimWrite \/ SimClose
  BY <1>3 DEF SimRead, SimWrite, SimClose
<1>4. CASE SimFinish
  BY <1>4 DEF SimFinish, SimGetLoad, SimGetCount, SimGetChar, SimGetWrap, SimLoadConn,
              SimTestClosed, SimSend, SimMarkClosed, SimCloseSockets, SimJoin
<1>5. CASE UNCHANGED vars
  BY <1>5 DEF vars
<1> QED
  BY <1>1, <1>2, <1>3, <1>4, <1>5 DEF Next, Watched

\* What the telnet thread and the client do to the objects a write may use.
LEMMA OthersStep ==
  ASSUME Client \/ TelnetThread
  PROVE  /\ UNCHANGED <<sim, scon>>
         /\ heap \subseteq heap' \/ tel' \in Changing
         /\ priv' = priv \/ tel \in Changing
<1> USE DEF Changing, Tel, ringV, connV, logV, simV, telV
<1>1. CASE Client
  BY <1>1 DEF Client, TelAccept, TelAcceptReset, AcceptError, TelPutLoad, ClientGone
<1>2. CASE TelTop \/ TelListen \/ TelAcceptFails \/ TelSetDesc \/ TelCloseListener
  BY <1>2 DEF TelTop, TelListen, TelAcceptFails, AcceptError, TelSetDesc, TelCloseListener
<1>3. CASE TelAlloc \/ TelInit \/ TelWrite
  BY <1>3 DEF TelAlloc, TelInit, TelWrite
<1>4. CASE TelPutIndex \/ TelPutStore \/ TelPutCount
  BY <1>4 DEF TelPutIndex, TelPutStore, TelPutCount
<1>5. CASE TelRecvEnds \/ TelFree \/ TelNull \/ TelClear
  BY <1>5 DEF TelRecvEnds, TelFree, TelNull, TelClear
<1> QED
  BY <1>1, <1>2, <1>3, <1>4, <1>5 DEF TelnetThread

\* What the simulator thread does itself: it loads the pointer, and it dies only
\* of an object that is not there.
LEMMA SimStep ==
  ASSUME SimRead \/ SimWrite \/ SimClose \/ SimFinish
  PROVE  /\ UNCHANGED <<tel, priv, heap>>
         /\ sim' = "load" => remote_desc # 0
         /\ sim' = "test" => sim = "load" /\ scon' = priv
         /\ sim' \in {"send", "mark"} => sim \in {"test", "send"} /\ UNCHANGED scon
         /\ sim' = "crash" => sim \in {"test", "mark"} /\ scon \notin heap
<1> USE DEF Sim, ringV, connV, logV, telV
<1>1. CASE SimRead \/ SimWrite \/ SimClose
  BY <1>1 DEF SimRead, SimWrite, SimClose
<1>2. CASE SimGetLoad \/ SimGetCount \/ SimGetChar \/ SimGetWrap
  BY <1>2 DEF SimGetLoad, SimGetCount, SimGetChar, SimGetWrap
<1>3. CASE SimLoadConn \/ SimTestClosed \/ SimSend
  BY <1>3 DEF SimLoadConn, SimTestClosed, SimSend
<1>4. CASE SimMarkClosed \/ SimCloseSockets \/ SimJoin
  BY <1>4 DEF SimMarkClosed, SimCloseSockets, SimJoin
<1> QED
  BY <1>1, <1>2, <1>3, <1>4 DEF SimFinish

LEMMA ExposureStep ==
  ASSUME Owned, Exposure, [Next]_vars
  PROVE  Exposure'
<1>1. CASE UNCHANGED vars
  BY <1>1 DEF vars, connV, Exposure
<1>2. CASE Next
  <2>1. /\ sim # "crash"
        /\ exposed' = (/\ sim' \in Writing \cup {"crash"}
                       /\ (sim \in Writing /\ exposed) \/ tel' \in Changing)
    BY <1>2 DEF Next, Watched
  <2>2. /\ sim' \in Writing \cup {"crash"} /\ tel' \in Changing => exposed'
        /\ sim' \in Writing \cup {"crash"} /\ sim \in Writing /\ exposed => exposed'
    BY <2>1, Zenon
  <2>3. CASE Client \/ TelnetThread
    <3>1. /\ UNCHANGED <<sim, scon>>
          /\ heap \subseteq heap' \/ tel' \in Changing
          /\ priv' = priv \/ tel \in Changing
      BY <2>3, OthersStep
    <3> QED
      BY <2>1, <2>2, <3>1 DEF Exposure, Writing
  <2>4. CASE SimRead \/ SimWrite \/ SimClose \/ SimFinish
    <3>1. /\ UNCHANGED <<tel, priv, heap>>
          /\ sim' = "load" => remote_desc # 0
          /\ sim' = "test" => sim = "load" /\ scon' = priv
          /\ sim' \in {"send", "mark"} => sim \in {"test", "send"} /\ UNCHANGED scon
          /\ sim' = "crash" => sim \in {"test", "mark"} /\ scon \notin heap
      BY <2>4, SimStep
    <3>2. sim' = "load" => priv \in heap \/ tel \in Changing
      BY <3>1 DEF Owned
    <3> QED
      BY <2>2, <3>1, <3>2 DEF Exposure, Writing
  <2> QED
    BY <1>2, <2>3, <2>4 DEF Next, Watched
<1> QED
  BY <1>1, <1>2

-------------------------------------------------------------------------------
\* The ring as a queue.

LEMMA WindowTyped ==
  ASSUME NEW m \in [Ring!Cell -> Nat], NEW b \in Ring!Cell, NEW n \in 0 .. BUF_SIZE
  PROVE  Window(m, b, n) \in Seq(Nat) /\ Len(Window(m, b, n)) = n
<1>1. ASSUME NEW i \in 1 .. n
      PROVE  m[Ring!WriteIndex(b, i - 1)] \in Nat
  <2>1. Ring!WriteIndex(b, i - 1) \in Ring!Cell
    BY TelnetConstants DEF Ring!Cell, Ring!WriteIndex
  <2> QED
    BY <2>1
<1> QED
  BY <1>1, TelnetConstants DEF Window

\* A store to the cell behind the window is not seen in it.
LEMMA WindowStore ==
  ASSUME NEW m \in [Ring!Cell -> Nat], NEW b \in Ring!Cell, NEW n \in 0 .. BUF_SIZE - 1,
         NEW c \in Nat
  PROVE  Window([m EXCEPT ![Ring!WriteIndex(b, n)] = c], b, n) = Window(m, b, n)
<1>1. ASSUME NEW i \in 1 .. n
      PROVE  [m EXCEPT ![Ring!WriteIndex(b, n)] = c][Ring!WriteIndex(b, i - 1)]
               = m[Ring!WriteIndex(b, i - 1)]
  <2>1. /\ Ring!WriteIndex(b, i - 1) \in Ring!Cell
        /\ Ring!WriteIndex(b, i - 1) # Ring!WriteIndex(b, n)
    BY TelnetConstants DEF Ring!Cell, Ring!WriteIndex
  <2> QED
    BY <2>1
<1> QED
  BY <1>1 DEF Window

\* Counting one more character appends it.
LEMMA WindowGrows ==
  ASSUME NEW m \in [Ring!Cell -> Nat], NEW b \in Ring!Cell, NEW n \in 0 .. BUF_SIZE - 1
  PROVE  Window(m, b, n + 1) = Append(Window(m, b, n), m[Ring!WriteIndex(b, n)])
<1> DEFINE w == Window(m, b, n)
           c == m[Ring!WriteIndex(b, n)]
           long == Window(m, b, n + 1)
<1>1. /\ w \in Seq(Nat) /\ Len(w) = n
      /\ long \in Seq(Nat) /\ Len(long) = n + 1
  BY WindowTyped, TelnetConstants
<1>2. c \in Nat
  BY TelnetConstants DEF Ring!Cell, Ring!WriteIndex
<1>3. Append(w, c) \in Seq(Nat) /\ Len(Append(w, c)) = n + 1
  BY <1>1, <1>2
<1>4. ASSUME NEW i \in 1 .. n + 1
      PROVE  long[i] = Append(w, c)[i]
  <2>1. long[i] = m[Ring!WriteIndex(b, i - 1)]
    BY DEF Window
  <2>2. CASE i = n + 1
    <3>1. i - 1 = n
      BY <2>2
    <3>2. Append(w, c)[i] = c
      BY <1>1, <2>2
    <3> QED
      BY <2>1, <3>1, <3>2
  <2>3. CASE i # n + 1
    <3>1. i \in 1 .. n
      BY <2>3
    <3>2. Append(w, c)[i] = w[i]
      BY <1>1, <3>1
    <3>3. w[i] = m[Ring!WriteIndex(b, i - 1)]
      BY <3>1 DEF Window
    <3> QED
      BY <2>1, <3>2, <3>3
  <2> QED
    BY <2>2, <2>3
<1> HIDE DEF w, long
<1>5. long = Append(w, c)
  BY <1>1, <1>3, <1>4, SeqEqual
<1> QED
  BY <1>5 DEF w, long

\* The first character of a window, and the window without it.
LEMMA WindowShifts ==
  ASSUME NEW m \in [Ring!Cell -> Nat], NEW b \in Ring!Cell, NEW n \in 0 .. BUF_SIZE - 1
  PROVE  Window(m, b, n + 1) = <<m[b]>> \o Window(m, Wrapped(b + 1), n)
<1> DEFINE w == Window(m, Wrapped(b + 1), n)
           long == Window(m, b, n + 1)
<1>0. Wrapped(b + 1) \in Ring!Cell
  BY TelnetConstants DEF Ring!Cell, Wrapped
<1>1. /\ w \in Seq(Nat) /\ Len(w) = n
      /\ long \in Seq(Nat) /\ Len(long) = n + 1
  BY <1>0, WindowTyped, TelnetConstants
<1>2. m[b] \in Nat /\ <<m[b]>> \in Seq(Nat) /\ Len(<<m[b]>>) = 1
  OBVIOUS
<1>3. /\ <<m[b]>> \o w \in Seq(Nat) /\ Len(<<m[b]>> \o w) = n + 1
      /\ \A i \in 1 .. n + 1 : (<<m[b]>> \o w)[i] = IF i <= 1 THEN m[b] ELSE w[i - 1]
  <2> HIDE DEF w
  <2> QED
    BY <1>1, <1>2, ConcatProperties
<1>4. ASSUME NEW i \in 1 .. n + 1
      PROVE  long[i] = IF i <= 1 THEN m[b] ELSE w[i - 1]
  <2>1. long[i] = m[Ring!WriteIndex(b, i - 1)]
    BY DEF Window
  <2>2. CASE i <= 1
    BY <2>1, <2>2, TelnetConstants DEF Ring!Cell, Ring!WriteIndex
  <2>3. CASE ~(i <= 1)
    <3>1. i - 1 \in 1 .. n
      BY <2>3
    <3>2. w[i - 1] = m[Ring!WriteIndex(Wrapped(b + 1), i - 2)]
      BY <3>1 DEF Window
    <3>3. Ring!WriteIndex(Wrapped(b + 1), i - 2) = Ring!WriteIndex(b, i - 1)
      BY <3>1, TelnetConstants DEF Ring!Cell, Ring!WriteIndex, Wrapped
    <3> QED
      BY <2>1, <2>3, <3>2, <3>3
  <2> QED
    BY <2>2, <2>3
<1> HIDE DEF w, long
<1>5. long = <<m[b]>> \o w
  BY <1>1, <1>3, <1>4, SeqEqual
<1> QED
  BY <1>5 DEF w, long

-------------------------------------------------------------------------------
\* The characters.

LEMMA LogsStep ==
  ASSUME Logs, Bounds, [Next]_vars
  PROVE  Logs'
<1> USE TelnetConstants DEF Logs
<1>1. CASE TelPutLoad
  BY <1>1 DEF TelPutLoad, ringV
<1>2. CASE TelPutIndex
  BY <1>2 DEF TelPutIndex, ringV, logV
<1>3. CASE TelPutStore
  BY <1>3 DEF TelPutStore, logV
<1>4. CASE TelPutCount
  BY <1>4 DEF TelPutCount
<1>5. CASE SimGetLoad
  BY <1>5 DEF SimGetLoad, ringV, telV
<1>6. CASE SimGetCount
  BY <1>6 DEF SimGetCount, telV, logV
<1>7. CASE SimGetChar
  BY <1>7 DEF SimGetChar, telV, Bounds, Sim
<1>8. CASE SimGetWrap
  BY <1>8 DEF SimGetWrap, telV, logV
<1>9. CASE ~RingStep
  BY <1>9, StepsElsewhere DEF Elsewhere
<1> QED
  BY <1>1, <1>2, <1>3, <1>4, <1>5, <1>6, <1>7, <1>8, <1>9 DEF RingStep

LEMMA AloneStep ==
  ASSUME ThreadsInv, [Next]_vars, ~raced'
  PROVE  Alone'
<1> USE TelnetConstants DEF Putting, Getting, Tel, Sim
<1>0. ~raced /\ Alone /\ Bounds /\ Logs
  <2>1. CASE TelPutLoad
    BY <2>1, Zenon DEF ThreadsInv, TelPutLoad
  <2>2. CASE SimGetLoad
    BY <2>2, Zenon DEF ThreadsInv, SimGetLoad
  <2>3. CASE ~TelPutLoad /\ ~SimGetLoad
    BY <2>3, StepsElsewhere DEF ThreadsInv, RingStep, Elsewhere, TelPutIndex, TelPutStore,
       TelPutCount, SimGetCount, SimGetChar, SimGetWrap, logV
  <2> QED
    BY <2>1, <2>2, <2>3
<1>1. CASE TelPutLoad
  <2>1. ~(cnt < BUF_SIZE /\ sim \in Getting)
    BY <1>1, Zenon DEF TelPutLoad
  <2>2. cnt \in 0 .. BUF_SIZE
    BY <1>0 DEF Bounds
  <2> QED
    BY <1>0, <1>1, <2>1, <2>2 DEF Alone, Conserved, TelPutLoad, ringV, simV
<1>2. CASE TelPutIndex
  BY <1>0, <1>2 DEF Alone, Conserved, TelPutIndex, ringV, simV, logV
<1>3. CASE TelPutStore
  <2>1. /\ buf' = [buf EXCEPT ![Ring!WriteIndex(bptr, cnt)] = typed]
        /\ UNCHANGED <<bptr, cnt, typed, tw, tcnt, sim, scnt, accepted, delivered>>
        /\ tel = "store" /\ tel' = "count"
        /\ sim \notin Getting
    BY <1>0, <1>3 DEF TelPutStore, Alone, simV, logV
  <2>2. /\ bptr \in Ring!Cell /\ cnt \in 0 .. BUF_SIZE - 1 /\ typed \in Nat
        /\ buf \in [Ring!Cell -> Nat] /\ tw \in Ring!Cell
    BY <1>0, <2>1 DEF Bounds, Logs
  <2>3. Window(buf', bptr, cnt) = Window(buf, bptr, cnt)
    BY <2>1, <2>2, WindowStore
  <2>4. Conserved'
    BY <1>0, <2>1, <2>3 DEF Alone, Conserved
  <2>5. buf'[tw'] = typed'
    BY <1>0, <2>1, <2>2 DEF Alone
  <2> QED
    BY <1>0, <2>1, <2>4, <2>5 DEF Alone
<1>4. CASE TelPutCount
  <2>1. /\ cnt' = cnt + 1 /\ accepted' = Append(accepted, typed)
        /\ UNCHANGED <<buf, bptr, typed, sim, scnt, delivered>>
        /\ tel = "count" /\ tel' = "recv"
        /\ sim \notin Getting
    BY <1>0, <1>4 DEF TelPutCount, Alone, simV
  <2>2. /\ bptr \in Ring!Cell /\ cnt \in 0 .. BUF_SIZE - 1 /\ typed \in Nat
        /\ buf \in [Ring!Cell -> Nat] /\ delivered \in Seq(Nat)
    BY <1>0, <2>1 DEF Bounds, Logs
  <2>3. Window(buf, bptr, cnt + 1) = Append(Window(buf, bptr, cnt), typed)
    BY <1>0, <2>1, <2>2, WindowGrows DEF Alone
  <2>4. Window(buf, bptr, cnt) \in Seq(Nat)
    BY <2>2, WindowTyped
  <2>5. accepted = delivered \o Window(buf, bptr, cnt)
    BY <1>0, <2>1 DEF Alone, Conserved
  <2>6. Append(accepted, typed) = delivered \o Append(Window(buf, bptr, cnt), typed)
    <3> DEFINE w == Window(buf, bptr, cnt)
    <3> HIDE DEF w
    <3>0. w \in Seq(Nat) /\ <<typed>> \in Seq(Nat) /\ delivered \o w \in Seq(Nat)
      BY <2>2, <2>4, ConcatProperties DEF w
    <3>1. /\ Append(delivered \o w, typed) = (delivered \o w) \o <<typed>>
          /\ Append(w, typed) = w \o <<typed>>
      BY <2>2, <3>0, AppendIsConcat
    <3>2. (delivered \o w) \o <<typed>> = delivered \o (w \o <<typed>>)
      BY <2>2, <3>0, ConcatAssociative
    <3> QED
      BY <3>1, <3>2, <2>5 DEF w
  <2>7. Conserved'
    BY <2>1, <2>3, <2>6 DEF Conserved
  <2> QED
    BY <2>1, <2>7 DEF Alone
<1>5. CASE SimGetLoad
  <2>1. ~(cnt # 0 /\ tel \in Putting)
    BY <1>5, Zenon DEF SimGetLoad
  <2> QED
    BY <1>0, <1>5, <2>1 DEF Alone, Conserved, SimGetLoad, ringV, telV
<1>6. CASE SimGetCount
  <2>1. /\ cnt' = cnt - 1 /\ cnt \in 1 .. BUF_SIZE
        /\ UNCHANGED <<buf, bptr, accepted, delivered, tel, tcnt, tw, typed>>
        /\ sim = "get2" /\ sim' = "get3" /\ tel \notin Putting
    BY <1>0, <1>6 DEF SimGetCount, Alone, Bounds, telV, logV
  <2>2. cnt' + 1 = cnt
    BY <2>1
  <2>3. Conserved'
    BY <1>0, <2>1, <2>2 DEF Alone, Conserved
  <2> QED
    BY <2>1, <2>3 DEF Alone
<1>7. CASE SimGetChar
  <2>1. /\ delivered' = Append(delivered, buf[bptr]) /\ bptr' = bptr + 1
        /\ UNCHANGED <<buf, cnt, accepted, tel, tcnt, tw, typed>>
        /\ sim = "get3" /\ sim' = "wrap" /\ tel \notin Putting
    BY <1>0, <1>7 DEF SimGetChar, Alone, telV
  <2>2. /\ bptr \in Ring!Cell /\ cnt \in 0 .. BUF_SIZE - 1
        /\ buf \in [Ring!Cell -> Nat] /\ delivered \in Seq(Nat)
    BY <1>0, <2>1 DEF Bounds, Logs, Alone
  <2> DEFINE w == Window(buf, Wrapped(bptr + 1), cnt)
             c == buf[bptr]
  <2>3. w \in Seq(Nat) /\ c \in Nat
    <3>1. Wrapped(bptr + 1) \in Ring!Cell
      BY <2>2 DEF Ring!Cell, Wrapped
    <3> QED
      BY <2>2, <3>1, WindowTyped
  <2>4. accepted = delivered \o (<<c>> \o w)
    BY <1>0, <2>1, <2>2, WindowShifts DEF Alone, Conserved
  <2> HIDE DEF w, c
  <2>5. delivered \o (<<c>> \o w) = Append(delivered, c) \o w
    <3>1. <<c>> \in Seq(Nat)
      BY <2>3
    <3> QED
      BY <2>2, <2>3, <3>1, AppendIsConcat, ConcatAssociative
  <2>6. Conserved'
    BY <2>1, <2>4, <2>5 DEF Conserved, w, c
  <2> QED
    BY <2>1, <2>6 DEF Alone
<1>8. CASE SimGetWrap
  <2>1. /\ bptr' = Wrapped(bptr)
        /\ UNCHANGED <<buf, cnt, accepted, delivered, tel, tcnt, tw, typed>>
        /\ sim = "wrap" /\ sim' = "idle" /\ tel \notin Putting
    BY <1>0, <1>8 DEF SimGetWrap, Alone, Wrapped, telV, logV
  <2>2. Conserved'
    BY <1>0, <2>1 DEF Alone, Conserved
  <2> QED
    BY <2>1, <2>2 DEF Alone
<1>9. CASE ~RingStep
  BY <1>0, <1>9, StepsElsewhere DEF Alone, Conserved, Elsewhere
<1> QED
  BY <1>1, <1>2, <1>3, <1>4, <1>5, <1>6, <1>7, <1>8, <1>9 DEF RingStep

-------------------------------------------------------------------------------
LEMMA ThreadsInvariant == Spec => []ThreadsInv
<1>1. Init => ThreadsInv
  <2> SUFFICES ASSUME Init PROVE ThreadsInv
    OBVIOUS
  <2> USE TelnetConstants DEF Init, Ring!RingInit
  <2>1. Bounds /\ Owned /\ Exposure /\ Logs
    BY DEF Bounds, Owned, Exposure, Writing, Logs, Connected, Putting, Ring!Cell, NoChar
  <2>2. Window(buf, bptr, cnt) = <<>>
    BY DEF Window
  <2>3. Alone
    BY <2>2 DEF Alone, Conserved, Putting, Getting
  <2> QED
    BY <2>1, <2>3 DEF ThreadsInv
<1>2. ThreadsInv /\ [Next]_vars => ThreadsInv'
  BY BoundsStep, OwnedStep, ExposureStep, LogsStep, AloneStep DEF ThreadsInv
<1> QED
  BY <1>1, <1>2, PTL DEF Spec

(***************************************************************************)
(* However uart_telnet_putch and uart_telnet_getch overlap, with stale     *)
(* counts and an index that is not wrapped yet, no access leaves the array *)
(* and the count stays within it.                                          *)
(***************************************************************************)
THEOREM RingAlwaysInBounds == Spec => []RingInBounds
<1>1. ThreadsInv => RingInBounds
  BY DEF ThreadsInv, Bounds, RingInBounds
<1> QED
  BY <1>1, ThreadsInvariant, PTL

(***************************************************************************)
(* Until a putch overlaps a getch nothing typed is lost, repeated or       *)
(* reordered, whatever connections come and go.                            *)
(***************************************************************************)
THEOREM FifoUntilRaced == Spec => []FifoUnlessRaced
<1>1. ThreadsInv => FifoUnlessRaced
  <2> SUFFICES ASSUME ThreadsInv, ~raced, Quiet PROVE NothingLost
    BY DEF FifoUnlessRaced
  <2>1. accepted = delivered \o Window(buf, bptr, cnt)
    BY DEF ThreadsInv, Alone, Conserved, Quiet, Getting
  <2>2. Ring!Contents = Window(buf, bptr, cnt)
    BY DEF Ring!Contents, Window
  <2> QED
    BY <2>1, <2>2 DEF NothingLost
<1> QED
  BY <1>1, ThreadsInvariant, PTL

(***************************************************************************)
(* A write of the emulated program dies of a missing connection object     *)
(* only if a connection began or ended during that write, for any number   *)
(* of connections and every interleaving.                                  *)
(***************************************************************************)
THEOREM DiesOnlyOfChange == Spec => []DiesOfChangeOnly
<1>1. ThreadsInv => DiesOfChangeOnly
  BY DEF ThreadsInv, Exposure, DiesOfChangeOnly
<1> QED
  BY <1>1, ThreadsInvariant, PTL
================================================================================
