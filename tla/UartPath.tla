------------------------------- MODULE UartPath -------------------------------
(***************************************************************************)
(* A typed character on its way to the emulated program: from telnet_input *)
(* through the receive ring to one of the readers of the simulator thread, *)
(* skyeye_uart_read for one device or for all of them (device/uart/        *)
(* skyeye_uart.c), or, when a converter took the device over, the debug    *)
(* communication channel of coprocessor 14 (skyeye_uart_cvt_dcc.c).        *)
(*                                                                         *)
(* Device 0 is the telnet UART.  The others are stdio or pipe devices,     *)
(* whose reads return a character, nothing or a failure.                   *)
(***************************************************************************)
EXTENDS TelnetInput

CONSTANT Count   \* skyeye_config.uart.count, 1 .. MAX_UART_DEVICE_NUM

\* skyeye_config adds a stdio device when none was configured.
ASSUME PathConstants == Count \in 1 .. 8

Devices == 0 .. Count - 1

VARIABLES pc,           \* "idle", or "all": inside of skyeye_uart_read(-1)
          i, stop_flags,  \* of that call: device and devices that failed this round
          deadline,     \* "none": no timeout, "ahead" or "past"
          dcc,          \* the converter: not installed, empty, or its character
          \* For the property:
          owed,         \* characters the ring accepted and no read returned yet
          inOrder       \* every read returned the oldest of them

readVars == <<pc, i, stop_flags, deadline, dcc>>
vars == <<ringVars, result, parseVars, readVars, owed, inOrder>>

Off == [on |-> FALSE, full |-> FALSE, char |-> NoChar]
Empty == [Off EXCEPT !.on = TRUE]

\* skyeye_uart_converter_setup runs once, before the machine starts.
PathInit ==
  /\ InputInit
  /\ pc = "idle" /\ i = 0 /\ stop_flags = {} /\ deadline = "none"
  /\ dcc \in {Off, Empty}
  /\ owed = <<>> /\ inOrder = TRUE

TelnetThread ==
  /\ Telnet
  /\ owed' = IF cnt' > cnt THEN Append(owed, offered'[Len(offered')]) ELSE owed
  /\ UNCHANGED <<readVars, inOrder>>
-------------------------------------------------------------------------------
Delivered == <<owed, inOrder>>
\* A read returns c to the program.
Deliver(c) ==
  /\ inOrder' = (inOrder /\ owed # <<>> /\ Head(owed) = c)
  /\ owed' = IF owed = <<>> THEN owed ELSE Tail(owed)

Silent == UNCHANGED <<ringVars, result, Delivered>>

\* uart_telnet_read of one character: nothing from a device without a client.
telnet_read(got) ==
  \/ ~connected /\ got = 0 /\ Silent
  \/ connected /\ cnt = 0 /\ got = 0 /\ getch /\ UNCHANGED Delivered
  \/ connected /\ cnt # 0 /\ got = 1 /\ getch /\ Deliver(buf[bptr])

\* The read of device d: uart_dcc_read when the converter took device 0 over.
uart_read(d, got) ==
  \/ d = 0 /\ ~dcc.on /\ telnet_read(got)
  \/ d = 0 /\ dcc.on /\ got = -1 /\ Silent
  \/ d # 0 /\ Silent

\* skyeye_uart_read with the index of a device: the timeout is the device's.
ReadOne(d) ==
  /\ pc = "idle"
  /\ \E got \in {-1, 0, 1} : uart_read(d, got)
  /\ UNCHANGED <<parseVars, readVars>>

ReadAll(timeout) ==
  /\ pc = "idle"
  /\ pc' = "all"
  /\ deadline' = timeout
  /\ UNCHANGED <<ringVars, result, parseVars, i, stop_flags, dcc, Delivered>>

Return == pc' = "idle" /\ i' = 0 /\ stop_flags' = {} /\ deadline' = "none"

\* One device of a round; the first one with a character ends the call.
PollDevice ==
  /\ pc = "all"
  /\ i < Count
  /\ \/ uart_read(i, 1) /\ Return
     \/ \E got \in {-1, 0} :
          /\ uart_read(i, got)
          /\ i' = i + 1
          /\ stop_flags' = IF got < 0 THEN stop_flags \cup {i} ELSE stop_flags
          /\ UNCHANGED <<pc, deadline>>
  /\ UNCHANGED <<parseVars, dcc>>

NextRound == i' = 0 /\ stop_flags' = {} /\ UNCHANGED <<pc, deadline>>

\* Mutant: the deadline is not looked at while some device still works.
EndRoundForever ==
  /\ pc = "all" /\ i = Count
  /\ IF stop_flags = Devices THEN Return ELSE NextRound
  /\ UNCHANGED <<ringVars, result, parseVars, dcc, Delivered>>

\* The end of a round without a character: all failed, timeout, or another.
EndRound ==
  /\ pc = "all"
  /\ i = Count
  /\ IF stop_flags = Devices \/ deadline = "past" THEN Return ELSE NextRound
  /\ UNCHANGED <<ringVars, result, parseVars, dcc, Delivered>>

TimePasses ==
  /\ deadline = "ahead"
  /\ deadline' = "past"
  /\ UNCHANGED <<ringVars, result, parseVars, pc, i, stop_flags, dcc, Delivered>>

Keeps == UNCHANGED <<parseVars, pc, i, stop_flags, deadline>>

\* Mutant: the control register fetches over a character that still waits.
DccControlOver ==
  /\ dcc.on /\ pc = "idle" /\ connected /\ cnt # 0
  /\ getch /\ dcc' = [Empty EXCEPT !.full = TRUE, !.char = buf[bptr]]
  /\ UNCHANGED Delivered /\ Keeps

\* The program reads the control register: a character is fetched if none waits.
DccControl ==
  /\ dcc.on /\ pc = "idle"
  /\ \/ (dcc.full \/ ~connected) /\ UNCHANGED <<ringVars, result, dcc>>
     \/ ~dcc.full /\ connected /\ cnt = 0 /\ getch /\ UNCHANGED dcc
     \/ /\ ~dcc.full /\ connected /\ cnt # 0
        /\ getch
        /\ dcc' = [Empty EXCEPT !.full = TRUE, !.char = buf[bptr]]
  /\ UNCHANGED Delivered /\ Keeps

\* The program reads the data register: zero when no character waits.
DccData ==
  /\ dcc.on /\ pc = "idle"
  /\ dcc' = Empty
  /\ IF dcc.full THEN Deliver(dcc.char) ELSE UNCHANGED Delivered
  /\ UNCHANGED <<ringVars, result>> /\ Keeps

Reader == PollDevice \/ EndRound

PathNext ==
  \/ TelnetThread
  \/ \E d \in Devices : ReadOne(d)
  \/ \E timeout \in {"none", "ahead"} : ReadAll(timeout)
  \/ Reader
  \/ TimePasses
  \/ DccControl \/ DccData

PathSpec == PathInit /\ [][PathNext]_vars

\* The simulator thread goes on with its loop, and time passes.
FairSpec == PathSpec /\ WF_vars(Reader) /\ WF_vars(TimePasses)
-------------------------------------------------------------------------------
Waiting == IF dcc.full THEN <<dcc.char>> ELSE <<>>

(***************************************************************************)
(* What the ring accepted reaches the program: read device by device, by   *)
(* a poll of all devices or through the converter, each character is       *)
(* returned once and in order, or still waits in the converter or in the   *)
(* ring, over any number of connections.                                   *)
(***************************************************************************)
ReachesProgram == inOrder /\ owed = Waiting \o Contents

(***************************************************************************)
(* A poll of all devices with a timeout returns, also when some devices    *)
(* fail in every round and others stay silent.  (With no device at all     *)
(* the loop would never end: stop_flags stays zero.)                       *)
(***************************************************************************)
ReadReturns == pc = "all" /\ deadline # "none" ~> pc = "idle"
===============================================================================
