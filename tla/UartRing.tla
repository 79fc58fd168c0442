------------------------------- MODULE UartRing -------------------------------
(***************************************************************************)
(* The receive ring of the telnet UART (uart_telnet_putch and              *)
(* uart_telnet_getch, device/uart/skyeye_uart_telnet.c): an array buf, the *)
(* index bptr of the oldest character and the number cnt of characters.    *)
(*                                                                         *)
(* Here each operation is one step: this is the ring when the two threads  *)
(* that use it do not overlap.  TelnetUart takes the same operations apart *)
(* into the loads and stores of the two threads.                           *)
(***************************************************************************)
EXTENDS Integers, Sequences

CONSTANTS Char,      \* the characters that can be typed
          NoChar,    \* the zero byte of a cell never written
          BUF_SIZE   \* 16 in the build

ASSUME RingConstants == BUF_SIZE \in Nat \ {0} /\ NoChar \notin Char

VARIABLES buf, bptr, cnt,
          result     \* what the last operation returned

ringVars == <<buf, bptr, cnt>>

Cell == 0 .. BUF_SIZE - 1

\* w = bptr + cnt; if (w >= BUF_SIZE) w -= BUF_SIZE;
WriteIndex(b, c) == IF b + c >= BUF_SIZE THEN b + c - BUF_SIZE ELSE b + c

\* bptr++; if (bptr >= BUF_SIZE) bptr -= BUF_SIZE;
Advance(b) == IF b + 1 >= BUF_SIZE THEN b + 1 - BUF_SIZE ELSE b + 1

\* uart_telnet_open clears the device structure.
RingInit ==
  /\ buf = [i \in Cell |-> NoChar]
  /\ bptr = 0
  /\ cnt = 0

putch(c) ==
  \/ /\ cnt >= BUF_SIZE
     /\ result' = <<"put", c, 0>>
     /\ UNCHANGED ringVars
  \/ /\ cnt < BUF_SIZE
     /\ buf' = [buf EXCEPT ![WriteIndex(bptr, cnt)] = c]
     /\ cnt' = cnt + 1
     /\ result' = <<"put", c, 1>>
     /\ UNCHANGED bptr

\* Mutant: the index is advanced before the cell is read.
getch_preincrement ==
  /\ cnt # 0
  /\ cnt' = cnt - 1
  /\ result' = <<"get", buf[Advance(bptr)]>>
  /\ bptr' = Advance(bptr)
  /\ UNCHANGED buf

getch ==
  \/ /\ cnt = 0
     /\ result' = <<"get">>
     /\ UNCHANGED ringVars
  \/ /\ cnt # 0
     /\ cnt' = cnt - 1
     /\ result' = <<"get", buf[bptr]>>
     /\ bptr' = Advance(bptr)
     /\ UNCHANGED buf

Init == RingInit /\ result = <<>>
Next == getch \/ \E c \in Char : putch(c)
Spec == Init /\ [][Next]_<<ringVars, result>>
-------------------------------------------------------------------------------
\* The queue the ring stands for: cnt cells from bptr on.
Contents == [i \in 1 .. cnt |-> buf[WriteIndex(bptr, i - 1)]]

(***************************************************************************)
(* The index and the count stay inside the array and every cell counted    *)
(* holds a typed character.                                                *)
(***************************************************************************)
RingTypeOK ==
  /\ buf \in [Cell -> Char \cup {NoChar}]
  /\ bptr \in Cell
  /\ cnt \in 0 .. BUF_SIZE
  /\ \A i \in 0 .. cnt - 1 : buf[WriteIndex(bptr, i)] \in Char

(***************************************************************************)
(* Used by one thread at a time, the ring is the bounded queue of          *)
(* UartFifo: the wrap-around arithmetic loses, repeats and reorders        *)
(* nothing, and a character is refused only when BUF_SIZE are waiting.     *)
(***************************************************************************)
Fifo == INSTANCE UartFifo WITH queue <- Contents
ImplementsFifo == Fifo!Spec
===============================================================================
