------------------------------- MODULE UartFifo -------------------------------
(***************************************************************************)
(* What the telnet UART promises the machine: a bounded queue of           *)
(* characters.  A character that finds the queue full is dropped; a read   *)
(* of the empty queue returns nothing.                                     *)
(***************************************************************************)
EXTENDS Naturals, Sequences

CONSTANTS Char, BUF_SIZE

VARIABLES queue,
          result   \* what the last operation returned

Init == queue = <<>> /\ result = <<>>

Put(c) ==
  /\ Len(queue) < BUF_SIZE
  /\ queue' = Append(queue, c)
  /\ result' = <<"put", c, 1>>

Drop(c) ==
  /\ Len(queue) = BUF_SIZE
  /\ queue' = queue
  /\ result' = <<"put", c, 0>>

Get ==
  /\ queue # <<>>
  /\ queue' = Tail(queue)
  /\ result' = <<"get", Head(queue)>>

GetNothing ==
  /\ queue = <<>>
  /\ queue' = queue
  /\ result' = <<"get">>

Next == Get \/ GetNothing \/ \E c \in Char : Put(c) \/ Drop(c)

vars == <<queue, result>>

Spec == Init /\ [][Next]_vars
===============================================================================
