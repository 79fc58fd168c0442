---------------------------- MODULE S3C2410_proofs ----------------------------
(***************************************************************************)
(* Proofs about the interrupt controller, timer 4 and the UARTs, for any   *)
(* UARTs, external lines, words the program writes and width of an int.    *)
(***************************************************************************)
EXTENDS S3C2410, WellFoundedInduction, TLAPS

\* s3c2410x_update_int makes the lines current, whatever it is entered with.
LEMMA UpdateMakesCurrent ==
  ASSUME NEW src, NEW sub, update_int(src, sub)
  PROVE  LinesCurrent'
BY DEF update_int, LinesCurrent, Requests, Line

\* A step that leaves the interrupt registers and the lines alone.
LEMMA CurrentStays ==
  ASSUME LinesCurrent, UNCHANGED <<intV, lineV>>
  PROVE  LinesCurrent'
BY DEF intV, lineV, LinesCurrent, Requests, Line, FromSub

LEMMA DirtyIsNotCurrent ==
  ASSUME dirty' = TRUE
  PROVE  LinesCurrent'
BY DEF LinesCurrent

\* What an access of the emulated program does to the lines.
LEMMA AccessCurrent ==
  ASSUME LinesCurrent, Access
  PROVE  LinesCurrent'
<1>1. ASSUME NEW d \in Words, WriteSRCPND(d) \/ WriteINTMSK(d) \/ WriteINTMOD(d)
      PROVE  LinesCurrent'
  BY <1>1, UpdateMakesCurrent, DirtyIsNotCurrent DEF WriteSRCPND, WriteINTMSK, WriteINTMOD
<1>2. ASSUME NEW d \in SUBSET SubBits, WriteSUBSRCPND(d) \/ WriteINTSUBMSK(d)
      PROVE  LinesCurrent'
  BY <1>2, DirtyIsNotCurrent DEF WriteSUBSRCPND, WriteINTSUBMSK
<1>3. ASSUME NEW d \in SUBSET Eint, WriteEINTMASK(d) \/ WriteEINTPEND(d)
      PROVE  LinesCurrent'
  BY <1>3, CurrentStays DEF WriteEINTMASK, WriteEINTPEND
<1>4. CASE ReadINTOFFSET \/ WriteINTPND
  BY <1>4, CurrentStays DEF ReadINTOFFSET, WriteINTPND
<1>5. ASSUME NEW on \in BOOLEAN, WriteTCON(on)
      PROVE  LinesCurrent'
  BY <1>5, CurrentStays DEF WriteTCON
<1>6. ASSUME NEW n \in Reload, WriteTCNTB4(n)
      PROVE  LinesCurrent'
  BY <1>6, CurrentStays DEF WriteTCNTB4
<1>7. ASSUME NEW u \in Uart, ReadURXH(u) \/ WriteUTXH(u)
      PROVE  LinesCurrent'
  BY <1>7, CurrentStays, UpdateMakesCurrent DEF ReadURXH, WriteUTXH
<1>8. ASSUME NEW u \in Uart, NEW ready \in BOOLEAN, WriteUTRSTAT(u, ready)
      PROVE  LinesCurrent'
  BY <1>8, CurrentStays DEF WriteUTRSTAT
<1>9. ASSUME NEW u \in Uart, NEW mode \in SUBSET {"rx", "tx"}, WriteUCON(u, mode)
      PROVE  LinesCurrent'
  BY <1>9, CurrentStays DEF WriteUCON
<1> QED
  BY <1>1, <1>2, <1>3, <1>4, <1>5, <1>6, <1>7, <1>8, <1>9 DEF Access

(***************************************************************************)
(* Whichever of the timer, the UARTs, the devices and the program moved    *)
(* last, NirqSig and NfiqSig are what the registers of both levels say     *)
(* unless INTMOD, SUBSRCPND or INTSUBMSK was written since the last        *)
(* s3c2410x_update_int.                                                    *)
(***************************************************************************)
THEOREM LinesAlwaysCurrent == Spec => []LinesCurrent
<1>1. Init => LinesCurrent
  BY DEF Init, LinesCurrent
<1>2. LinesCurrent /\ [Next]_vars => LinesCurrent'
  <2> SUFFICES ASSUME LinesCurrent, [Next]_vars PROVE LinesCurrent'
    OBVIOUS
  <2>1. CASE SkipCycle
    BY <2>1, CurrentStays DEF SkipCycle
  <2>2. ASSUME NEW got \in SUBSET Uart, DoCycle(got) PROVE LinesCurrent'
    BY <2>2, UpdateMakesCurrent DEF DoCycle
  <2>3. CASE Access
    BY <2>3, AccessCurrent
  <2>4. CASE Reset
    BY <2>4, DirtyIsNotCurrent DEF Reset
  <2>5. ASSUME NEW x \in Eint, DeviceInterrupt(x) PROVE LinesCurrent'
    BY <2>5, UpdateMakesCurrent DEF DeviceInterrupt
  <2>6. CASE UNCHANGED vars
    BY <2>6, CurrentStays DEF vars
  <2> QED
    BY <2>1, <2>2, <2>3, <2>4, <2>5, <2>6 DEF Next, Cycle
<1> QED
  BY <1>1, <1>2, PTL DEF Spec
-------------------------------------------------------------------------------
\* The parts of TypeOK, by the variables that change together.
IntOK == /\ srcpnd \subseteq Bits /\ intmsk \subseteq Bits /\ intmod \subseteq Bits
         /\ subsrcpnd \subseteq SubBits /\ intsubmsk \subseteq SubBits
OffsetOK == intoffset \in Bits
EintOK == eintpend \subseteq Eint /\ eintmask \subseteq 4 .. 23
LineOK == NirqSig \in {"LOW", "HIGH"} /\ NfiqSig \in {"LOW", "HIGH"} /\ dirty \in BOOLEAN
TimerOK == /\ running \in BOOLEAN /\ tcnt \in Int32 /\ tcntb \in Int32
           /\ elapsed \in -1 .. IntMax + 1 /\ period \in -1 .. IntMax + 2
UartOK == rdy \subseteq Uart /\ ucon \in [Uart -> SUBSET {"rx", "tx"}] /\ acked \subseteq Uart
PrescaleOK == prescale \in 0 .. DIVISOR

(***************************************************************************)
(* While timer 4 is not disturbed its counter says how long ago it         *)
(* expired: counting down from TCNTB4, at once when that is negative, or,  *)
(* from the smallest int, the whole way round.                             *)
(***************************************************************************)
Least == -IntMax - 1
CounterTells ==
  elapsed # -1 =>
    \/ tcntb >= 0 /\ tcnt >= 0 /\ elapsed = tcntb - tcnt
    \/ tcntb < 0 /\ tcnt = tcntb /\ elapsed = 0
    \/ tcntb = Least /\ tcnt >= 0 /\ elapsed = IntMax + 1 - tcnt

Periodic ==
  period # -1 => \/ tcntb >= 0 /\ period = tcntb + 1
                 \/ tcntb < 0 /\ period \in {1, IntMax + 2}

TimerInv == TimerOK /\ CounterTells /\ Periodic
MachInv == IntOK /\ OffsetOK /\ EintOK /\ LineOK /\ TimerInv /\ UartOK /\ PrescaleOK

LEMMA InvariantTyped == MachInv => TypeOK /\ TimerPeriod
<1> SUFFICES ASSUME MachInv PROVE TypeOK /\ TimerPeriod
  OBVIOUS
<1>1. TypeOK
  BY DEF MachInv, IntOK, OffsetOK, EintOK, LineOK, TimerInv, TimerOK, UartOK, PrescaleOK, TypeOK
<1>2. TimerPeriod
  BY MachConstants
  DEF MachInv, TimerInv, TimerOK, CounterTells, Periodic, Least, Int32, TimerPeriod
<1> QED
  BY <1>1, <1>2

\* Every main request that the second level or an external line raises is a bit.
LEMMA RequestsAreBits ==
  ASSUME NEW sub, NEW mask
  PROVE  FromSub(sub, mask) \subseteq Bits /\ FromExt \subseteq Bits
<1>1. \A u \in 0 .. 2 : INT_UART(u) \in Bits
  BY DEF INT_UART, Bits
<1>2. FromSub(sub, mask) \subseteq Bits
  BY <1>1, MachConstants DEF FromSub
<1>3. FromExt \subseteq Bits
  BY DEF FromExt, INT_EINT4_7, INT_EINT8_23, Bits
<1> QED
  BY <1>2, <1>3

LEMMA UpdateTyped ==
  ASSUME NEW src \in SUBSET Bits, NEW sub \in SUBSET SubBits, update_int(src, sub),
         intmsk' \subseteq Bits, intmod' \subseteq Bits, intsubmsk' \subseteq SubBits
  PROVE  IntOK' /\ LineOK'
<1>1. SubPending(sub) \subseteq SubBits
  BY DEF SubPending, SubBits
<1>2. subsrcpnd' \subseteq SubBits
  BY <1>1 DEF update_int
<1>3. srcpnd' \subseteq Bits
  BY RequestsAreBits DEF update_int
<1>4. NirqSig' \in {"LOW", "HIGH"} /\ NfiqSig' \in {"LOW", "HIGH"}
  BY DEF update_int, Line
<1>5. dirty' \in BOOLEAN
  BY Zenon DEF update_int
<1> QED
  BY <1>2, <1>3, <1>4, <1>5 DEF IntOK, LineOK

\* One io cycle of timer 4, the decrement of the smallest int included.
LEMMA TimerStep ==
  ASSUME TimerInv, Timer, UNCHANGED <<running, tcntb>>
  PROVE  TimerInv'
<1> USE MachConstants DEF TimerInv, TimerOK, CounterTells, Periodic, Least, Int32
<1>1. CASE ~running
  <2>1. ~Expires
    BY <1>1 DEF Expires
  <2>2. tcnt' = tcnt /\ elapsed' = elapsed /\ period' = period
    BY <1>1, <2>1 DEF Timer, Observe
  <2> QED
    BY <2>2
<1>2. CASE running /\ Dec(tcnt) < 0
  <2>1. Expires
    BY <1>2 DEF Expires
  <2>2. /\ tcnt' = tcntb /\ elapsed' = 0
        /\ period' = IF elapsed = -1 THEN -1 ELSE elapsed + 1
    BY <1>2, <2>1 DEF Timer, Observe
  <2>3. tcnt <= 0 /\ tcnt # Least
    BY <1>2 DEF Dec
  <2>4. period' \in -1 .. IntMax + 2 /\ Periodic'
    BY <2>2, <2>3
  <2>5. CounterTells'
    BY <2>2
  <2> QED
    BY <2>2, <2>4, <2>5
<1>3. CASE running /\ ~(Dec(tcnt) < 0)
  <2>1. ~Expires
    BY <1>3 DEF Expires
  <2>2. /\ tcnt' = Dec(tcnt) /\ period' = period
        /\ elapsed' = IF elapsed # -1 THEN elapsed + 1 ELSE elapsed
    BY <1>3, <2>1 DEF Timer, Observe
  <2>3. \/ tcnt = Least /\ Dec(tcnt) = IntMax
        \/ tcnt >= 1 /\ Dec(tcnt) = tcnt - 1
    BY <1>3 DEF Dec
  <2>4. CounterTells' /\ elapsed' \in -1 .. IntMax + 1
    BY <2>2, <2>3
  <2> QED
    BY <2>2, <2>3, <2>4
<1> QED
  BY <1>1, <1>2, <1>3

\* Unchanged variables keep their part of the invariant.
LEMMA PartsStay ==
  ASSUME MachInv
  PROVE  /\ UNCHANGED <<intV, lineV>> => IntOK' /\ LineOK'
         /\ UNCHANGED intoffset => OffsetOK'
         /\ UNCHANGED eintV => EintOK'
         /\ UNCHANGED timerV => TimerInv'
         /\ UNCHANGED uartV => UartOK'
         /\ UNCHANGED prescale => PrescaleOK'
BY DEF MachInv, intV, lineV, eintV, timerV, uartV, IntOK, LineOK, OffsetOK, EintOK,
       TimerInv, TimerOK, CounterTells, Periodic, UartOK, PrescaleOK

\* An access that ends in s3c2410x_update_int and changes no device.
LEMMA UpdatingAccess ==
  ASSUME MachInv, NEW src \in SUBSET Bits, NEW sub \in SUBSET SubBits, update_int(src, sub),
         intmsk' \subseteq Bits, UNCHANGED <<intmod, intsubmsk, intoffset>>, EintOK',
         UNCHANGED <<timerV, uartV, prescale>>
  PROVE  MachInv'
<1>1. IntOK' /\ LineOK'
  BY UpdateTyped DEF MachInv, IntOK
<1> QED
  BY <1>1, PartsStay DEF MachInv

\* The search for the lowest pending source ends at one.
LEMMA LeastBit ==
  ASSUME NEW S \in SUBSET Bits, S # {}
  PROVE  \E i \in S : \A j \in S : i <= j
<1>1. S \subseteq Nat
  BY DEF Bits
<1>2. PICK i \in S : \A j \in S : ~ (<<j, i>> \in OpToRel(<, Nat))
  BY <1>1, NatLessThanWellFounded, WFMin, Zenon
<1>3. \A j \in S : ~ (j < i)
  BY <1>1, <1>2 DEF OpToRel
<1> QED
  BY <1>1, <1>3

LEMMA MachAccess ==
  ASSUME MachInv, Access
  PROVE  MachInv'
<1> USE MachConstants
<1>1. ASSUME NEW d \in Words, WriteSRCPND(d)
      PROVE  MachInv'
  BY <1>1, UpdatingAccess, PartsStay DEF WriteSRCPND, MachInv, IntOK, EintOK, eintV
<1>2. ASSUME NEW d \in Words, WriteINTMSK(d)
      PROVE  MachInv'
  BY <1>2, UpdatingAccess, PartsStay DEF WriteINTMSK, MachInv, IntOK, EintOK, eintV
<1>3. ASSUME NEW d \in Words, WriteINTMOD(d)
      PROVE  MachInv'
  <2>1. IntOK' /\ LineOK'
    BY <1>3 DEF WriteINTMOD, MachInv, IntOK, LineOK
  <2> QED
    BY <1>3, <2>1, PartsStay DEF WriteINTMOD, MachInv
<1>4. ASSUME NEW d \in SUBSET SubBits, WriteSUBSRCPND(d)
      PROVE  MachInv'
  <2>1. IntOK' /\ LineOK' /\ UartOK'
    BY <1>4 DEF WriteSUBSRCPND, MachInv, IntOK, LineOK, UartOK
  <2> QED
    BY <1>4, <2>1, PartsStay DEF WriteSUBSRCPND, MachInv
<1>5. ASSUME NEW d \in SUBSET SubBits, WriteINTSUBMSK(d)
      PROVE  MachInv'
  <2>1. IntOK' /\ LineOK'
    BY <1>5 DEF WriteINTSUBMSK, MachInv, IntOK, LineOK
  <2> QED
    BY <1>5, <2>1, PartsStay DEF WriteINTSUBMSK, MachInv
<1>6. ASSUME NEW d \in SUBSET Eint, WriteEINTMASK(d) \/ WriteEINTPEND(d)
      PROVE  MachInv'
  <2>1. EintOK'
    BY <1>6 DEF WriteEINTMASK, WriteEINTPEND, MachInv, EintOK
  <2> QED
    BY <1>6, <2>1, PartsStay DEF WriteEINTMASK, WriteEINTPEND, MachInv
<1>7. CASE ReadINTOFFSET
  <2>1. PICK i \in srcpnd : \A j \in srcpnd : i <= j
    BY <1>7, LeastBit DEF ReadINTOFFSET, MachInv, IntOK
  <2>2. intoffset' \in srcpnd
    BY <1>7, <2>1 DEF ReadINTOFFSET
  <2> QED
    BY <1>7, <2>2, PartsStay DEF ReadINTOFFSET, MachInv, IntOK, OffsetOK
<1>8. CASE WriteINTPND
  <2>1. OffsetOK'
    BY <1>8 DEF WriteINTPND, OffsetOK, Bits
  <2> QED
    BY <1>8, <2>1, PartsStay DEF WriteINTPND, MachInv
<1>9. ASSUME NEW on \in BOOLEAN, WriteTCON(on)
      PROVE  MachInv'
  <2>1. TimerInv'
    BY <1>9 DEF WriteTCON, MachInv, TimerInv, TimerOK, CounterTells, Periodic
  <2> QED
    BY <1>9, <2>1, PartsStay DEF WriteTCON, MachInv
<1>10. ASSUME NEW n \in Reload, WriteTCNTB4(n)
       PROVE  MachInv'
  <2>1. ToInt(n) \in Int32
    BY <1>10 DEF ToInt, Int32
  <2>2. TimerInv'
    BY <1>10, <2>1 DEF WriteTCNTB4, MachInv, TimerInv, TimerOK, CounterTells, Periodic
  <2> QED
    BY <1>10, <2>2, PartsStay DEF WriteTCNTB4, MachInv
<1>11. ASSUME NEW u \in Uart, ReadURXH(u)
       PROVE  MachInv'
  <2>1. UartOK'
    BY <1>11 DEF ReadURXH, MachInv, UartOK
  <2> QED
    BY <1>11, <2>1, PartsStay DEF ReadURXH, MachInv
<1>12. ASSUME NEW u \in Uart, WriteUTXH(u)
       PROVE  MachInv'
  <2>1. subsrcpnd \cup {TXD(u)} \in SUBSET SubBits
    BY <1>12 DEF MachInv, IntOK, SubBits
  <2> QED
    BY <1>12, <2>1, UpdatingAccess, PartsStay DEF WriteUTXH, MachInv, IntOK, eintV
<1>13. ASSUME NEW u \in Uart, NEW ready \in BOOLEAN, WriteUTRSTAT(u, ready)
       PROVE  MachInv'
  <2>1. UartOK'
    BY <1>13 DEF WriteUTRSTAT, MachInv, UartOK
  <2> QED
    BY <1>13, <2>1, PartsStay DEF WriteUTRSTAT, MachInv
<1>14. ASSUME NEW u \in Uart, NEW mode \in SUBSET {"rx", "tx"}, WriteUCON(u, mode)
       PROVE  MachInv'
  <2>1. UartOK'
    BY <1>14 DEF WriteUCON, MachInv, UartOK
  <2> QED
    BY <1>14, <2>1, PartsStay DEF WriteUCON, MachInv
<1> QED
  BY <1>1, <1>2, <1>3, <1>4, <1>5, <1>6, <1>7, <1>8, <1>9, <1>10, <1>11, <1>12, <1>13, <1>14
  DEF Access

LEMMA MachCycle ==
  ASSUME MachInv, Cycle
  PROVE  MachInv'
<1> USE MachConstants
<1>1. CASE SkipCycle
  <2>1. PrescaleOK'
    BY <1>1 DEF SkipCycle, MachInv, PrescaleOK
  <2> QED
    BY <1>1, <2>1, PartsStay DEF SkipCycle, MachInv
<1>2. ASSUME NEW got \in SUBSET Uart, DoCycle(got)
      PROVE  MachInv'
  <2>1. srcpnd \cup (IF Expires THEN {INT_TIMER4} ELSE {}) \in SUBSET Bits
    BY DEF MachInv, IntOK, INT_TIMER4, Bits
  <2>2. subsrcpnd \cup {RXD(u) : u \in got} \in SUBSET SubBits
    BY DEF MachInv, IntOK, SubBits
  <2>3. IntOK' /\ LineOK'
    BY <1>2, <2>1, <2>2, UpdateTyped DEF DoCycle, MachInv, IntOK
  <2>4. TimerInv'
    BY <1>2, TimerStep DEF DoCycle, MachInv
  <2>5. UartOK' /\ PrescaleOK'
    BY <1>2 DEF DoCycle, MachInv, UartOK, PrescaleOK
  <2> QED
    BY <1>2, <2>3, <2>4, <2>5, PartsStay DEF DoCycle, MachInv
<1> QED
  BY <1>1, <1>2 DEF Cycle

\* The inductive invariant behind the next theorems.
LEMMA MachInvariant == Spec => []MachInv
<1>1. Init => MachInv
  <2> SUFFICES ASSUME Init PROVE MachInv
    OBVIOUS
  <2>1. IntOK /\ OffsetOK /\ EintOK
    BY DEF Init, IntOK, OffsetOK, EintOK, Bits
  <2>2. dirty \in BOOLEAN /\ running \in BOOLEAN
    BY Zenon DEF Init
  <2>3. LineOK
    BY <2>2 DEF Init, LineOK
  <2>4. TimerInv
    BY <2>2, MachConstants DEF Init, TimerInv, TimerOK, CounterTells, Periodic, Int32
  <2>5. UartOK /\ PrescaleOK
    BY MachConstants DEF Init, UartOK, PrescaleOK
  <2> QED
    BY <2>1, <2>3, <2>4, <2>5 DEF MachInv
<1>2. MachInv /\ [Next]_vars => MachInv'
  <2> SUFFICES ASSUME MachInv, [Next]_vars PROVE MachInv'
    OBVIOUS
  <2>1. CASE Cycle
    BY <2>1, MachCycle
  <2>2. CASE Access
    BY <2>2, MachAccess
  <2>3. CASE Reset
    <3>1. IntOK' /\ OffsetOK' /\ EintOK'
      BY <2>3 DEF Reset, IntOK, OffsetOK, EintOK, Bits
    <3>2. dirty' \in BOOLEAN /\ running' \in BOOLEAN
      BY <2>3, Zenon DEF Reset
    <3>3. LineOK'
      BY <2>3, <3>2 DEF Reset, LineOK
    <3>4. TimerInv'
      BY <2>3, <3>2, MachConstants
      DEF Reset, TimerInv, TimerOK, CounterTells, Periodic, Int32
    <3>5. UartOK' /\ PrescaleOK'
      BY <2>3, PartsStay DEF Reset, UartOK
    <3> QED
      BY <3>1, <3>3, <3>4, <3>5 DEF MachInv
  <2>4. ASSUME NEW x \in Eint, DeviceInterrupt(x) PROVE MachInv'
    <3>1. EintOK'
      BY <2>4 DEF DeviceInterrupt, MachInv, EintOK
    <3> QED
      BY <2>4, <3>1, UpdatingAccess DEF DeviceInterrupt, MachInv, IntOK
  <2>5. CASE UNCHANGED vars
    BY <2>5, PartsStay DEF vars, MachInv
  <2> QED
    BY <2>1, <2>2, <2>3, <2>4, <2>5 DEF Next
<1> QED
  BY <1>1, <1>2, PTL DEF Spec

(***************************************************************************)
(* The registers keep their types for every width of an int, the counter   *)
(* of timer 4 included, which a negative TCNTB4 sends the whole way round. *)
(***************************************************************************)
THEOREM RegistersTyped == Spec => []TypeOK
BY MachInvariant, InvariantTyped, PTL

(***************************************************************************)
(* Timer 4 interrupts exactly every TCNTB4 + 1 io cycles as long as the    *)
(* program leaves TCON and TCNTB4 alone, for every TCNTB4 that fits an     *)
(* int.                                                                    *)
(***************************************************************************)
THEOREM TimerKeepsPeriod == Spec => []TimerPeriod
BY MachInvariant, InvariantTyped, PTL
-------------------------------------------------------------------------------
\* s3c2410x_update_int clears no second level request.
LEMMA UpdateKeepsRequests ==
  ASSUME NEW src, NEW sub, update_int(src, sub)
  PROVE  sub \subseteq subsrcpnd'
BY DEF update_int, SubPending

\* A step that fills no receiver and clears no request without the program
\* having acknowledged it.
LEMMA SignalledStays ==
  ASSUME ReceiverSignalled, rdy' \subseteq rdy, acked \subseteq acked',
         subsrcpnd \subseteq subsrcpnd'
  PROVE  ReceiverSignalled'
BY DEF ReceiverSignalled

LEMMA SignalledAccess ==
  ASSUME ReceiverSignalled, rdy \subseteq Uart, Access
  PROVE  ReceiverSignalled'
<1>1. ASSUME NEW d \in Words, WriteSRCPND(d) \/ WriteINTMSK(d) \/ WriteINTMOD(d)
      PROVE  ReceiverSignalled'
  <2>1. subsrcpnd \subseteq subsrcpnd'
    BY <1>1, UpdateKeepsRequests DEF WriteSRCPND, WriteINTMSK, WriteINTMOD
  <2>2. UNCHANGED <<rdy, acked>>
    BY <1>1 DEF WriteSRCPND, WriteINTMSK, WriteINTMOD, uartV
  <2> QED
    BY <2>1, <2>2, SignalledStays
<1>2. ASSUME NEW d \in SUBSET SubBits, WriteSUBSRCPND(d)
      PROVE  ReceiverSignalled'
  BY <1>2 DEF WriteSUBSRCPND, ReceiverSignalled
<1>3. ASSUME NEW u \in Uart, WriteUTXH(u)
      PROVE  ReceiverSignalled'
  <2>1. subsrcpnd \subseteq subsrcpnd'
    BY <1>3, UpdateKeepsRequests DEF WriteUTXH
  <2> QED
    BY <1>3, <2>1, SignalledStays DEF WriteUTXH, uartV
<1>4. ASSUME NEW u \in Uart, NEW ready \in BOOLEAN, WriteUTRSTAT(u, ready)
      PROVE  ReceiverSignalled'
  BY <1>4 DEF WriteUTRSTAT, ReceiverSignalled, intV
<1>5. ASSUME NEW u \in Uart, ReadURXH(u)
      PROVE  ReceiverSignalled'
  BY <1>5, SignalledStays DEF ReadURXH, intV
<1>6. ASSUME NEW d, WriteINTSUBMSK(d) \/ WriteEINTMASK(d) \/ WriteEINTPEND(d)
      PROVE  ReceiverSignalled'
  BY <1>6, SignalledStays DEF WriteINTSUBMSK, WriteEINTMASK, WriteEINTPEND, intV, uartV
<1>7. ASSUME NEW n, WriteTCON(n) \/ WriteTCNTB4(n) \/ ReadINTOFFSET \/ WriteINTPND
      PROVE  ReceiverSignalled'
  BY <1>7, SignalledStays DEF WriteTCON, WriteTCNTB4, ReadINTOFFSET, WriteINTPND, intV, uartV
<1>8. ASSUME NEW u, NEW mode, WriteUCON(u, mode)
      PROVE  ReceiverSignalled'
  BY <1>8, SignalledStays DEF WriteUCON, intV
<1> QED
  BY <1>1, <1>2, <1>3, <1>4, <1>5, <1>6, <1>7, <1>8 DEF Access

(***************************************************************************)
(* No step of the timer, of a device or of another UART, and no access of  *)
(* the program but its SUBSRCPND or UTRSTAT write, takes away the request  *)
(* of a UART whose receiver is full and is therefore not polled again.     *)
(***************************************************************************)
THEOREM ReceiverKeepsRequest == Spec => []ReceiverSignalled
<1>1. Init => ReceiverSignalled
  BY DEF Init, ReceiverSignalled
<1>2. MachInv /\ ReceiverSignalled /\ [Next]_vars => ReceiverSignalled'
  <2> SUFFICES ASSUME MachInv, ReceiverSignalled, [Next]_vars PROVE ReceiverSignalled'
    OBVIOUS
  <2>1. CASE SkipCycle
    BY <2>1, SignalledStays DEF SkipCycle, intV, uartV
  <2>2. ASSUME NEW got \in SUBSET Uart, DoCycle(got) PROVE ReceiverSignalled'
    <3>1. subsrcpnd \cup {RXD(u) : u \in got} \subseteq subsrcpnd'
      BY <2>2, UpdateKeepsRequests DEF DoCycle
    <3> QED
      BY <2>2, <3>1 DEF DoCycle, ReceiverSignalled
  <2>3. CASE Access
    BY <2>3, SignalledAccess DEF MachInv, UartOK
  <2>4. CASE Reset
    BY <2>4 DEF Reset, ReceiverSignalled
  <2>5. ASSUME NEW x \in Eint, DeviceInterrupt(x) PROVE ReceiverSignalled'
    <3>1. subsrcpnd \subseteq subsrcpnd'
      BY <2>5, UpdateKeepsRequests DEF DeviceInterrupt
    <3> QED
      BY <2>5, <3>1, SignalledStays DEF DeviceInterrupt, uartV
  <2>6. CASE UNCHANGED vars
    BY <2>6, SignalledStays DEF vars, intV, uartV
  <2> QED
    BY <2>1, <2>2, <2>3, <2>4, <2>5, <2>6 DEF Next, Cycle
<1> QED
  BY <1>1, <1>2, MachInvariant, PTL DEF Spec
===============================================================================
