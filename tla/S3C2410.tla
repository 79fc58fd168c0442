-------------------------------- MODULE S3C2410 --------------------------------
(***************************************************************************)
(* The S3C2410 peripherals that raise interrupts (arch_arm/mach/           *)
(* skyeye_mach_s3c2410x.c): the two-level interrupt controller, timer 4    *)
(* and the UARTs, driven once every few instructions by io_do_cycle        *)
(* (memory/io.c) and in between by the emulated program, which reads and   *)
(* writes their registers in any order.                                    *)
(*                                                                         *)
(* A register of flags is the set of its bits.  UFSTAT bit 0 follows       *)
(* UTRSTAT bit 0 and is left out, like the registers that only store what  *)
(* was written (clock, memory controller, watchdog, UART line control).    *)
(***************************************************************************)
EXTENDS Integers

CONSTANTS Uart,     \* the UARTs, of 0 .. 2
          Eint,     \* the external interrupt lines devices use, of 4 .. 23
          Words,    \* bound: sets of main interrupt bits the program writes
          Reload,   \* bound: words the program writes to TCNTB4
          IntMax,   \* the largest int, 2^31 - 1 in the build
          DIVISOR   \* 50 in the build

INT_EINT4_7 == 4
INT_EINT8_23 == 5
INT_TIMER4 == 14
INT_UART(u) == <<28, 23, 15>>[u + 1]
RXD(u) == 3 * u
TXD(u) == 3 * u + 1
Bits == 0 .. 31
Int32 == -IntMax - 1 .. IntMax
\* A word stored in an int, and the decrement of an int, as compiled.
ToInt(w) == IF w > IntMax THEN w - 2 * (IntMax + 1) ELSE w
Dec(n) == IF n = -IntMax - 1 THEN IntMax ELSE n - 1
SubBits == UNION {{RXD(u), TXD(u)} : u \in Uart}

ASSUME MachConstants ==
  /\ Uart \subseteq 0 .. 2 /\ Eint \subseteq 4 .. 23
  /\ Words \subseteq SUBSET Bits /\ DIVISOR \in Nat
  /\ IntMax \in Nat /\ Reload \subseteq 0 .. 2 * IntMax + 1

VARIABLES srcpnd, intmsk, intmod, subsrcpnd, intsubmsk, intoffset,
          eintpend, eintmask,
          NirqSig, NfiqSig,   \* the lines to the CPU: "LOW" is a request
          running, tcnt, tcntb,       \* timer 4: TCON bit 20, TCNT, TCNTB
          rdy, ucon,          \* UTRSTAT bit 0; interrupt modes in UCON
          prescale,
          \* What happened, for the properties:
          dirty,     \* an interrupt register was written since update_int
          elapsed,   \* io cycles since timer 4 expired, -1: it was disturbed
          period,    \* io cycles of its last period, -1: it was disturbed
          acked      \* UARTs whose RXD was cleared since the last character

intV   == <<srcpnd, intmsk, intmod, subsrcpnd, intsubmsk>>
eintV  == <<eintpend, eintmask>>
lineV  == <<NirqSig, NfiqSig, dirty>>
timerV == <<running, tcnt, tcntb, elapsed, period>>
uartV  == <<rdy, ucon, acked>>
vars == <<intV, intoffset, eintV, lineV, timerV, uartV, prescale>>

\* s3c2410x_io_reset: all zero but the masks.  The signals are HIGH after
\* ARMul_Reset; prescale is a static.
Init ==
  /\ srcpnd = {} /\ intmsk = Bits /\ intmod = {}
  /\ subsrcpnd = {} /\ intsubmsk = {} /\ intoffset = 0
  /\ eintpend = {} /\ eintmask = 4 .. 23
  /\ NirqSig = "HIGH" /\ NfiqSig = "HIGH" /\ dirty = TRUE
  /\ running = FALSE /\ tcnt = 0 /\ tcntb = 0 /\ elapsed = -1 /\ period = -1
  /\ rdy = {} /\ ucon = [u \in Uart |-> {}] /\ acked = Uart
  /\ prescale = DIVISOR
-------------------------------------------------------------------------------
\* s3c2410x_update_subsrcint: every UART is always ready to transmit.
SubPending(sub) == sub \cup {TXD(u) : u \in Uart}

\* The main requests the second level raises.
FromSub(sub, mask) ==
  {INT_UART(u) : u \in {v \in Uart : {RXD(v), TXD(v)} \cap (sub \ mask) # {}}}

\* s3c2410x_update_extint
FromExt ==
  LET req == eintpend' \ eintmask'
  IN  {INT_EINT4_7 : e \in req \cap 4 .. 7}
        \cup {INT_EINT8_23 : e \in req \cap 8 .. 23}

Line(requests) == IF requests = {} THEN "HIGH" ELSE "LOW"

\* Mutant: the lines are only ever pulled down.
UpdateNeverRaises(src, sub) ==
  LET requests == srcpnd' \ intmsk'
  IN  /\ subsrcpnd' = SubPending(sub)
      /\ srcpnd' = src \cup FromSub(SubPending(sub), intsubmsk') \cup FromExt
      /\ NfiqSig' = IF requests \cap intmod' = {} THEN NfiqSig ELSE "LOW"
      /\ NirqSig' = IF requests \ intmod' = {} THEN NirqSig ELSE "LOW"
      /\ dirty' = FALSE

\* s3c2410x_update_int, entered with these pending bits.
update_int(src, sub) ==
  LET requests == srcpnd' \ intmsk'
  IN  /\ subsrcpnd' = SubPending(sub)
      /\ srcpnd' = src \cup FromSub(SubPending(sub), intsubmsk') \cup FromExt
      /\ NfiqSig' = Line(requests \cap intmod')
      /\ NirqSig' = Line(requests \ intmod')
      /\ dirty' = FALSE
-------------------------------------------------------------------------------
\* io_do_cycle, called for every instruction.

Expires == running /\ Dec(tcnt) < 0

\* What one more io cycle does to the observation.
Observe(expires) ==
  IF expires
    THEN elapsed' = 0 /\ period' = IF elapsed = -1 THEN -1 ELSE elapsed + 1
    ELSE /\ elapsed' = IF running /\ elapsed # -1 THEN elapsed + 1 ELSE elapsed
         /\ UNCHANGED period

\* Mutant: the counter is reloaded one io cycle early.
TimerEarly ==
  LET expires == running /\ tcnt - 1 <= 0
  IN  /\ tcnt' = IF ~running THEN tcnt ELSE IF expires THEN tcntb ELSE Dec(tcnt)
      /\ Observe(expires)

\* Timer 4 counts down below zero and starts again.
Timer ==
  /\ tcnt' = IF ~running THEN tcnt ELSE IF Expires THEN tcntb ELSE Dec(tcnt)
  /\ Observe(Expires)

\* A UART is read only when its last character was, and its receiver is on.
Receiving(got) == got \subseteq {u \in Uart : u \notin rdy /\ "rx" \in ucon[u]}

\* s3c2410x_io_do_cycle; got are the UARTs whose device had a character.
DoCycle(got) ==
  /\ prescale - 1 < 0
  /\ prescale' = DIVISOR
  /\ Timer
  /\ Receiving(got)
  /\ rdy' = rdy \cup got
  /\ acked' = acked \ got
  /\ UNCHANGED <<intmsk, intmod, intsubmsk, intoffset, eintV, running, tcntb, ucon>>
  /\ update_int(srcpnd \cup (IF Expires THEN {INT_TIMER4} ELSE {}),
                subsrcpnd \cup {RXD(u) : u \in got})

SkipCycle ==
  /\ prescale - 1 >= 0
  /\ prescale' = prescale - 1
  /\ UNCHANGED <<intV, intoffset, eintV, lineV, timerV, uartV>>

\* A debugger that connects resets the machine; the prescaler is not.
Reset ==
  /\ srcpnd' = {} /\ intmsk' = Bits /\ intmod' = {}
  /\ subsrcpnd' = {} /\ intsubmsk' = {} /\ intoffset' = 0
  /\ eintpend' = {} /\ eintmask' = 4 .. 23
  /\ NirqSig' = "HIGH" /\ NfiqSig' = "HIGH" /\ dirty' = TRUE
  /\ running' = FALSE /\ tcnt' = 0 /\ tcntb' = 0 /\ elapsed' = -1 /\ period' = -1
  /\ rdy' = {} /\ ucon' = [u \in Uart |-> {}] /\ acked' = Uart
  /\ UNCHANGED prescale

\* A device raises its line: mach_set_intr, then mach_update_intr.
DeviceInterrupt(e) ==
  /\ eintpend' = eintpend \cup {e}
  /\ UNCHANGED <<intmsk, intmod, intsubmsk, intoffset, eintmask, timerV, uartV,
                 prescale>>
  /\ update_int(srcpnd, subsrcpnd)
-------------------------------------------------------------------------------
\* The emulated program writes and reads registers.

WriteSRCPND(d) ==
  /\ UNCHANGED <<intmsk, intmod, intsubmsk, intoffset, eintV, timerV, uartV, prescale>>
  /\ update_int(srcpnd \ d, subsrcpnd)

\* Mutant: the mask is stored and nothing else.
WriteINTMSKOnly(d) ==
  /\ intmsk' = d
  /\ UNCHANGED <<srcpnd, intmod, subsrcpnd, intsubmsk, intoffset, eintV, lineV,
                 timerV, uartV, prescale>>

WriteINTMSK(d) ==
  /\ intmsk' = d
  /\ UNCHANGED <<intmod, intsubmsk, intoffset, eintV, timerV, uartV, prescale>>
  /\ update_int(srcpnd, subsrcpnd)

\* The other writes do not call update_int.
WriteINTMOD(d) ==
  /\ intmod' = d /\ dirty' = TRUE
  /\ UNCHANGED <<srcpnd, intmsk, subsrcpnd, intsubmsk, intoffset, eintV,
                 NirqSig, NfiqSig, timerV, uartV, prescale>>

\* Mutant: clearing any UART bit clears them all.
WriteSUBSRCPNDAll(d) ==
  /\ subsrcpnd' = {} /\ dirty' = TRUE
  /\ acked' = acked \cup {u \in Uart : RXD(u) \in d}
  /\ UNCHANGED <<srcpnd, intmsk, intmod, intsubmsk, intoffset, eintV,
                 NirqSig, NfiqSig, timerV, rdy, ucon, prescale>>

WriteSUBSRCPND(d) ==
  /\ subsrcpnd' = subsrcpnd \ d /\ dirty' = TRUE
  /\ acked' = acked \cup {u \in Uart : RXD(u) \in d}
  /\ UNCHANGED <<srcpnd, intmsk, intmod, intsubmsk, intoffset, eintV,
                 NirqSig, NfiqSig, timerV, rdy, ucon, prescale>>

WriteINTSUBMSK(d) ==
  /\ intsubmsk' = d /\ dirty' = TRUE
  /\ UNCHANGED <<srcpnd, intmsk, intmod, subsrcpnd, intoffset, eintV,
                 NirqSig, NfiqSig, timerV, uartV, prescale>>

\* Mutant: the search runs past the register when nothing is pending.
ReadINTOFFSETPastEnd ==
  /\ intoffset' = CHOOSE i \in srcpnd \cup {32} :
                    \A j \in srcpnd \cup {32} : i <= j
  /\ UNCHANGED <<intV, eintV, lineV, timerV, uartV, prescale>>

\* INTPND or INTOFFSET: the lowest pending source, masked or not.
ReadINTOFFSET ==
  /\ srcpnd # {}
  /\ intoffset' = CHOOSE i \in srcpnd : \A j \in srcpnd : i <= j
  /\ UNCHANGED <<intV, eintV, lineV, timerV, uartV, prescale>>

WriteINTPND ==
  /\ intoffset' = 0
  /\ UNCHANGED <<intV, eintV, lineV, timerV, uartV, prescale>>

\* The GPIO registers are matched first and end at 0xe0; EINTMASK and
\* EINTPEND are at 0xa4 and 0xa8, so gpio_ctl stores what is written to them.
GPIO_CTL_SIZE == 224
InGpio(offset) == offset < GPIO_CTL_SIZE

WriteEINTMASK(d) ==
  /\ eintmask' = IF InGpio(164) THEN eintmask ELSE d
  /\ UNCHANGED <<intV, intoffset, eintpend, lineV, timerV, uartV, prescale>>

WriteEINTPEND(d) ==
  /\ eintpend' = IF InGpio(168) THEN eintpend ELSE eintpend \ d
  /\ UNCHANGED <<intV, intoffset, eintmask, lineV, timerV, uartV, prescale>>

WriteTCON(on) ==
  /\ running' = on /\ elapsed' = -1 /\ period' = -1
  /\ UNCHANGED <<intV, intoffset, eintV, lineV, tcnt, tcntb, uartV, prescale>>

WriteTCNTB4(n) ==
  /\ tcntb' = ToInt(n) /\ elapsed' = -1 /\ period' = -1
  /\ UNCHANGED <<intV, intoffset, eintV, lineV, running, tcnt, uartV, prescale>>

WriteUCON(u, mode) ==
  /\ ucon' = [ucon EXCEPT ![u] = mode]
  /\ UNCHANGED <<intV, intoffset, eintV, lineV, timerV, rdy, acked, prescale>>

WriteUTRSTAT(u, ready) ==
  /\ rdy' = IF ready THEN rdy \cup {u} ELSE rdy \ {u}
  /\ acked' = IF ready THEN acked \cup {u} ELSE acked
  /\ UNCHANGED <<intV, intoffset, eintV, lineV, timerV, ucon, prescale>>

ReadURXH(u) ==
  /\ rdy' = rdy \ {u}
  /\ UNCHANGED <<intV, intoffset, eintV, lineV, timerV, ucon, acked, prescale>>

\* The character goes out; the interrupt is raised in interrupt mode only.
WriteUTXH(u) ==
  /\ "tx" \in ucon[u]
  /\ UNCHANGED <<intmsk, intmod, intsubmsk, intoffset, eintV, timerV, uartV, prescale>>
  /\ update_int(srcpnd, subsrcpnd \cup {TXD(u)})

Access ==
  \/ \E d \in Words : WriteSRCPND(d) \/ WriteINTMSK(d) \/ WriteINTMOD(d)
  \/ \E d \in SUBSET SubBits : WriteSUBSRCPND(d) \/ WriteINTSUBMSK(d)
  \/ \E d \in SUBSET Eint : WriteEINTMASK(d) \/ WriteEINTPEND(d)
  \/ ReadINTOFFSET \/ WriteINTPND
  \/ \E on \in BOOLEAN : WriteTCON(on)
  \/ \E n \in Reload : WriteTCNTB4(n)
  \/ \E u \in Uart : ReadURXH(u) \/ WriteUTXH(u)
  \/ \E u \in Uart, ready \in BOOLEAN : WriteUTRSTAT(u, ready)
  \/ \E u \in Uart, mode \in SUBSET {"rx", "tx"} : WriteUCON(u, mode)

Cycle == SkipCycle \/ \E got \in SUBSET Uart : DoCycle(got)

Next == Cycle \/ Access \/ Reset \/ \E e \in Eint : DeviceInterrupt(e)

Spec == Init /\ [][Next]_vars

\* ARMul_Emulate32 calls io_do_cycle for every instruction.
FairSpec == Spec /\ WF_vars(Cycle)
-------------------------------------------------------------------------------
TypeOK ==
  /\ srcpnd \subseteq Bits /\ intmsk \subseteq Bits /\ intmod \subseteq Bits
  /\ subsrcpnd \subseteq SubBits /\ intsubmsk \subseteq SubBits
  /\ intoffset \in Bits
  /\ eintpend \subseteq Eint /\ eintmask \subseteq 4 .. 23
  /\ NirqSig \in {"LOW", "HIGH"} /\ NfiqSig \in {"LOW", "HIGH"} /\ dirty \in BOOLEAN
  /\ running \in BOOLEAN /\ tcnt \in Int32 /\ tcntb \in Int32
  /\ elapsed \in -1 .. IntMax + 1 /\ period \in -1 .. IntMax + 2
  /\ rdy \subseteq Uart /\ ucon \in [Uart -> SUBSET {"rx", "tx"}] /\ acked \subseteq Uart
  /\ prescale \in 0 .. DIVISOR

Requests == srcpnd \ intmsk

(***************************************************************************)
(* Unless an interrupt register that does not call s3c2410x_update_int was *)
(* written since, both lines are what the registers say, and every second  *)
(* level request that is not masked has its main request: whichever of the *)
(* timer, the UARTs, the devices and the program moved last.               *)
(***************************************************************************)
LinesCurrent ==
  ~dirty =>
    /\ NirqSig = Line(Requests \ intmod)
    /\ NfiqSig = Line(Requests \cap intmod)
    /\ FromSub(subsrcpnd, intsubmsk) \subseteq srcpnd

(***************************************************************************)
(* Timer 4 interrupts every TCNTB4 + 1 io cycles: a period the program did *)
(* not disturb has exactly that length, and no longer one is under way.    *)
(* (A word above IntMax is negative and interrupts in every cycle.)        *)
(***************************************************************************)
TimerPeriod ==
  tcntb >= 0 => period \in {-1, tcntb + 1} /\ elapsed <= tcntb

(***************************************************************************)
(* A received character keeps its interrupt pending until the program      *)
(* clears it: a UART is never left with a full receiver, which is not      *)
(* polled again, and no request, by anything but the program's own         *)
(* SUBSRCPND or UTRSTAT write after the character came.                    *)
(***************************************************************************)
ReceiverSignalled == \A u \in rdy : RXD(u) \in subsrcpnd \/ u \in acked

(***************************************************************************)
(* The IRQ line follows the registers: a request at either level that is   *)
(* not masked pulls it down and without one it is released, also when the  *)
(* write that made the difference (INTMOD, SUBSRCPND, INTSUBMSK) did not   *)
(* update the line itself: however often they change, the two always agree *)
(* again.                                                                  *)
(***************************************************************************)
IrqWanted ==
  ((srcpnd \cup FromSub(subsrcpnd, intsubmsk)) \ intmsk) \ intmod # {}

IrqLineFollows == []<>((NirqSig = "LOW") <=> IrqWanted)
================================================================================
