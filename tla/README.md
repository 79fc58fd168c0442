# A TLA+ verification project for Lusimus-Simulator

Lusimus-Simulator is a Windows port of SkyEye: it interprets ARM instructions,
emulates the peripherals of an S3C2410 board, offers the board's serial ports
over telnet and lets GDB control the emulated program over TCP. This directory
holds TLA+ models of the parts of it whose control is hard to test, the TLC
configurations that check them and TLAPS proofs of the safety of all but one of
them.

Paths below are relative to the repository.

## 1. Inventory

| Component | State | Operations | Interacts with |
|---|---|---|---|
| Breakpoint table (`utils/debugger/skyeye2gdb.c`) | array `bps`, counter `num_bps` | insert, remove | packet loop writes it, emulation loop reads it on every fetch |
| Run control (`skyeye2gdb.c`, `arch_arm/common/armemu32.c`, `arminit.c`) | `Emulate`, `Reg[15]`, `NextInstr`, poll counter | continue, step, write registers, reset, poll for Ctrl+C | packet loop calls it, it calls `io_do_cycle` and `remote_interrupt` |
| GDB packet link (`utils/debugger/gdbserver.c`) | socket, static buffer of `readchar`, packet buffer | `getpkt`, `putpkt`, `remote_interrupt`, accept | GDB on the other side; the running target reads the same socket |
| Telnet UART (`device/uart/skyeye_uart_telnet.c`, `telnet_server.c`) | ring, two descriptors, exit flag, connection object | thread: listen, accept, receive, free; simulator: read, write, close | two threads, no lock; the machine's UART reads it |
| S3C2410 interrupts (`arch_arm/mach/skyeye_mach_s3c2410x.c`) | pending, mask and mode registers of two levels, external lines, timer 4, UART status, CPU lines | io cycle, register reads and writes, device interrupts, reset | emulated program, devices, prescaler of `memory/io.c`, exception test of the emulation loop |
| Telnet option parser (`telnet_server.c`) | parser state | one per byte | feeds the ring |
| UART dispatcher (`device/uart/skyeye_uart.c`) | table of devices | read one or all with timeout, write, setup, cleanup | machines call it |
| NAND flash (`device/nandflash/nandflash_smallblock.c`, `dev_nandflash_s3c2410.c`) | command, address cycle, page buffers, dump file | command, address, data, erase, program, chip select, reset | the emulated program through the controller's registers |
| NOR flash (`device/flash/dev_flash_intel.c`) | write state machine, write buffer, lock bits, error bits | read, write | memory bus, whose bank holds its words |
| Memory bus (`memory/`) | bank table, cached bank, memory, prescaler | configuration, reset, read, write | every access |
| Tracepoints (`utils/debugger/gdb_tracepoint.c`) | tracepoints, frame list, selection | add, collect, select, clear | packet loop, every fetch |
| Network, LCD, touch screen, sound, host files (`device/`) | device registers | read, write, update | host I/O |
| MMU, TLB, caches (`arch_arm/common/mmu`) | two TLBs, two write-back caches, write buffer | fetch, read, write, CP15 operations, reset | every access of the emulated program; memory bus |
| ARM instructions, other architectures, configuration, BFD | | | sequential or vendored |

What is hard here, and what correctness means for it:

* **Two threads without a lock** (telnet UART): no access outside the ring, no
  lost character, no use of a connection object that is not there, and an end of
  the device that does not wait for ever.
* **One socket, three readers** (GDB link): `getpkt` reads through a static
  buffer, `putpkt` and `remote_interrupt` behind its back. Packets must be
  handled once and in order, answers must belong to their packets, and neither
  side may wait for the other.
* **A loop with many exits** (run control): breakpoints, steps, interrupts,
  aborts and Ctrl+C leave the interpreter at different places. No armed
  instruction may be executed and a stop must report a known address.
* **Registers that change lines** (S3C2410): some writes update the CPU lines,
  others do not; the timer, the UARTs and the program touch the same bits.
* **Fixed-size tables** (breakpoints, ring, tracepoints): limits, wrap-around and
  swap-with-last removal.
* **Command sequences** (NAND and NOR flash): a chip keeps its command, address
  and buffers between accesses, and the program may stop and start anywhere. A
  well-formed request must do what it says whatever came before it.
* **A chain of filters** (telnet bytes to UART reads): option negotiation, line
  ends, ring, dispatcher and debug channel each keep a piece of the stream.
* **Copies of memory** (MMU, bank cache, trace frames): several places hold the
  same word or a pointer to it, and each may be stale.

`PROJECT.json` lists each of these hazards at its line, with the properties that
cover it. What no property covers is in section 8.

## 2. Modules

    BreakpointSet <-- implemented by -- IceBreakpoints <-- DebugTarget
    UartFifo      <-- implemented by -- UartRing <-- TelnetInput <-- UartPath
                                        UartRing <-- (instanced by) TelnetUart
    MemoryBanks <-- NorFlash <-- MemoryBus <-- MCMemoryBus
    Tracepoints <-- MCTracepoints       Arm920tMmu <-- MCArm920tMmu
    S3C2410      NandFlash      GdbLink
    DebugTarget_proofs, S3C2410_proofs, GdbLink_proofs, Arm920tMmu_proofs,
    TelnetUart_proofs, UartPath_proofs, MemoryBus_proofs, Tracepoints_proofs

An arrow without words reads "extended by". The MC modules only define values of
constants that a cfg cannot write. A proof module extends the module it is named
after; UartPath_proofs also has the theorems about UartRing and TelnetInput, and
DebugTarget_proofs those about IceBreakpoints.

**BreakpointSet** is the promise: a set of at most `MAX_BREAKPOINTS` addresses
and the answers to `Z` and `z` packets. **IceBreakpoints** is the code: `insert`
searches, refuses or appends; `remove` moves the last entry into the hole. Its
state is `bps` and `num_bps` under their own names, plus the last answer.

**DebugTarget** is the emulation loop under the debugger. One action is one
packet (`Insert`, `Remove`, `Watchpoint`, `Continue`, `Step`, `WriteRegisters`,
`Reconnect`) or one iteration of the loop of `ARMul_Emulate32` that ends in a
given way: `HitBreakpoint` (the test of `ARMul_ICE_debug`), `TakeIrq` (the
exception test, `ARMul_Abort`, and what `ARMul_DoProg` or `ARMul_DoInstr` makes
of it), `StepDone` (`Emulate < ONCE` on the second iteration) and `Execute` (the
instruction, `io_do_cycle`, the Ctrl+C poll and `TEST_EMULATE`). The pipeline
is there as in the code: `decoded` and `loaded` with the addresses kept beside
them, `Reg[15]` ahead of both, and `NextInstr`, whose values are taken in three
groups that fetch alike: `SEQ` (with NONSEQ), `PCINCED` (with its NONSEQ) and
`FLUSH` (RESUME and every other value). A word is known by its address. An
instruction may go on, with or without having advanced `Reg[15]`, go to any
address, change the I bit, or switch the byte order, which sets `CHANGEMODE`
(`armcopro.c:297`) and leaves the loop. A fetch from `Unmapped` yields
`ARMul_ABORTWORD`; `SwiWords` are the mapped addresses where the program itself
has that word, SWI 0xffffff. `due`, `last`, `ran` and `why` record what happened;
`due` follows the program alone and not the pipeline.

**UartFifo** is a bounded queue; **UartRing** is `uart_telnet_putch` and
`uart_telnet_getch` as single steps. **TelnetUart** takes both apart into the
loads and stores of the two threads and adds the accept loop, the connection
object and `uart_telnet_read`, `_write` and `_close`. The program counters `tel`
and `sim` name the next step of each thread. The update of `cnt` is a data race:
an operation may use the value it loaded first or load again, so both are
possible. A failing `send` is possible, not certain, once the connection ended.
Reading an object that is not on the heap is undefined and ends in `crash`;
`exposed` is history: a connection began or ended during this write.
A typed character is a data character there.

**TelnetInput** is what TelnetUart leaves out: the state machine of
`telnet_input`, which drops option negotiations and folds the two bytes of a line
end, byte by byte over the chunk that one `recv` returned (`chunk`). A client may
go and another come with a negotiation half sent. **UartPath** puts the readers
of the simulator thread behind it: `skyeye_uart_read` of one device and of all
of them, whose loop (`i`, `stop_flags`, `deadline`) takes a step per device so
that characters arrive in the middle of it, and the debug communication channel
(`dcc`), which may hold a character of its own. The other devices return
anything.

**S3C2410** keeps every flag register as the set of its bits. `DoCycle` is the
whole of `s3c2410x_io_do_cycle`, its final `s3c2410x_update_int` included, when
the prescaler of `io_do_cycle` lets it through; `SkipCycle` is a call that it
does not. Each register access that changes modelled state is an action, with
`update_int` where the code calls it and without where it does not. The timer
keeps the width of an `int` (`IntMax`). Writes to `EINTMASK` and `EINTPEND` are
swallowed by the GPIO branch, as in the code (`InGpio`), so external lines stay
masked as after reset.

**GdbLink** has the server's side of `getpkt` (`Hunt`, `GetBody`, `GetSum`),
`readchar` (`Read`, `ReadEof`), `putpkt` (`Send`, `GetAck`), `remote_interrupt`
(`RunInterrupted`) and the accept loop (`Accept`). GDB is external: it sends a
packet, waits for `+`, resends on `-`, acknowledges and skips an answer that
comes instead, then takes its answer. It may press Ctrl+C while the target runs,
and the connection may break at any time with a part of what was sent.

**NandFlash** is the small-block chip behind the controller's registers. The
program's accesses are single command, address and data cycles in any order;
bytes keep their values because a byte may reach the wrong latch. `mapped`
chooses between the two builds of the file, one that programs the mapped dump by
AND and one that overwrites whole pages. History variables follow whether the
cycles so far form a request.

**MemoryBanks** is the bank table: `parse_mem` from configuration lines,
`bank_ptr` with its static (`mbp`), RAM and ROM words in both byte orders and
`mem_reset` with the loading of files. **NorFlash** adds the Intel device's write
state machine, whose words are the bank's memory and which reaches it through
`bank_ptr` again: its copying loop and its erasing loop look every word up (`Walk`)
and write it where they find it, into another bank or through a NULL pointer
(`WriteWords`). A bank with map=I has no memory. **MemoryBus** composes them: configure, reset, then reads and
writes of one, two and four bytes at any address. A simulator that exits or dies
of an access stays so (`status`).

**Tracepoints** has the definitions (`Enable`, `AddAction`), the recording before
every instruction (`Execute`, with `handle_tracepoint` and its pass and step
counts), frame selection and the reading of a frame. A record points at the
action that made it, as in the code, so a freed action is visible. A payload is
given as the digits of the packet and decoded as `decode_DP_playload` does
(`Decoded`): the scan of a base register leaves out its first digit and stops on
the comma, so the offset is 0 and its digits become part of the length. `Collected`
adds one byte of the base register to the offset and gives up at a fault, behind
which the buffer is as `malloc` left it (`Stray`). Whether a fault is reported
depends on the architecture (`Faults`): ARM's `ICE_read_byte` goes to `bus_read`,
which always returns 0, so there the byte before is repeated.

**Arm920tMmu** stands between the program's accesses and memory: two TLBs, the
instruction and the data cache searched by virtual address with round-robin
replacement, and the write buffer. A page has one cache line and a cache one set,
since lines of different sets never meet; a line keeps its two dirty halves. The
translation table is the function its walk computes. Loads, stores and fetches
are whole handlers, faults included: a store changes the line of the instruction
cache before anything is checked. The program is external: it flushes and drains
before it changes the M bit, follows a change of its table by invalidating the
page in both TLBs, and maps no memory twice. `view` is the word last stored at a
physical address; `spoiled` are words for which the instruction cache holds or
wrote back something else (section 3).

Definitions whose comment starts with "Mutant:" are wrong on purpose: each is a
plausible mistake in the definition after it, used to show that a property
notices it. No specification refers to them.

## 3. Runs

| Run | Configuration | Result |
|---|---|---|
| `breakpoints` | IceBreakpoints.cfg | `NoDuplicates`, `ImplementsSet` hold |
| `run_control` | DebugTarget.cfg | `TypeOK`, `PipelineInOrder`, `NeverRunsBreakpoint`, `StopAddress`, `StepAtMostOne`, `InterruptStops` hold |
| `uart_path` | UartPath.cfg | `OffersTyped`, `ReachesProgram`, `ImplementsFifo`, `ReadReturns` hold |
| `telnet_threads` | TelnetUart.cfg | `RingInBounds`, `FifoUnlessRaced`, `DiesOfChangeOnly`, `CloseBreaksWait` hold |
| `telnet_close_hangs` | TelnetUart_hang.cfg | `CloseReturns` is violated |
| `interrupts` | S3C2410.cfg | `TypeOK`, `LinesCurrent`, `ReceiverSignalled`, `TimerPeriod`, `IrqLineFollows` hold |
| `gdb_link` | GdbLink.cfg | `HandledOnceInOrder`, `AnswersMatch`, `ClientServed` hold |
| `gdb_spurious_stop` | GdbLink_spurious.cfg | `StopsOnlyOnCtrlC` is violated |
| `nand` | NandFlash.cfg | `StoresAsAsked`, `ReadsAsAsked`, `RequestsStayInside` hold |
| `memory` | MemoryBus.cfg | `BankTypeOK`, `CacheExact`, `ReadsLastWritten`, `RomKeepsFile`, `CrashExplained`, `FlashAsAsked` hold |
| `tracepoints` | Tracepoints.cfg | `PointersLive`, `ReadsThePast`, `PassesCounted`, `StepsEnd` hold |
| `mmu` | Arm920tMmu.cfg | `DataCurrent`, `MemoryCurrent`, `FetchCurrent` hold |

What they show:

* The breakpoint table is a bounded set. An address cannot be armed twice, which
  the swap-with-last removal depends on.
* The pipeline executes the program in order (`PipelineInOrder`): whichever of
  its cases the fetch takes, the word is the one due and `Reg[15]` is two words
  ahead of it. The breakpoint test compares an address that is carried beside the
  word through two iterations; `NeverRunsBreakpoint` says that it is the address
  where the program is, so no armed instruction is executed. The exception is
  `ARMul_ABORTWORD`, which is not compared (`armemu32.c:307`): a SWI 0xffffff of
  the program is executed under its breakpoint.
* After a breakpoint and after a step, `Reg[15]` is the instruction to execute
  next. After Ctrl+C, and after a step over an instruction that sets `CHANGEMODE`,
  it is the one executed last, so `c` executes it again; after an interrupt taken
  in a step it is the interrupted one while the CPU is already in IRQ mode.
  `StopAddress` says that these are the only three such stops. **The comments
  disagree**: `ARMul_DoProg` is to "return the address of the last instruction
  that is executed" (`arminit.c:258-262`) and `ARMul_DoInstr` that of "the
  instruction that is executed" (`arminit.c:364-368`). `pc` has moved on by one
  instruction when a breakpoint is hit or a step ends, because the loop begins an
  iteration more, so for these stops the comments are wrong. The debugger assigns
  what is returned to `Reg[15]` (`skyeye2gdb.c:238`, `247`) and needs the next
  instruction: the comments describe just the stops at which a resumed program
  repeats an instruction.
* Ctrl+C stops a running target provided that the vectors of the prefetch abort
  and of the software interrupt hold other words than `ARMul_ABORTWORD`. If one
  does not, the poll is never reached again (`armemu32.c:3880`).
* What a telnet client types reaches the program once and in order, through
  every reader, however `recv` cuts the stream. Two things are excepted because
  the code does otherwise: a CR LF cut between two reads is two returns, and a
  telnet command outside WILL, WONT, DO and DONT swallows what follows
  (`telnet_server.c:129`). A read of all devices with a timeout ends.
* With two threads the ring is still addressed inside its array, whatever the
  interleaving: a stale count and an index that is not wrapped yet never add up
  to more than one wrap too many. The unlocked count itself loses or repeats a
  character when `putch` and `getch` overlap (`skyeye_uart_telnet.c:25`), which
  is why `FifoUnlessRaced` speaks of the rest. `remote_desc` is published before
  the connection object and cleared after it is freed, so a write in between
  uses an object that is not there (the state `crash` of the model).
  `DiesOfChangeOnly` bounds this: it takes a connection that is between its
  descriptor and its object during that very write, so neither a connection that
  stays nor one that was taken down before can kill a write.
* `uart_telnet_close` returns if it finds the other thread waiting. Between the
  test of the exit flag and the creation of the socket, or between accepting and
  storing the descriptor, it closes nothing and waits for ever
  (`telnet_close_hangs`).
* Between the register writes that forget the CPU lines and the next update, the
  lines may be stale; after an update they are exact, and an update always
  follows. A full receiver always has its request pending unless the program
  itself cleared it. Timer 4 has a period of TCNTB4 + 1 io cycles. An io cycle is
  every `DIVISOR + 1` = 51 instructions: `prescale` takes the values `DIVISOR` to
  0 and then falls below. External interrupts cannot be unmasked:
  `GPIO_CTL_SIZE` is 0xe0 and the GPIO branch is tested first.
* The packet link handles every packet once and in order, although its three
  readers share the socket, but a Ctrl+C that crosses the stop reply makes
  `putpkt` send the reply twice; the acknowledgement of the second copy then
  stops the next continue (`gdb_spurious_stop`).
* A NAND request that starts with its command and sets its pointer is carried out
  to the byte in both builds, after any history. `StoresAsAsked` asks for a
  pointer command before SEQIN, since the column is not reset otherwise, and for
  a blank page, since the builds differ on a second program. A request that stays
  within its page never leaves a buffer.
* The bank cache changes no lookup as long as banks do not overlap; memory is an
  array of bytes in both byte orders; a ROM keeps its file if `type=` stands
  behind `map=`. The two loops of the flash reach beyond its bank: the copying loop
  always runs over a whole buffer (`dev_flash_intel.c:376`) and the erasing loop
  over a whole sector (466), so with a flash bank that is not whole sectors they
  overwrite a RAM or a ROM beside it. `RomKeepsFile` and `ReadsLastWritten`
  therefore ask for banks out of their reach (`FlashApart`). Three kinds of access
  kill the simulator, and `CrashExplained` says that there are no others: a write
  to a bank without `map=`, and either loop of a flash when it comes to a word that
  no bank holds or that belongs to a bank with map=I, which has no memory. A flash
  of whole sectors changes only as commanded (`FlashAsAsked`).
* No trace record outlives its action, and a record that holds the memory asked
  for shows it as it was, also while the target runs on. Three things make the
  code answer with something that is not the past, and `ReadsThePast` is about the
  other records: `trace_read` compares the address with the offset alone
  (`gdb_tracepoint.c:406`), also where the record was collected at a register; it
  ignores that `sim_read` failed, so bytes behind a fault are what `malloc` left;
  and on the ARM no fault is reported at all. Of the visits to a tracepoint the
  first `pass_count` are recorded, and stepping ends also when actions are added
  half way. The comment at `gdbserver.c:928-930` ("since we don't support any
  tracepoint functions") is about the `qT` queries, which are answered with
  nothing; the `QT` packets are decoded, and tracepoints work, as modelled here.
* A load returns the word stored last wherever it is, and a word whose memory is
  behind is in a dirty half line or in the write buffer; after cleaning, draining
  and invalidating, a fetch sees stored code. Two things the code does are
  excepted through `spoiled`: a store that faults leaves its word in the
  instruction cache (`arm920t_mmu.c:335`), and an instruction line filled while
  newer data was elsewhere writes its stale words back once a store to the same
  half made it dirty. The first store to such a word ends the exception.

## 4. Bounds

* IceBreakpoints: 5 addresses, 3 entries: a full table, a refused address, and
  removals from the front, the middle and the end.
* DebugTarget: 5 addresses that wrap: three ordinary words in a row (the reset
  vector, the interrupt vector and that of aborts and software interrupts), so that
  the pipeline is full of them, an abort word of the program's and an unmapped one;
  one breakpoint, a poll every 2 instructions. One breakpoint
  suffices because the loop uses the table only as a set (`Breakpoints`), which
  `breakpoints` checks with more entries and the proof for any number.
* UartPath: a ring of 2, 4 bytes from all clients (`MaxSent`: a whole negotiation
  and a character, or a line end cut anywhere), 2 devices.
* TelnetUart: 2 cells, 3 characters and 2 connections: a full ring, a wrapped
  index and a second client that finds the first one's characters.
* S3C2410: one UART, one external line, one timer reload; `IntMax` = 1 stands for
  2^31 - 1. Longer periods and negative reloads are covered by the proof.
  `DIVISOR` = 1 makes every other call do io. `Words` are the words the program
  writes to the main registers.
* GdbLink: up to 4 packets per connection, 2 connections, one corrupted packet:
  enough for a Ctrl+C, the duplicate answer it causes, the next packet and a
  reconnection.
* NandFlash: 2 blocks of 2 pages of 2 + 1 bytes, rows of both blocks and one off
  the chip, columns of both halves; the dump changes once (`MaxStores`), after
  which every request is still read back.
* MemoryBus: `MCConfs` are six memory configurations in both byte orders (RAM
  and boot ROM as in sys.conf, a short file with bytes above 127, a line without
  size, without map=, a missing file, a file for a bank without size); a flash of 2
  sectors of 2 words with a buffer of 2, so that a buffered write can leave its
  sector and its bank, with a ROM a buffer's length behind it, out of the reach of
  its loops (`FlashApart`); and three flashes that are not whole sectors, with a ROM
  in front of the sector, a ROM in it and devices (map=I) in it. Addresses end at
  `Top` = 27. Bytes are 0, 1 and 255.
* Tracepoints: one tracepoint, 2 actions, 3 frames, steps of 2, pass counts 0
  and 1: a frame of a pass and its two step frames. The payloads (`MCPayloads`) are
  the registers, memory with a hole in it and memory at a register; faults are
  reported, so that a record has bytes that were never written. The proof has both
  values of `Faults`.
* Arm920tMmu: 2 pages with one line each, of 4 words; one line per cache and one
  entry per TLB, so that every access to the other page evicts, and two entries
  in the write buffer, for its order. Page 0 is mapped to its own memory or to
  that of page 1; page 1 write-back and read-only for user mode, cached without
  the buffer, or to the flush page. The stores are to two words of one half of
  the line; the other half shows that it is left alone.

`CHECK_DEADLOCK FALSE` is used where a bounded client has nothing left to do
(GdbLink), where a closed device or a crashed process stops
(TelnetUart, MemoryBus) and where a program that overran a buffer is not followed
(NandFlash).

## 5. Fairness

* DebugTarget: weak fairness of the loop. The simulator thread keeps
  interpreting; nothing is assumed of the client or the program.
* UartPath: weak fairness of the loop of `skyeye_uart_read` once it was entered
  (`Reader`), and of the clock (`TimePasses`). Clients and devices owe nothing.
* TelnetUart: weak fairness of each thread's own steps. The operating system
  schedules both; clients need not connect, type or leave, and the emulated
  program need not read or write. The thread's waits (accept, recv) end only
  when their socket says so.
* S3C2410: weak fairness of `io_do_cycle`, which every instruction calls. The
  program and the devices owe nothing.
* GdbLink: weak fairness of the server and of a client that waits for an answer,
  and of the end of a single step. A continued target need not stop by itself
  and nobody need press Ctrl+C.

## 6. Proofs

Every theorem is proved by TLAPS for every value of the constants that the named
assumptions allow. Each safety theorem has the same shape: an inductive invariant
that holds initially, is kept by every action and implies the property.

**Breakpoints and run control** (`IceConstants`, `TargetConstants`).

* `BreakpointTableSafe`, `BreakpointTableInBounds`: the table stays in its array
  and arms no address twice. `IceTypeOK /\ NoDuplicates` is inductive: removal
  keeps entries distinct because only one copy of the moved entry stays below
  the new count.
* `BreakpointTableIsASet`: the array implements `BreakpointSet`. The mapping is
  `set <- Breakpoints`. That a refused insertion means a full set needs the
  cardinality of the armed addresses to be `num_bps`, which follows from
  `NoDuplicates` through a bijection between indices and addresses.
* `RunControlTyped`, `PipelineAlwaysInOrder`, `ArmedNeverRuns`,
  `StopsAtKnownAddress`, `StepRunsAtMostOne`: for any program, any address space,
  any unmapped range and abort words, any poll interval. None is inductive by
  itself. `PipeInv` says what the pipeline holds while the loop runs: after a flush
  `Reg[15]` is due; otherwise the two words and the two addresses carried beside
  them are those at due and behind it, and `Reg[15]` is one or two words ahead,
  as `NextInstr` says. `FetchIsDue` draws from it that the word, the address tested
  and `pc` of the iteration are all due, from which the first three theorems
  follow. `LoopInv` adds that `Emulate` tells the two drivers apart (`RUN` under
  continue, `ONCE` then `STOP` under step).

**From the telnet socket to the program** (`RingConstants`, `InputConstants`,
`PathConstants`).

* `RingWellFormed`, `RingIsAFifo`, `PathRingIsAFifo`: the ring of any size
  implements `UartFifo`, with the queue mapped to the `cnt` cells from `bptr` on,
  by itself and between the parser and the readers. The steps rest on lemmas
  about `WriteIndex`: distinct offsets below the size are distinct cells, and
  advancing the index shifts every offset by one.
* `TypedAlwaysOffered`: the parser against the reference `Typed`, which reads the
  whole stream from its front. At a point in the middle the parser cannot know
  what `Typed` of the stream so far is: the next byte may complete a line end.
  `ParseInv` therefore says more (`Promise`): whatever is sent next, unless it
  begins with the other half of a line end, what was offered followed by what the
  unread bytes and their continuation say is what the whole stream says. The
  bytes of a begun negotiation (`Behind`) count as unread, so the invariant
  carries over a chunk boundary. `InputConstants` has IAC differ from CR and LF,
  as the bytes 255, 13 and 10 do.
* `TypedReachesProgram`: `PathInv` adds that the ring is well formed and that the
  converter holds a character only if it was installed. Each reader then takes
  the oldest character of `owed`; the converter moves it from the ring's end of
  the queue to the front of `Waiting`.
* `RingAlwaysInBounds`, `FifoUntilRaced`, `DiesOnlyOfChange` (TelnetUart, with any
  interleaving): `ThreadsInv`. `Bounds` gives the counts that each thread has
  loaded a range of their own: between the test of `putch` and its store to the
  count, nothing the other thread stores can fill the ring, so the index is out
  by one wrap at most. `Alone` holds until a race: the registers of a thread at
  the ring are up to date and `accepted` is what was delivered and what the ring
  holds, at each step of `getch`. `Owned` ties the object and the
  descriptor to the steps of the thread that allocated it; `Exposure` says that the
  object a write is about to use is there, or that a connection has changed since
  the write tested `remote_desc`.

**GDB packet link.** `PacketsHandledOnce`, `AnswersAlwaysMatch`: `LinkInv`. The
readers are kept apart by where the packet lies among the bytes that are not part
of one: `Frame` says that there is at most one packet in the stream that `getpkt`
will read, at a place that has not been read, and that while `putpkt` waits for
its acknowledgement a "+" lies in front of it, so the loop of `putpkt` stops
before the packet. `Handling` relates it to the packet the server has, and
`Replies` says what is on its way to the client in each of its states, duplicate
answers included.

**S3C2410** (`MachConstants`).

* `LinesAlwaysCurrent`: inductive as it stands, action by action: an access
  either updates the lines or marks them dirty, or touches nothing they depend
  on.
* `RegistersTyped`, `TimerKeepsPeriod`: from `MachInv`, which strengthens the
  types by what the counter of timer 4 says about the time since it expired
  (`CounterTells`) and by the lengths its last period can have (`Periodic`),
  negative reloads and the wrap of the smallest `int` included. `TypeOK` bounds
  the history of periods, so the types need the timer too.
* `ReceiverKeepsRequest`: an interrupt is set before its receiver is full, and
  what clears it records that the program did.

**Memory bus and NOR flash** (`TopAssumption`, `ConfAssumption`,
`FlashAssumption`, `DeviceAssumption`, `WriteAssumption`). All six properties of
the run are proved, from `BusInv` and three invariants on top of it.

* `BusAlwaysTyped`, `LookupsExact`: `BusInv` has the table that `parse_mem` makes
  of any configuration lines, the places the static of `bank_ptr` may point to
  (`StaticInv`, the end marker after a miss included), the shape of memory and
  of the flash's registers. That the cached bank is the one a search finds
  follows because banks that do not overlap cannot both hold an address.
* `CrashesExplained`: `AskedInv`, part of `BusInv`, ties the first word that was
  loaded into the write buffer to the address where the copying loop starts, which
  lies in a flash bank. `WalkInTable` follows `bank_ptr` through either loop: a word
  for which it points at nothing is one that no bank holds (`HollowIsHole`).
* `RomAlwaysKept` (`RomInv`): no handler writes to a bank of `warn_write`. The
  copying and the erasing loop of the flash are the only writes that reach another
  bank than the one addressed; `CopyStaysApart` and `EraseStaysApart` show that
  `FlashApart` keeps them from every other bank. Banks of part of a sector are
  among the configurations the theorems range over.
* `ReadsAlwaysLastWritten` (`BytesInv`): for each access size and byte order, the
  bytes an access moves are those at its addresses, and the words around them
  keep theirs.
* `FlashAlwaysAsAsked` (`BufferInv`): each slot of the write buffer is blank or
  holds the last word loaded into it, and all of them are for the sector of the
  count. The copying loop overwrites a window from the first word on.

The antecedents `Disjoint`, `Aligned`, `FlashApart` and `WholeFlash` of these
properties are what a board's configuration has and the code does not test.
`TopAssumption` says that the address space ends at a word's end, as 2^32 does;
`DeviceAssumption` that a bank with map=F fits the device it stands for, without
which `lock[]` is indexed outside its array.

**Tracepoints** (`TraceConstants`). `PointersAlwaysLive`, `PastAlwaysRead`,
`PassesAlwaysCounted`, `StepsAlwaysEnd`: `TraceInv` says of every record that its
action is there and that its data is what that action collected at the time of
the frame, from its base register and up to the first fault; that holds because a
table only grows while there are frames (`Extends`). Every tracepoint is `Sound`:
its visits and its frames agree with the passes it has left, it has an action to
step when it steps, and the steps made and left are steps of its actions.

**MMU, TLBs and caches** (`MmuConstants`, `ProgramConstants`).
`DataAlwaysCurrent`, `MemoryAlwaysCurrent`, `FetchesAlwaysCurrent`, for any number
of pages, words of a line, lines, TLB entries and buffer entries: `MmuInv`.

* `TlbInv`: an entry of a TLB is the one of the table and the only one for its
  page. This is what `mmu_tlb_invalidate_entry`, which stops at the first entry it
  finds, rests on when a page is remapped.
* `LinesMapped`, in both caches: a line is of a page that has memory, where the
  page is now, and the only one of it. The caches are searched by virtual address
  and written back by physical address, so with `Mapping` (the program maps no
  memory twice) at most one line writes a word back (`UniquePa`).
* `DataShape`: the write buffer holds words of bufferable pages only, none of a
  page with a line in the D cache, and nothing while the MMU is off. A read that
  misses on a page that is not bufferable is therefore right not to drain it.
* `WordsCurrent`: for each word, its line has what was stored last, and memory has
  it too unless that half of the line is dirty; without a line, memory has it once
  the buffer is drained (`Good`). There is one lemma for each thing that happens
  to it: a line is written back and goes, is cleaned, is filled, is stored to; the
  buffer is drained, grows or gives up its oldest entry.
* `InstrInv`: what the I cache would write back is right or in `spoiled`. A store
  changes its line and marks it dirty even when it faults, so the words it spoils
  are the exception in all three theorems.

`ProgramConstants` types the program's table entries and stores. That it maps no
memory twice and cleans its lines before it remaps a page is in the guard and the
steps of `Remap`: the code leaves both to the program.

Recursive functions (`Parsed`, `AllSteps`, `Typed`) are reasoned about by
the least counterexample: a set of naturals that is not empty has a least member,
for which the property's equation gives a contradiction. The first lemma of each
kind shows that the function the definition chooses exists.

Only model-checked: all liveness properties (`InterruptStops`, `ReadReturns`,
`CloseBreaksWait`, `IrqLineFollows`, `ClientServed`), which are out of the
prover's reach, and NandFlash.

## 7. Plan

1. Theorems: `StoresAsAsked`, `ReadsAsAsked` and `RequestsStayInside` of
   NandFlash.
2. The receive ring of the RTL8019 network device.
3. Read-only regions of a tracing experiment (QTro), the values of stop replies.

## 8. Not modelled

* What ARM instructions compute, and the other architectures' interpreters:
  large, sequential and data-bound. FIQ, data aborts and software interrupts
  other than the abort word take the same path as an interrupt or an instruction in
  the loop and are not told apart. Thumb, whose instructions are half as long, and
  the loop for the 26 bit modes, which is the same file compiled again, are left
  out; so is the DBCT recompiler.
* The contents of GDB commands other than those named above, and the values of
  the stop reply.
* Registers that only store what is written, timers 0 to 3 (the code does not
  count them), the RTC (host calendar conversion) and the ADC.
* The AM29 and SST39 flash devices, which call `bus_read` from the handler that
  `bus_read` called and recurse on every array read.
* Byte lanes and big-endian words in the MMU, and the MMUs of CPUs other than
  the ARM920T of the S3C2410.
* LCD, touch screen, sound and host file devices (host I/O), the rest of the
  configuration parser (string processing, once, sequential), the coverage
  profile, and the vendored BFD library.

Seen while reading, and left without a property because it is one expression, one
step or outside of what is modelled:

* `gdbserver.c:989`: `status` and `signal` are uninitialised when the first packet
  of a connection is `c` or `s`. `gdbserver.c:608`: the 65th tracepoint is written
  to `tps[-1]`.
* `gdb_tracepoint.c`: without a selected frame the search by tracepoint number
  starts behind the first frame (455); leaving a frame starts recording, also
  after QTStop (701); `g` in a frame without registers sends the packet buffer as
  it was (377). All three are modelled as they are.
* `skyeye_mach_s3c2410x.c:679`: INTOFFSET is computed without the mask.
* `nandflash_smallblock.c:601`: the uninstall tests its pointers the wrong way
  round.
* `parse_mem.c:45`: no limit on the number of banks, and a full table has no end
  marker.
* `dev_flash_intel.c`: `lock[]` is indexed with the absolute address (502), so the
  model has the flash within the size of the device from address 0; the READ_ID branch for the lock bit is never reached
  (132).
* `arm920t_mmu.c:391`: a word enters the write buffer as the bytes of a
  little-endian host.
* `main/version_history.txt:7` says that io is done "once every 50 instructions";
  it is every 51.

The repository has some 270,000 lines of C, most of them the vendored BFD library
and the instruction interpreters of six architectures. The modules cover the
parts in which the program keeps state across calls, threads or connections,
which are a few thousand lines: no larger share of the whole carries control that
a model checker could examine.
