----------------------------- MODULE DebugTarget -----------------------------
(***************************************************************************)
(* Run control of the ARM target under the GDB server: the 'c', 's', 'G',  *)
(* 'Z' and 'z' packets of sim_debug (utils/debugger/gdbserver.c), the      *)
(* emulation loop ARMul_Emulate32 with its pipeline, breakpoint test,      *)
(* exception test and Ctrl+C poll (arch_arm/common/armemu32.c), and its    *)
(* two drivers ARMul_DoProg and ARMul_DoInstr (arch_arm/common/arminit.c), *)
(* whose result the debugger assigns to Reg[15].                           *)
(*                                                                         *)
(* Addresses count words and wrap.  A word in the pipeline is known by the *)
(* address it was fetched from; what an instruction does is arbitrary.  A  *)
(* fetch from Unmapped aborts and yields ARMul_ABORTWORD; a program may    *)
(* also hold that word (SWI 0xffffff), at the addresses SwiWords.  The     *)
(* target and the server are one thread, so the breakpoint table changes   *)
(* only while the target is stopped.                                       *)
(***************************************************************************)
EXTENDS IceBreakpoints

CONSTANTS Top,            \* the last address
          Unmapped,       \* addresses whose fetch aborts
          SwiWords,       \* mapped addresses that hold ARMul_ABORTWORD
          IrqVector, AbortVector, SwiVector,
          PollInterval    \* instructions between two polls (2000 in the build)

ASSUME TargetConstants ==
  /\ Top \in Nat /\ Addr = 0 .. Top
  /\ Unmapped \subseteq Addr /\ SwiWords \subseteq Addr \ Unmapped
  /\ IrqVector \in Addr /\ AbortVector \in Addr /\ SwiVector \in Addr
  /\ PollInterval \in Nat \ {0}

VARIABLES run,      \* "stopped", or the driver at work: "cont" or "step"
          Emulate,  \* state->Emulate
          reg15,    \* state->Reg[15]
          NextInstr,\* how the next iteration fetches: "SEQ", "PCINCED", "FLUSH"
          pc,       \* the address of the current instruction
          decoded, loaded,            \* the two words behind it ...
          decoded_addr, loaded_addr,  \* ... and the addresses kept for the test
          irq,      \* state->NirqSig is LOW
          iflag,    \* the I bit of the CPSR
          poll,     \* remote_interrupt_test_time
          break_req,\* bytes of the client wait on the socket of a running target
          \* What the run did, for the properties:
          due,      \* the address the program has to execute next
          last,     \* the last address executed since the target was resumed
          ran,      \* how many instructions that run executed, 2 for more
          why       \* why the target stopped

pipeline == <<pc, decoded, loaded, decoded_addr, loaded_addr>>
history == <<due, last, ran>>
targetVars == <<run, Emulate, reg15, NextInstr, pipeline, irq, iflag, poll,
                break_req, history, why>>
vars == <<iceVars, targetVars>>

\* remote_open, then arch_instance->reset: ARMul_Reset and io_reset.
Init ==
  /\ IceInit
  /\ run = "stopped" /\ Emulate = "RUN" /\ reg15 = 0 /\ NextInstr = "SEQ"
  /\ pc = 0 /\ decoded = 0 /\ loaded = 0 /\ decoded_addr = 0 /\ loaded_addr = 0
  /\ irq = FALSE /\ iflag = TRUE /\ poll = 0 /\ break_req = FALSE
  /\ due = 0 /\ last = 0 /\ ran = 0 /\ why = "reset"
------------------------------------------------------------------------------
\* Packets, handled while the target is stopped.

Table(step) == run = "stopped" /\ step /\ UNCHANGED targetVars
Insert(a) == Table(insert(a))
Remove(a) == Table(remove(a))

\* 'Z' or 'z' with a watchpoint type: answered E01, nothing is armed.
Watchpoint(a) ==
  Table(reply' = Answer("Z", a, "E01") /\ UNCHANGED <<bps, num_bps>>)

\* A history begins with the program at a.
Restart(a) == due' = a /\ last' = a /\ ran' = 0

Resume(driver, emulate) ==
  /\ run = "stopped"
  /\ run' = driver
  /\ Emulate' = emulate
  /\ NextInstr' = "FLUSH"              \* RESUME: treat as PC change
  /\ Restart(reg15) /\ why' = "running"
  /\ UNCHANGED <<iceVars, reg15, pipeline, irq, iflag, poll, break_req>>

Continue == Resume("cont", "RUN")
Step == Resume("step", "ONCE")

\* 'G': the client writes the registers, the program counter among them.
WriteRegisters(a, i) ==
  /\ run = "stopped"
  /\ reg15' = a /\ iflag' = i
  /\ Restart(a) /\ why' = "written"
  /\ UNCHANGED <<iceVars, run, Emulate, NextInstr, pipeline, irq, poll, break_req>>

\* The client went away and another one is accepted: the target is reset,
\* the breakpoint table, the pipeline and the poll counter are not.
Reconnect ==
  /\ run = "stopped"
  /\ Emulate' = "RUN" /\ reg15' = 0 /\ NextInstr' = "SEQ"
  /\ Restart(0) /\ why' = "reset"
  /\ irq' = FALSE /\ iflag' = TRUE
  /\ break_req' = FALSE
  /\ UNCHANGED <<iceVars, run, pipeline, poll>>

\* Ctrl+C, or the end of the connection, while the target runs.
ClientBreak ==
  /\ run # "stopped"
  /\ ~break_req
  /\ break_req' = TRUE
  /\ UNCHANGED <<iceVars, run, Emulate, reg15, NextInstr, pipeline, irq, iflag,
                 poll, history, why>>
------------------------------------------------------------------------------
\* One iteration of the loop of ARMul_Emulate32: the fetch.

Follow(a) == IF a = Top THEN 0 ELSE a + 1
Ahead(a) == Follow(Follow(a))

\* The word the iteration is about to execute, the address it is tested for,
\* and the value of pc, in the cases of the switch on NextInstr.
Instr == IF NextInstr = "FLUSH" THEN reg15 ELSE decoded
Tested == IF NextInstr = "FLUSH" THEN reg15 ELSE decoded_addr
Fetched == IF NextInstr = "FLUSH" THEN reg15 ELSE Follow(pc)

\* Mutant: the program counter is advanced although the last instruction did.
Reg15Twice == IF NextInstr = "FLUSH" THEN Ahead(reg15) ELSE Follow(reg15)

\* Reg[15] after the fetch, as the instruction reads it.
Reg15 == CASE NextInstr = "FLUSH" -> Ahead(reg15)
           [] NextInstr = "SEQ" -> Follow(reg15)
           [] NextInstr = "PCINCED" -> reg15

\* Mutant: the address of the decoded word is not advanced with the word.
AdvanceKeepsAddr ==
  /\ pc' = Fetched
  /\ decoded' = IF NextInstr = "FLUSH" THEN Follow(Fetched) ELSE loaded
  /\ decoded_addr' = IF NextInstr = "FLUSH" THEN Follow(Fetched) ELSE decoded_addr
  /\ loaded' = Ahead(Fetched) /\ loaded_addr' = Ahead(Fetched)

\* The pipeline moves on, also when the iteration executes nothing.
Advance ==
  /\ pc' = Fetched
  /\ decoded' = IF NextInstr = "FLUSH" THEN Follow(Fetched) ELSE loaded
  /\ decoded_addr' = IF NextInstr = "FLUSH" THEN Follow(Fetched) ELSE loaded_addr
  /\ loaded' = Ahead(Fetched)
  /\ loaded_addr' = Ahead(Fetched)
------------------------------------------------------------------------------
\* The rest of the iteration, which leaves the loop or executes the word.

AbortWords == Unmapped \cup SwiWords

\* ARMul_ICE_debug: ARMul_ABORTWORD is never compared.
AtBreakpoint == Instr \notin AbortWords /\ Tested \in Breakpoints

\* Leaving the loop: the driver returns pc, which becomes Reg[15]; the stop
\* reply drains what the client sent.
Stop(reason) ==
  /\ run' = "stopped"
  /\ reg15' = pc'
  /\ why' = reason
  /\ break_req' = FALSE

HitBreakpoint ==
  /\ run # "stopped"
  /\ AtBreakpoint
  /\ Advance
  /\ NextInstr' = "SEQ"
  /\ Emulate' = "STOP"
  /\ Stop("breakpoint")
  /\ UNCHANGED <<iceVars, irq, iflag, poll, history>>

\* ARMul_Abort sets Reg[15] to the vector and leaves the loop.  ARMul_DoProg
\* enters it again; ARMul_DoInstr returns the interrupted address.
TakeIrq ==
  /\ run # "stopped"
  /\ ~AtBreakpoint
  /\ irq /\ ~iflag
  /\ Advance
  /\ NextInstr' = "FLUSH"
  /\ iflag' = TRUE
  /\ due' = IrqVector
  /\ \/ /\ run = "cont"
        /\ reg15' = IrqVector
        /\ Emulate' = "RUN"
        /\ UNCHANGED <<run, why, break_req>>
     \/ /\ run = "step"
        /\ UNCHANGED Emulate
        /\ Stop("irq")
  /\ UNCHANGED <<iceVars, irq, poll, last, ran>>

\* Mutant: a step that ends returns the instruction it executed.
StepDoneAtLast ==
  /\ run # "stopped" /\ ~AtBreakpoint /\ ~(irq /\ ~iflag) /\ Emulate = "STOP"
  /\ NextInstr' = "FLUSH" /\ reg15' = pc
  /\ run' = "stopped" /\ why' = "stepped" /\ break_req' = FALSE
  /\ UNCHANGED <<iceVars, Emulate, pipeline, irq, iflag, poll, history>>

\* The second iteration of a single step: Emulate < ONCE.
StepDone ==
  /\ run # "stopped"
  /\ ~AtBreakpoint
  /\ ~(irq /\ ~iflag)
  /\ Emulate = "STOP"
  /\ Advance
  /\ NextInstr' = "FLUSH"              \* RESUME
  /\ Stop("stepped")
  /\ UNCHANGED <<iceVars, Emulate, irq, iflag, poll, history>>

\* Mutant: the counter is compared before it is reset, one too late.
PollLate(r, counted, switched) ==
  /\ poll' = IF counted /\ poll >= PollInterval THEN 0 ELSE poll + 1
  /\ Emulate' = IF Emulate = "ONCE" THEN "STOP" ELSE Emulate
  /\ reg15' = r
  /\ UNCHANGED <<run, why, break_req>>

\* Mutant: TEST_EMULATE does not turn ONCE into STOP.
PollKeepsOnce(r, counted, switched) ==
  /\ poll' = (poll + 1) % PollInterval
  /\ reg15' = r
  /\ UNCHANGED <<Emulate, run, why, break_req>>

\* Mutant: what remote_interrupt returns is ignored.
PollIgnored(r, counted, switched) ==
  /\ poll' = IF counted THEN (poll + 1) % PollInterval ELSE poll
  /\ Emulate' = IF Emulate = "ONCE" THEN "STOP" ELSE Emulate
  /\ break_req' = (break_req /\ poll' # 0)
  /\ reg15' = r
  /\ UNCHANGED <<run, why>>

\* The poll after an instruction that left r in Reg[15], TEST_EMULATE and the
\* loop condition.  An instruction that switched the byte order (or to a 26
\* bit mode) has set Emulate to CHANGEMODE, which ends the loop: ARMul_DoProg
\* enters it again, ARMul_DoInstr returns.
Poll(r, counted, switched) ==
  LET time    == IF counted THEN poll + 1 ELSE poll
      expired == counted /\ time >= PollInterval
      Stay(emulate) ==
        Emulate' = emulate /\ reg15' = r /\ UNCHANGED <<run, why, break_req>>
  IN  /\ poll' = IF expired THEN 0 ELSE time
      /\ \/ /\ expired /\ break_req
            /\ Emulate' = "STOP"
            /\ Stop("break")
         \/ /\ ~(expired /\ break_req)
            /\ \/ ~switched /\ Stay(IF Emulate = "ONCE" THEN "STOP" ELSE Emulate)
               \/ switched /\ run = "cont" /\ Stay("RUN")
               \/ switched /\ run = "step" /\ Emulate' = "CHANGEMODE" /\ Stop("switched")

\* What the instruction leaves in Reg[15] and NextInstr.  ARMul_ABORTWORD is
\* a prefetch abort where the fetch aborted and a software interrupt where it
\* did not; any other word goes on, with or without INCPC, or anywhere.
Outcome(r, n) ==
  \/ Instr \in Unmapped /\ r = AbortVector /\ n = "FLUSH" /\ iflag' = TRUE
  \/ Instr \in SwiWords /\ r = SwiVector /\ n = "FLUSH" /\ iflag' = TRUE
  \/ /\ Instr \notin AbortWords
     /\ iflag' \in BOOLEAN
     /\ \/ n = "SEQ" /\ r = Reg15
        \/ n = "PCINCED" /\ r = Follow(Reg15)
        \/ n = "FLUSH"

\* io_do_cycle may move the interrupt line; then the instruction.
Execute ==
  /\ run # "stopped"
  /\ ~AtBreakpoint
  /\ ~(irq /\ ~iflag)
  /\ Emulate # "STOP"
  /\ Advance
  /\ irq' \in BOOLEAN
  /\ \E r \in Addr, n \in {"SEQ", "PCINCED", "FLUSH"}, switched \in BOOLEAN :
       /\ Outcome(r, n)
       /\ switched => n # "FLUSH"
       /\ NextInstr' = n
       /\ due' = IF n = "FLUSH" THEN r ELSE Follow(due)
       /\ Poll(r, Instr \notin AbortWords, switched)
  /\ last' = Instr
  /\ ran' = IF ran < 2 THEN ran + 1 ELSE 2
  /\ UNCHANGED iceVars

Loop == HitBreakpoint \/ TakeIrq \/ StepDone \/ Execute

Next ==
  \/ \E a \in Addr : Insert(a) \/ Remove(a) \/ Watchpoint(a)
  \/ \E a \in Addr, i \in BOOLEAN : WriteRegisters(a, i)
  \/ Continue \/ Step \/ Reconnect \/ ClientBreak
  \/ Loop

Spec == Init /\ [][Next]_vars

\* The simulator thread keeps executing; the client owes nothing.
FairSpec == Spec /\ WF_vars(Loop)
------------------------------------------------------------------------------
TypeOK ==
  /\ IceTypeOK
  /\ run \in {"stopped", "cont", "step"}
  /\ Emulate \in {"STOP", "CHANGEMODE", "ONCE", "RUN"}
  /\ NextInstr \in {"SEQ", "PCINCED", "FLUSH"}
  /\ reg15 \in Addr /\ pc \in Addr
  /\ decoded \in Addr /\ loaded \in Addr
  /\ decoded_addr \in Addr /\ loaded_addr \in Addr
  /\ due \in Addr /\ last \in Addr
  /\ irq \in BOOLEAN /\ iflag \in BOOLEAN /\ break_req \in BOOLEAN
  /\ poll \in 0 .. PollInterval - 1
  /\ ran \in 0 .. 2
  /\ why \in {"reset", "running", "written", "breakpoint", "irq", "stepped",
              "break", "switched"}

(***************************************************************************)
(* The pipeline executes the program in order: whichever way the last      *)
(* instruction ended, the word the next iteration takes is the one the     *)
(* program has to execute next, and it finds Reg[15] two words behind      *)
(* itself, as the architecture has it.  due follows the program alone.     *)
(***************************************************************************)
PipelineInOrder == run # "stopped" => Instr = due /\ Reg15 = Ahead(due)

(***************************************************************************)
(* A resumed target never executes an instruction at an armed address.     *)
(* The test of ARMul_ICE_debug compares an address that the loop carries   *)
(* beside the word, two iterations ahead; the property is about where the  *)
(* program is.  It also covers the second iteration of a single step, the  *)
(* first instruction of a handler and an instruction at which Ctrl+C stops *)
(* the target.  ARMul_ABORTWORD is excepted, as an aborted fetch and as a  *)
(* word of the program: such an instruction is executed under its          *)
(* breakpoint.                                                             *)
(***************************************************************************)
NeverRunsBreakpoint == [][(due \in Breakpoints \ AbortWords) => ~Execute]_vars

(***************************************************************************)
(* What Reg[15] is when the target stops.  After a breakpoint or a single  *)
(* step it is the instruction the program has to execute next, although    *)
(* the comments of ARMul_DoProg and ARMul_DoInstr promise the one that was *)
(* executed.  After Ctrl+C, and after a step over an instruction that sets *)
(* CHANGEMODE, it is the instruction executed last, which 'c' executes     *)
(* again; after an interrupt taken during a step it is the interrupted     *)
(* instruction while the CPU is in the handler's mode.  These three stops  *)
(* are the only ones that do not resume where the program was.             *)
(***************************************************************************)
StopAddress ==
  run = "stopped" =>
    /\ reg15 # due => why \in {"break", "switched", "irq"}
    /\ why \in {"break", "switched"} => reg15 = last
    /\ why = "irq" => due = IrqVector /\ iflag

(***************************************************************************)
(* A single step executes no more than one instruction, although the loop  *)
(* of ARMul_Emulate32 always runs one iteration too many to notice, and a  *)
(* stop that a step reports as done comes after exactly one ("Emulate the  *)
(* execution of one instruction", ARMul_DoInstr); a step that meets a      *)
(* breakpoint or an interrupt first executes none.                         *)
(***************************************************************************)
StepAtMostOne ==
  /\ run = "step" => ran <= 1 /\ (Emulate = "ONCE" <=> ran = 0)
  /\ run = "stopped" /\ why \in {"stepped", "switched"} => ran = 1

(***************************************************************************)
(* "stop when press Ctrl+c" (gdbserver.c, remote_interrupt): a target that *)
(* the client interrupts stops, whatever its program does.  This needs the *)
(* vectors of the prefetch abort and the software interrupt to hold other  *)
(* words than ARMul_ABORTWORD, after which the poll is skipped.            *)
(***************************************************************************)
InterruptStops == break_req ~> run = "stopped"
==============================================================================
