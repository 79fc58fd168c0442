-------------------------- MODULE DebugTarget_proofs --------------------------
(***************************************************************************)
(* Proofs about the breakpoint table, for every MAX_BREAKPOINTS and every  *)
(* set of addresses, and about run control, for every program (the         *)
(* successor of an instruction is arbitrary), every table and every        *)
(* interrupt schedule.                                                     *)
(***************************************************************************)
EXTENDS DebugTarget, FiniteSetTheorems, TLAPS

-------------------------------------------------------------------------------
\* The breakpoint table.

IceInv == IceTypeOK /\ NoDuplicates

\* FirstMatch, the search loop of sim_ice_breakpoint_remove, finds an armed
\* entry that holds the address whenever there is one.
LEMMA FirstMatchFinds ==
  ASSUME IceInv, NEW a \in Breakpoints
  PROVE  FirstMatch(a) \in Armed /\ bps[FirstMatch(a)] = a
<1>1. PICK i \in Armed : bps[i] = a
  BY DEF Breakpoints
<1>2. \A j \in Armed : bps[j] = a => i <= j
  BY <1>1 DEF IceInv, IceTypeOK, NoDuplicates, Armed
<1> QED
  BY <1>1, <1>2 DEF FirstMatch

\* An insertion that finds room keeps the invariant and adds the address.
LEMMA InsertStep ==
  ASSUME IceInv, NEW a \in Addr, insert(a)
  PROVE  /\ IceInv'
         /\ (a \in Breakpoints \/ num_bps < MAX_BREAKPOINTS)
              => Breakpoints' = Breakpoints \cup {a}
<1> USE IceConstants DEF IceInv
<1>1. CASE UNCHANGED <<bps, num_bps>>
  BY <1>1 DEF insert, Answer, IceTypeOK, NoDuplicates, Armed, Breakpoints
<1>2. CASE /\ a \notin Breakpoints
           /\ num_bps < MAX_BREAKPOINTS
           /\ bps' = [bps EXCEPT ![num_bps] = a]
           /\ num_bps' = num_bps + 1
           /\ reply' = Answer("Z", a, "OK")
  <2>1. IceTypeOK'
    BY <1>2 DEF IceTypeOK, Answer
  <2>2. /\ Armed' = Armed \cup {num_bps}
        /\ \A i \in Armed : bps'[i] = bps[i]
        /\ bps'[num_bps] = a
    BY <1>2 DEF IceTypeOK, Armed
  <2>3. NoDuplicates'
    BY <1>2, <2>2 DEF NoDuplicates, Breakpoints, Armed
  <2>4. Breakpoints' = Breakpoints \cup {a}
    BY <2>2 DEF Breakpoints
  <2> QED
    BY <2>1, <2>3, <2>4
<1> QED
  BY <1>1, <1>2 DEF insert

\* A removal keeps the invariant and takes away its address and no other.
LEMMA RemoveStep ==
  ASSUME IceInv, NEW a \in Addr, remove(a)
  PROVE  IceInv' /\ Breakpoints' = Breakpoints \ {a}
<1> USE IceConstants DEF IceInv
<1>1. CASE a \notin Breakpoints /\ UNCHANGED <<bps, num_bps>>
  BY <1>1 DEF remove, Answer, IceTypeOK, NoDuplicates, Armed, Breakpoints
<1>2. CASE /\ a \in Breakpoints
           /\ num_bps' = num_bps - 1
           /\ bps' = IF FirstMatch(a) < num_bps - 1
                       THEN [bps EXCEPT ![FirstMatch(a)] = bps[num_bps - 1]]
                       ELSE bps
  <2> DEFINE m == FirstMatch(a)
             top == num_bps - 1
  <2>1. m \in Armed /\ bps[m] = a
    BY <1>2, FirstMatchFinds
  <2>2. top \in Armed /\ m <= top /\ m \in Int
    BY <2>1 DEF IceTypeOK, Armed
  <2> HIDE DEF m
  <2>3. /\ Armed' = Armed \ {top}
        /\ m < top => bps'[m] = bps[top]
        /\ \A i \in Armed \ {m} : bps'[i] = bps[i]
    BY <1>2, <2>1, <2>2 DEF IceTypeOK, Armed, m
  <2>4. IceTypeOK'
    <3>1. bps[top] \in Addr
      BY <2>2 DEF IceTypeOK, Armed
    <3> QED
      BY <1>2, <2>1, <2>2, <3>1 DEF IceTypeOK, Armed, remove, Answer, m
  <2>5. NoDuplicates'
    BY <2>1, <2>2, <2>3 DEF NoDuplicates, Armed, IceTypeOK
  <2>6. \A b : b \in Breakpoints' <=> b \in Breakpoints /\ b # a
    <3>1. ASSUME NEW i \in Armed \ {top}
          PROVE  bps'[i] \in Breakpoints /\ bps'[i] # a
      BY <2>1, <2>2, <2>3 DEF NoDuplicates, Armed, Breakpoints, IceTypeOK
    <3>2. ASSUME NEW i \in Armed, bps[i] # a
          PROVE  \E k \in Armed \ {top} : bps'[k] = bps[i]
      <4>1. CASE i = top
        <5>1. m # top
          BY <3>2, <4>1, <2>1
        <5> QED
          BY <2>1, <2>2, <2>3, <4>1, <5>1 DEF Armed, IceTypeOK
      <4>2. CASE i # top
        BY <2>1, <2>3, <3>2, <4>2
      <4> QED
        BY <4>1, <4>2
    <3> QED
      BY <2>3, <3>1, <3>2 DEF Breakpoints
  <2> QED
    BY <2>4, <2>5, <2>6
<1> QED
  BY <1>1, <1>2 DEF remove

(***************************************************************************)
(* The table is well formed and never arms an address twice, whatever      *)
(* sequence of 'Z' and 'z' packets arrives.                                *)
(***************************************************************************)
THEOREM BreakpointTableSafe == IceSpec => [](IceTypeOK /\ NoDuplicates)
<1>1. IceInit => IceInv
  BY IceConstants
  DEF IceInit, IceInv, IceTypeOK, NoDuplicates, Armed
<1>2. IceInv /\ [IceNext]_iceVars => IceInv'
  <2> SUFFICES ASSUME IceInv, [IceNext]_iceVars PROVE IceInv'
    OBVIOUS
  <2>1. CASE IceNext
    BY <2>1, InsertStep, RemoveStep DEF IceNext
  <2>2. CASE UNCHANGED iceVars
    BY <2>2 DEF iceVars, IceInv, IceTypeOK, NoDuplicates, Armed
  <2> QED
    BY <2>1, <2>2
<1> QED
  BY <1>1, <1>2, PTL DEF IceSpec, IceInv

(***************************************************************************)
(* num_bps never leaves the array of MAX_BREAKPOINTS entries, and every    *)
(* armed entry holds an address: a full table refuses before it stores.    *)
(***************************************************************************)
THEOREM BreakpointTableInBounds == IceSpec => []IceTypeOK
BY BreakpointTableSafe, PTL

\* Without duplicates num_bps counts the set.
LEMMA CountIsCardinality ==
  ASSUME IceInv
  PROVE  IsFiniteSet(Breakpoints) /\ Cardinality(Breakpoints) = num_bps
<1> DEFINE f == [i \in Armed |-> bps[i]]
<1>1. num_bps \in Nat /\ num_bps - 1 \in Int /\ 0 \in Int
  BY IceConstants DEF IceInv, IceTypeOK
<1>2. IsFiniteSet(Armed) /\ Cardinality(Armed) = num_bps
  BY <1>1, FS_Interval DEF Armed
<1>3. f \in Bijection(Armed, Breakpoints)
  BY DEF Bijection, Injection, Surjection, IsInjective, Breakpoints, IceInv, NoDuplicates
<1> HIDE DEF f
<1>4. ExistsBijection(Armed, Breakpoints)
  BY <1>3 DEF ExistsBijection
<1> QED
  BY <1>2, <1>4, FS_Bijection, Zenon

(***************************************************************************)
(* The array implements the bounded set of BreakpointSet: every 'Z' and    *)
(* 'z' handler step is a step of the set, and E01 is answered only when    *)
(* the set holds MAX_BREAKPOINTS other addresses.                          *)
(***************************************************************************)
THEOREM BreakpointTableIsASet == IceSpec => ImplementsSet
<1>1. IceInit => Set!Init
  BY IceConstants DEF IceInit, Set!Init, Breakpoints, Armed
<1>2. IceInv /\ [IceNext]_iceVars => [Set!Next]_(Set!vars)
  <2> SUFFICES ASSUME IceInv, [IceNext]_iceVars PROVE [Set!Next]_(Set!vars)
    OBVIOUS
  <2>0. num_bps \in 0 .. MAX_BREAKPOINTS /\ MAX_BREAKPOINTS \in Nat
    BY IceConstants DEF IceInv, IceTypeOK
  <2>1. ASSUME NEW a \in Addr, insert(a) PROVE Set!Insert(a) \/ Set!Refuse(a)
    <3>0. Set!Cardinality(Breakpoints) = num_bps
      BY CountIsCardinality
      DEF Set!Cardinality, Cardinality, Set!IsFiniteSet, IsFiniteSet
    <3>1. CASE a \in Breakpoints \/ num_bps < MAX_BREAKPOINTS
      <4>1. Breakpoints' = Breakpoints \cup {a}
        BY <2>1, <3>1, InsertStep
      <4>2. reply' = Answer("Z", a, "OK")
        BY <2>0, <2>1, <3>1 DEF insert
      <4> QED
        BY <3>0, <3>1, <4>1, <4>2 DEF Set!Insert, Answer
    <3>2. CASE a \notin Breakpoints /\ num_bps >= MAX_BREAKPOINTS
      <4>1. num_bps = MAX_BREAKPOINTS
        BY <2>0, <3>2
      <4>2. reply' = Answer("Z", a, "E01") /\ UNCHANGED <<bps, num_bps>>
        BY <2>0, <2>1, <3>2 DEF insert
      <4>3. Breakpoints' = Breakpoints
        BY <4>2 DEF Breakpoints, Armed
      <4> QED
        BY <3>0, <3>2, <4>1, <4>2, <4>3 DEF Set!Refuse, Answer
    <3> QED
      BY <2>0, <3>1, <3>2
  <2>2. ASSUME NEW a \in Addr, remove(a) PROVE Set!Remove(a)
    BY <2>2, RemoveStep DEF remove, Set!Remove, Answer
  <2>3. CASE UNCHANGED iceVars
    BY <2>3 DEF iceVars, Set!vars, Breakpoints, Armed
  <2> QED
    BY <2>1, <2>2, <2>3 DEF IceNext, Set!Next
<1>3. IceSpec => []IceInv
  BY BreakpointTableSafe DEF IceInv
<1> QED
  BY <1>1, <1>2, <1>3, PTL DEF IceSpec, ImplementsSet, Set!Spec

-------------------------------------------------------------------------------
\* Run control.

\* While the loop runs, the next iteration takes the word the program has to
\* execute: from Reg[15] when it refills the pipeline, otherwise from the
\* words and addresses that the last two iterations left there.
PipeInv ==
  run # "stopped" =>
    /\ NextInstr = "FLUSH" => reg15 = due
    /\ NextInstr # "FLUSH" =>
         /\ Follow(pc) = due
         /\ decoded = due /\ decoded_addr = due
         /\ loaded = Follow(due) /\ loaded_addr = Follow(due)
    /\ NextInstr = "SEQ" => reg15 = Follow(due)
    /\ NextInstr = "PCINCED" => reg15 = Ahead(due)

\* Emulate tells the driver and the iteration apart.
LoopInv ==
  run # "stopped" =>
    /\ run = "cont" => Emulate = "RUN"
    /\ run = "step" => Emulate \in {"ONCE", "STOP"}

TargetInv == TypeOK /\ PipeInv /\ LoopInv /\ StopAddress /\ StepAtMostOne

\* Addresses wrap, so every address has a successor.
LEMMA FollowTyped == \A a \in Addr : Follow(a) \in Addr /\ Ahead(a) \in Addr
BY TargetConstants DEF Follow, Ahead

\* The fetch of a running loop: the word, the address tested for it and pc are
\* those of the instruction that is due, and Reg[15] is two words behind.
LEMMA FetchIsDue ==
  ASSUME TypeOK, PipeInv, run # "stopped"
  PROVE  Instr = due /\ Tested = due /\ Fetched = due /\ Reg15 = Ahead(due)
<1>1. NextInstr \in {"SEQ", "PCINCED", "FLUSH"}
  BY DEF TypeOK
<1> QED
  BY <1>1 DEF PipeInv, Instr, Tested, Fetched, Reg15, Ahead

\* After the fetch the pipeline holds the two words behind the one executed.
LEMMA AdvanceStep ==
  ASSUME TypeOK, PipeInv, run # "stopped", Advance
  PROVE  /\ pc' = due
         /\ decoded' = Follow(due) /\ decoded_addr' = Follow(due)
         /\ loaded' = Ahead(due) /\ loaded_addr' = Ahead(due)
<1>1. Fetched = due
  BY FetchIsDue
<1> QED
  BY <1>1 DEF Advance, PipeInv, Ahead

\* A 'Z' or 'z' packet keeps the table well typed.
LEMMA TableTyped ==
  ASSUME IceTypeOK, NEW a \in Addr, insert(a) \/ remove(a)
  PROVE  IceTypeOK'
<1> USE IceConstants DEF IceTypeOK, Answer
<1>1. CASE insert(a)
  BY <1>1 DEF insert
<1>2. CASE remove(a)
  <2>1. CASE a \notin Breakpoints
    BY <1>2, <2>1 DEF remove
  <2>2. CASE a \in Breakpoints
    <3>1. num_bps - 1 \in 0 .. MAX_BREAKPOINTS - 1
      BY <2>2 DEF Breakpoints, Armed
    <3>2. bps[num_bps - 1] \in Addr
      BY <3>1
    <3>3. num_bps' = num_bps - 1 /\ reply' = Answer("z", a, "OK")
      BY <1>2, <2>2 DEF remove
    <3>4. bps' \in [0 .. MAX_BREAKPOINTS - 1 -> Addr]
      BY <1>2, <2>2, <3>2 DEF remove
    <3> QED
      BY <3>1, <3>3, <3>4
  <2> QED
    BY <2>1, <2>2
<1> QED
  BY <1>1, <1>2

\* The loop writes nothing of the breakpoint table.
LEMMA LoopKeepsTable ==
  ASSUME UNCHANGED iceVars
  PROVE  Breakpoints' = Breakpoints /\ (IceTypeOK => IceTypeOK')
BY DEF iceVars, Breakpoints, Armed, IceTypeOK

\* An iteration that leaves the loop, or that runs on in it.
LEMMA LoopStep ==
  ASSUME TargetInv, Loop
  PROVE  TargetInv'
<1> USE DEF TargetInv
<1>0. run # "stopped" /\ Advance /\ UNCHANGED iceVars
  BY DEF Loop, HitBreakpoint, TakeIrq, StepDone, Execute
<1>1. Breakpoints' = Breakpoints /\ IceTypeOK'
  BY <1>0, LoopKeepsTable DEF TypeOK
<1>2. Instr = due /\ Tested = due /\ Fetched = due /\ Reg15 = Ahead(due)
  BY <1>0, FetchIsDue
<1>3. /\ pc' = due
      /\ decoded' = Follow(due) /\ decoded_addr' = Follow(due)
      /\ loaded' = Ahead(due) /\ loaded_addr' = Ahead(due)
  BY <1>0, AdvanceStep
<1>4. due \in Addr /\ Follow(due) \in Addr /\ Ahead(due) \in Addr
  BY FollowTyped DEF TypeOK
<1>5. /\ pc' \in Addr /\ decoded' \in Addr /\ decoded_addr' \in Addr
      /\ loaded' \in Addr /\ loaded_addr' \in Addr
  BY <1>3, <1>4
<1>6. CASE HitBreakpoint
  <2>1. /\ run' = "stopped" /\ reg15' = due /\ why' = "breakpoint"
        /\ Emulate' = "STOP" /\ NextInstr' = "SEQ"
        /\ UNCHANGED <<poll, due, last, ran>>
    BY <1>3, <1>6 DEF HitBreakpoint, Stop, history
  <2>2. irq' \in BOOLEAN /\ iflag' \in BOOLEAN /\ break_req' \in BOOLEAN
    BY <1>6, Zenon DEF HitBreakpoint, Stop, TypeOK
  <2>3. TypeOK'
    BY <1>1, <1>4, <1>5, <2>1, <2>2 DEF TypeOK
  <2> QED
    BY <2>1, <2>3 DEF PipeInv, LoopInv, StopAddress, StepAtMostOne
<1>7. CASE TakeIrq
  <2>1. /\ NextInstr' = "FLUSH" /\ iflag' = TRUE /\ due' = IrqVector
        /\ UNCHANGED <<irq, poll, last, ran>>
    BY <1>7 DEF TakeIrq
  <2>2. irq' \in BOOLEAN /\ iflag' \in BOOLEAN /\ break_req' \in BOOLEAN
    <3>1. irq' \in BOOLEAN /\ iflag' \in BOOLEAN
      BY <2>1, Zenon DEF TypeOK
    <3>2. break_req' = break_req \/ break_req' = FALSE
      BY <1>7 DEF TakeIrq, Stop
    <3> QED
      BY <3>1, <3>2, Zenon DEF TypeOK
  <2>3. CASE run = "cont"
    <3>1. reg15' = IrqVector /\ Emulate' = "RUN" /\ UNCHANGED <<run, why>>
      BY <1>7, <2>3 DEF TakeIrq
    <3>2. TypeOK'
      BY <1>1, <1>4, <1>5, <2>1, <2>2, <3>1, TargetConstants DEF TypeOK
    <3> QED
      BY <2>1, <2>3, <3>1, <3>2 DEF PipeInv, LoopInv, StopAddress, StepAtMostOne
  <2>4. CASE run = "step"
    <3>1. /\ run' = "stopped" /\ reg15' = due /\ why' = "irq"
          /\ UNCHANGED Emulate
      BY <1>3, <1>7, <2>4 DEF TakeIrq, Stop
    <3>2. TypeOK'
      BY <1>1, <1>4, <1>5, <2>1, <2>2, <3>1, TargetConstants DEF TypeOK
    <3> QED
      BY <2>1, <3>1, <3>2 DEF PipeInv, LoopInv, StopAddress, StepAtMostOne
  <2> QED
    BY <1>0, <2>3, <2>4 DEF TypeOK
<1>8. CASE StepDone
  <2>1. run = "step" /\ Emulate = "STOP" /\ ran = 1
    BY <1>0, <1>8 DEF StepDone, TypeOK, LoopInv, StepAtMostOne
  <2>2. /\ run' = "stopped" /\ reg15' = due /\ why' = "stepped"
        /\ NextInstr' = "FLUSH"
        /\ UNCHANGED <<Emulate, poll, due, last, ran>>
    BY <1>3, <1>8 DEF StepDone, Stop, history
  <2>3. irq' \in BOOLEAN /\ iflag' \in BOOLEAN /\ break_req' \in BOOLEAN
    BY <1>8, Zenon DEF StepDone, Stop, TypeOK
  <2>4. TypeOK'
    BY <1>1, <1>4, <1>5, <2>2, <2>3 DEF TypeOK
  <2> QED
    BY <2>1, <2>2, <2>4 DEF PipeInv, LoopInv, StopAddress, StepAtMostOne
<1>9. CASE Execute
  <2>1. /\ last' = due /\ irq' \in BOOLEAN
        /\ ran \in 0 .. 2 /\ ran' = IF ran < 2 THEN ran + 1 ELSE 2
        /\ Emulate # "STOP"
    BY <1>2, <1>9 DEF Execute, TypeOK
  <2>2. PICK r \in Addr, n \in {"SEQ", "PCINCED", "FLUSH"}, switched \in BOOLEAN :
          /\ Outcome(r, n)
          /\ NextInstr' = n
          /\ due' = IF n = "FLUSH" THEN r ELSE Follow(due)
          /\ Poll(r, Instr \notin AbortWords, switched)
    BY <1>9 DEF Execute
  <2>3. /\ n = "SEQ" => r = Ahead(due)
        /\ n = "PCINCED" => r = Follow(Ahead(due))
    BY <1>2, <2>2 DEF Outcome
  <2>4. iflag' \in BOOLEAN
    <3>1. iflag' = TRUE \/ iflag' \in BOOLEAN
      BY <2>2 DEF Outcome
    <3> QED
      BY <3>1, Zenon
  <2>5. poll' \in 0 .. PollInterval - 1
    BY <2>2, TargetConstants DEF Poll, TypeOK
  <2>6. due' \in Addr /\ NextInstr' \in {"SEQ", "PCINCED", "FLUSH"}
    BY <1>4, <2>2
  <2>7. CASE run' = "stopped"
    <3>1. \/ Emulate' = "STOP" /\ Stop("break")
          \/ run = "step" /\ Emulate' = "CHANGEMODE" /\ Stop("switched")
      BY <1>0, <2>2, <2>7 DEF Poll
    <3>2. /\ reg15' = due /\ why' \in {"break", "switched"}
          /\ Emulate' \in {"STOP", "CHANGEMODE"}
          /\ why' = "switched" => run = "step"
      BY <1>3, <3>1 DEF Stop
    <3>3. break_req' \in BOOLEAN
      BY <3>1, Zenon DEF Stop
    <3>4. TypeOK'
      BY <1>1, <1>4, <1>5, <2>1, <2>4, <2>5, <2>6, <2>7, <3>2, <3>3 DEF TypeOK
    <3>5. StepAtMostOne'
      BY <2>1, <2>7, <3>2 DEF StepAtMostOne, LoopInv, TypeOK
    <3> QED
      BY <2>1, <2>7, <3>2, <3>4, <3>5 DEF PipeInv, LoopInv, StopAddress
  <2>8. CASE run' # "stopped"
    <3>1. /\ reg15' = r /\ UNCHANGED <<run, why, break_req>>
          /\ \/ Emulate' = IF Emulate = "ONCE" THEN "STOP" ELSE Emulate
             \/ run = "cont" /\ Emulate' = "RUN"
      BY <2>2, <2>8 DEF Poll, Stop
    <3>2. break_req' \in BOOLEAN
      BY <3>1, Zenon DEF TypeOK
    <3>3. Emulate' \in {"STOP", "ONCE", "RUN", "CHANGEMODE"}
      BY <3>1 DEF TypeOK
    <3>4. TypeOK'
      BY <1>1, <1>4, <1>5, <2>1, <2>4, <2>5, <2>6, <3>1, <3>2, <3>3 DEF TypeOK
    <3>5. PipeInv'
      BY <1>3, <2>2, <2>3, <3>1 DEF PipeInv, Ahead
    <3>6. LoopInv' /\ StepAtMostOne'
      BY <1>0, <2>1, <3>1 DEF LoopInv, StepAtMostOne, TypeOK
    <3> QED
      BY <2>8, <3>4, <3>5, <3>6 DEF StopAddress
  <2> QED
    BY <2>7, <2>8
<1> QED
  BY <1>6, <1>7, <1>8, <1>9 DEF Loop

LEMMA PacketStep ==
  ASSUME TargetInv,
         \/ \E a \in Addr : Insert(a) \/ Remove(a) \/ Watchpoint(a)
         \/ \E a \in Addr, i \in BOOLEAN : WriteRegisters(a, i)
         \/ Continue \/ Step \/ Reconnect \/ ClientBreak
  PROVE  TargetInv'
<1> USE IceConstants, TargetConstants
        DEF TargetInv, PipeInv, LoopInv, StopAddress, StepAtMostOne
<1>1. ASSUME NEW a \in Addr, Insert(a) \/ Remove(a) \/ Watchpoint(a)
      PROVE  TargetInv'
  <2>1. IceTypeOK'
    <3>1. CASE Watchpoint(a)
      BY <3>1 DEF Watchpoint, Table, Answer, TypeOK, IceTypeOK
    <3> QED
      BY <1>1, <3>1, TableTyped DEF Insert, Remove, Table, TypeOK
  <2>2. run = "stopped" /\ UNCHANGED targetVars
    BY <1>1 DEF Insert, Remove, Watchpoint, Table
  <2> QED
    BY <2>1, <2>2 DEF targetVars, pipeline, history, TypeOK
<1>2. ASSUME NEW a \in Addr, NEW i \in BOOLEAN, WriteRegisters(a, i)
      PROVE  TargetInv'
  BY <1>2, LoopKeepsTable DEF WriteRegisters, Restart, pipeline, TypeOK
<1>3. CASE Continue \/ Step
  BY <1>3, LoopKeepsTable DEF Continue, Step, Resume, Restart, pipeline, TypeOK
<1>4. CASE Reconnect
  <2>1. /\ run' = "stopped" /\ Emulate' = "RUN" /\ reg15' = 0 /\ NextInstr' = "SEQ"
        /\ due' = 0 /\ last' = 0 /\ ran' = 0 /\ why' = "reset"
        /\ UNCHANGED pipeline /\ UNCHANGED poll /\ IceTypeOK'
    BY <1>4, LoopKeepsTable DEF Reconnect, Restart, TypeOK
  <2>2. irq' \in BOOLEAN /\ iflag' \in BOOLEAN /\ break_req' \in BOOLEAN
    BY <1>4, Zenon DEF Reconnect
  <2>3. TypeOK'
    BY <2>1, <2>2 DEF pipeline, TypeOK
  <2> QED
    BY <2>1, <2>3
<1>5. CASE ClientBreak
  BY <1>5, LoopKeepsTable DEF ClientBreak, pipeline, history, TypeOK
<1> QED
  BY <1>1, <1>2, <1>3, <1>4, <1>5

\* The invariant that carries the theorems below: it is inductive.
LEMMA TargetInvariant == Spec => []TargetInv
<1>1. Init => TargetInv
  <2> SUFFICES ASSUME Init PROVE TargetInv
    OBVIOUS
  <2>1. IceTypeOK
    BY IceConstants DEF Init, IceInit, IceTypeOK
  <2>2. irq \in BOOLEAN /\ iflag \in BOOLEAN /\ break_req \in BOOLEAN
    BY Zenon DEF Init
  <2>3. /\ run = "stopped" /\ Emulate = "RUN" /\ why = "reset"
        /\ NextInstr = "SEQ" /\ reg15 = 0 /\ pc = 0
        /\ decoded = 0 /\ loaded = 0 /\ decoded_addr = 0 /\ loaded_addr = 0
        /\ due = 0 /\ last = 0 /\ poll = 0 /\ ran = 0
    BY DEF Init
  <2>4. TypeOK
    BY <2>1, <2>2, <2>3, IceConstants, TargetConstants DEF TypeOK
  <2> QED
    BY <2>3, <2>4
    DEF TargetInv, PipeInv, LoopInv, StopAddress, StepAtMostOne
<1>2. TargetInv /\ [Next]_vars => TargetInv'
  <2> SUFFICES ASSUME TargetInv, [Next]_vars PROVE TargetInv'
    OBVIOUS
  <2>1. CASE Next
    BY <2>1, LoopStep, PacketStep DEF Next
  <2>2. CASE UNCHANGED vars
    BY <2>2, LoopKeepsTable
    DEF vars, targetVars, pipeline, history, TargetInv, TypeOK, PipeInv,
        LoopInv, StopAddress, StepAtMostOne
  <2> QED
    BY <2>1, <2>2
<1> QED
  BY <1>1, <1>2, PTL DEF Spec

(***************************************************************************)
(* The variables of the emulation loop and of the breakpoint table keep    *)
(* their types: num_bps within the array, the poll counter within its      *)
(* interval.                                                               *)
(***************************************************************************)
THEOREM RunControlTyped == Spec => []TypeOK
BY TargetInvariant, PTL DEF TargetInv

(***************************************************************************)
(* Whatever mix of sequential instructions, instructions that advance the  *)
(* program counter themselves, branches, interrupts and aborts a program   *)
(* is, the pipeline hands the loop its instructions in order, and each     *)
(* reads Reg[15] two words behind itself.                                  *)
(***************************************************************************)
THEOREM PipelineAlwaysInOrder == Spec => []PipelineInOrder
<1>1. TargetInv => PipelineInOrder
  BY FetchIsDue DEF TargetInv, PipelineInOrder
<1> QED
  BY <1>1, TargetInvariant, PTL

(***************************************************************************)
(* No iteration of ARMul_Emulate32 executes an instruction of the program  *)
(* that is armed, unless its word is ARMul_ABORTWORD: the address that is  *)
(* compared is the one of the word that is executed, on each of the        *)
(* fetching paths.                                                         *)
(***************************************************************************)
THEOREM ArmedNeverRuns == Spec => NeverRunsBreakpoint
<1>1. TargetInv /\ [Next]_vars
        => [(due \in Breakpoints \ AbortWords) => ~Execute]_vars
  <2> SUFFICES ASSUME TargetInv, due \in Breakpoints \ AbortWords, Execute
               PROVE  FALSE
    OBVIOUS
  <2>1. Instr = due /\ Tested = due
    BY FetchIsDue DEF TargetInv, Execute
  <2> QED
    BY <2>1 DEF Execute, AtBreakpoint
<1> QED
  BY <1>1, TargetInvariant, PTL DEF Spec, NeverRunsBreakpoint

(***************************************************************************)
(* A stop leaves Reg[15] at the instruction to execute next, except after  *)
(* Ctrl+C and CHANGEMODE, where it is the one executed last, and after an  *)
(* interrupt that is taken in a step.                                      *)
(***************************************************************************)
THEOREM StopsAtKnownAddress == Spec => []StopAddress
BY TargetInvariant, PTL DEF TargetInv

(***************************************************************************)
(* A step of the debugger executes one instruction or none, although the   *)
(* loop of ARMul_Emulate32 goes round twice.                               *)
(***************************************************************************)
THEOREM StepRunsAtMostOne == Spec => []StepAtMostOne
BY TargetInvariant, PTL DEF TargetInv
===============================================================================
