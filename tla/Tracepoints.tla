----------------------------- MODULE Tracepoints -----------------------------
(***************************************************************************)
(* GDB's tracepoints (utils/debugger/gdb_tracepoint.c): the debugger       *)
(* defines tracepoints and their actions with QT packets (gdbserver.c),    *)
(* the emulator looks at them before every instruction (ARMul_ICE_debug)   *)
(* and collects frames, and the debugger selects a frame and reads the     *)
(* registers and the memory it holds.                                      *)
(*                                                                         *)
(* A collect record keeps a pointer to the action it was made by: its      *)
(* place in the table.  A packet for one tracepoint more than the table    *)
(* holds writes in front of the table and is not followed.                 *)
(***************************************************************************)
EXTENDS Integers, Sequences, SequencesExt

CONSTANTS MAX_TRACEPOINTS,  \* entries of tps (64)
          Number,           \* the numbers the debugger gives its tracepoints
          Pc,               \* the addresses of instructions
          Payloads,         \* the R and M payloads of the packets, their numbers as
                            \* hex digits: base register (<<>> is -1), offset, length
          Cells,            \* the addresses that have memory behind them
          Faults,           \* whether ICE_read_byte reports that there is none: it
                            \* does on the ColdFire, on the ARM it does not
          StepCounts, PassCounts,  \* bound: the counts in an E or D packet
          MaxActions,       \* bound: actions of a tracepoint
          MaxFrames         \* bound: frames recorded

NoReg == -1
Hex(digits) == FoldLeft(LAMBDA n, d : 16 * n + d, 0, digits)

\* What decode_DP_playload makes of an R or M payload.  The scan of a base register
\* leaves out its first digit and ends on the comma behind it, which then ends the
\* offset as well: the digits of the offset, the comma, which counts as 0, and the
\* digits of the length are all taken for the length.
Decoded(p) ==
  IF p.base = <<>>
  THEN [type |-> p.type, base |-> NoReg,
        offset |-> Hex(p.offset), length |-> Hex(p.length)]
  ELSE [type |-> p.type, base |-> Hex(Tail(p.base)),
        offset |-> 0, length |-> Hex(p.offset \o <<0>> \o p.length)]

\* Counts, addresses, offsets and lengths are unsigned.
ASSUME TraceConstants ==
  /\ MaxFrames \in Nat /\ StepCounts \subseteq Nat /\ PassCounts \subseteq Nat
  /\ Cells \subseteq Nat /\ Faults \in BOOLEAN
  /\ \A p \in Payloads : Decoded(p).offset \in Nat /\ Decoded(p).length \in Nat

VARIABLES tps,              \* tps[0 .. num_tps - 1]
          tps_status,       \* "STOPPED", "STARTED" or "FOCUSING"
          fb,               \* the list of frame buffers; its length is num_fb
          selected_fb,      \* the selected frame, 0 for none
          pc, now           \* the machine: the next instruction, and which of two
                            \* contents its registers and its memory have

vars == <<tps, tps_status, fb, selected_fb, pc, now>>

Memory(t) == [c \in Cells |-> <<c, t>>]
Stray == <<-1, -1>>         \* a byte that is not of the memory
Registers(t) == <<"registers", t>>

Init == /\ tps = <<>>
        /\ tps_status = "STOPPED"
        /\ fb = <<>>
        /\ selected_fb = 0
        /\ pc \in Pc
        /\ now = 0

----------------------------------------------------------------------------
(* Packets that define tracepoints. *)

\* Mutant: a new experiment keeps the frames of the one before.
init_tracepointsKeepsFrames ==
  /\ tps' = <<>>
  /\ tps_status' = "STOPPED"
  /\ selected_fb' = 0
  /\ UNCHANGED <<fb, pc, now>>

\* QTinit.
init_tracepoints ==
  /\ tps' = <<>>
  /\ tps_status' = "STOPPED"
  /\ fb' = <<>>
  /\ selected_fb' = 0
  /\ UNCHANGED <<pc, now>>

find_tp_id(n, a) == {i \in DOMAIN tps : tps[i].number = n /\ tps[i].address = a}

\* visits, hits and run are history: how often the program came to the enabled
\* tracepoint since the last E or D packet, pass_count + 1 for more often than that,
\* how many frames this made, and the frames of the pass that is being stepped.
NewTracepoint(n, a) == [number |-> n, address |-> a, status |-> "DISABLED",
                        pass_count |-> 0, remaining_pass |-> 0, remaining_step |-> 0,
                        actions |-> <<>>, visits |-> 0, hits |-> 0, run |-> 0]

\* The table with the tracepoint of a packet in it.
add_tracepoint(n, a) ==
  IF find_tp_id(n, a) = {} THEN Append(tps, NewTracepoint(n, a)) ELSE tps

\* Which entry that is: the first of its number and address.
Entry(t, n, a) == CHOOSE i \in DOMAIN t :
                    /\ t[i].number = n /\ t[i].address = a
                    /\ \A j \in 1 .. i - 1 : t[j].number # n \/ t[j].address # a

\* QTDP with an E or a D payload.
Enable(n, a, status, step, pass) ==
  LET t == add_tracepoint(n, a)
  IN /\ Len(t) <= MAX_TRACEPOINTS
     /\ tps' = [t EXCEPT ![Entry(t, n, a)] =
                  [@ EXCEPT !.status = status, !.remaining_step = step,
                            !.pass_count = pass, !.remaining_pass = pass,
                            !.visits = 0, !.hits = 0, !.run = 0]]
     /\ UNCHANGED <<tps_status, fb, selected_fb, pc, now>>

\* QTDP with an R or M payload, or one of these behind an S: the action is put
\* behind the others; one behind an S is the only child of a new while action.
AddAction(n, a, stepping, payload) ==
  LET t == add_tracepoint(n, a)
      i == Entry(t, n, a)
      steps == IF stepping THEN t[i].remaining_step ELSE 0
  IN /\ Len(t) <= MAX_TRACEPOINTS
     /\ Len(t[i].actions) < MaxActions
     /\ tps' = [t EXCEPT ![i].actions =
                  Append(@, [stepping |-> stepping, ca |-> Decoded(payload),
                             step_count |-> steps, remaining_steps |-> steps])]
     /\ UNCHANGED <<tps_status, fb, selected_fb, pc, now>>

\* QTStart and QTStop.
start_trace_recording == /\ tps_status' = "STARTED"
                         /\ UNCHANGED <<tps, fb, selected_fb, pc, now>>
stop_trace_recording == /\ tps_status' = "STOPPED"
                        /\ UNCHANGED <<tps, fb, selected_fb, pc, now>>

----------------------------------------------------------------------------
(* Recording. *)

\* What do_action puts into the buffer of a memory action.  The base is one byte of
\* the register, here which of its two contents the machine has.  sim_read gives up
\* at the first fault that is reported, and the rest of the buffer is as malloc left
\* it; where a fault is not reported it takes what the byte before left behind.
Collected(ca) ==
  LET from == (IF ca.base = NoReg THEN 0 ELSE now) + ca.offset
      Good(c) == /\ from + c - 1 \in Cells
                 /\ Faults => \A d \in 1 .. c - 1 : from + d - 1 \in Cells
  IN [c \in 1 .. ca.length |-> IF Good(c) THEN Memory(now)[from + c - 1] ELSE Stray]

\* What do_action collects now for action k of tracepoint i.
Record(i, k, ca) ==
  [tp |-> i, action |-> k,
   data |-> IF ca.type = "REGISTERS" THEN <<Registers(now)>> ELSE Collected(ca)]

\* What one action of a list adds to the frame.
do_action(i, k) == LET act == tps[i].actions[k]
                   IN IF ~act.stepping \/ act.remaining_steps # 0
                      THEN <<Record(i, k, act.ca)>> ELSE <<>>

\* Mutant: the steps are not counted.
AfterStepUncounted(act) ==
  [act EXCEPT !.remaining_steps = IF @ = 0 THEN act.step_count ELSE @]

\* A while action after one step: the last step loads the count for the next pass.
AfterStep(act) ==
  [act EXCEPT !.remaining_steps = IF @ <= 1 THEN act.step_count ELSE @ - 1]

\* The actions from the first while action on.
While(act) == act.stepping
FirstWhile(acts) == CHOOSE i \in DOMAIN acts : /\ While(acts[i])
                                               /\ \A j \in 1 .. i - 1 : ~While(acts[j])
LastWhile(acts) == CHOOSE i \in DOMAIN acts :
                     /\ While(acts[i])
                     /\ \A j \in i + 1 .. Len(acts) : ~While(acts[j])
HasWhile(acts) == \E i \in DOMAIN acts : While(acts[i])

\* The records of do_action_list over the actions from k on, and the tracepoint
\* after it: the last while action decides whether it steps on.
Records(i, k) == FlattenSeq([j \in 1 .. Len(tps[i].actions) + 1 - k |->
                               do_action(i, k + j - 1)])
Performed(tp) ==
  LET ends == tp.actions[LastWhile(tp.actions)].remaining_steps <= 1
  IN IF ~HasWhile(tp.actions) THEN tp
     ELSE [tp EXCEPT !.actions = [k \in DOMAIN @ |-> IF While(@[k]) THEN AfterStep(@[k])
                                                     ELSE @[k]],
                     !.status = IF ends THEN "ENABLED" ELSE "STEPPING",
                     !.run = IF ends THEN 0 ELSE @ + 1]

\* A frame; when is history, the contents of the machine when it was recorded.
Frame(tp, records) == [tp_number |-> tp.number, records |-> records,
                       when |-> now]

\* Tracepoint i becomes tp and performs its actions from k on.
Recorded(i, tp, k) == [tp |-> Performed(tp), frames |-> <<Frame(tp, Records(i, k))>>]

\* Mutant: the last pass is not told from those before it.
handle_tracepointOneMore(i) ==
  LET tp == tps[i]
  IN IF tp.status = "STEPPING" THEN Recorded(i, tp, FirstWhile(tp.actions))
     ELSE IF tp.pass_count = 0 THEN Recorded(i, tp, 1)
     ELSE Recorded(i, [tp EXCEPT !.remaining_pass = IF @ = 0 THEN 0 ELSE @ - 1], 1)

\* handle_tracepoint: the tracepoint afterwards and the frame, if there is one.
handle_tracepoint(i) ==
  LET tp == tps[i]
  IN IF tp.status = "STEPPING" THEN Recorded(i, tp, FirstWhile(tp.actions))
     ELSE IF tp.pass_count = 0 THEN Recorded(i, tp, 1)
     ELSE IF tp.remaining_pass = 0 THEN [tp |-> tp, frames |-> <<>>]
     ELSE Recorded(i, [tp EXCEPT !.remaining_pass = @ - 1], 1)

Visited(tp) == tp.address = pc /\ tp.status = "ENABLED"

\* What a look at tracepoint i makes of it, with its history if it has a pass count.
Looked(i) ==
  LET tp == tps[i]
      after == handle_tracepoint(i)
  IN IF ~Visited(tp) \/ tp.pass_count = 0 THEN after
     ELSE [after EXCEPT !.tp.visits = IF @ <= tp.pass_count THEN @ + 1 ELSE @,
                        !.tp.hits = @ + Len(after.frames)]

\* ARMul_ICE_debug before the instruction at pc, then the instruction.
Execute ==
  LET Looks(tp) == Visited(tp) \/ tp.status = "STEPPING"
      after == [i \in DOMAIN tps |-> IF tps_status = "STARTED" /\ Looks(tps[i])
                                     THEN Looked(i)
                                     ELSE [tp |-> tps[i], frames |-> <<>>]]
  IN /\ tps' = [i \in DOMAIN tps |-> after[i].tp]
     /\ fb' = fb \o FlattenSeq([i \in DOMAIN tps |-> after[i].frames])
     /\ Len(fb') <= MaxFrames
     /\ pc' \in Pc
     /\ now' = 1 - now
     /\ UNCHANGED <<tps_status, selected_fb>>

----------------------------------------------------------------------------
(* Looking at the frames. *)

\* QTFrame:n.  The number is compared with num_fb by >; when the search then fails
\* the first frame stays selected.
select_frame_buffer_by_fn(n) ==
  /\ tps_status' = "FOCUSING"
  /\ selected_fb' = CASE n > Len(fb) -> selected_fb
                      [] n < Len(fb) -> n + 1
                      [] OTHER -> IF fb = <<>> THEN 0 ELSE 1
  /\ UNCHANGED <<tps, fb, pc, now>>

\* QTFrame:tdp:n.  The search starts behind the selected frame, and behind the first
\* when none is selected.
select_frame_buffer_by_tpn(n) ==
  LET here == IF selected_fb = 0 /\ fb # <<>> THEN 1 ELSE selected_fb
      later == {i \in here + 1 .. Len(fb) : fb[i].tp_number = n}
  IN /\ tps_status' = "FOCUSING"
     /\ selected_fb' = IF here = 0 \/ later = {} THEN here
                       ELSE CHOOSE i \in later : \A j \in later : i <= j
     /\ UNCHANGED <<tps, fb, pc, now>>

\* QTFrame:ffffffff.  Recording starts again, whether or not it was on before.
stop_trace_focusing == /\ tps_status' = "STARTED"
                       /\ selected_fb' = 0
                       /\ UNCHANGED <<tps, fb, pc, now>>

\* The pc, range and outside forms of QTFrame do nothing more.
start_trace_focusing == /\ tps_status' = "FOCUSING"
                        /\ UNCHANGED <<tps, fb, selected_fb, pc, now>>

Covers(ca, a, size) == ca.offset <= a /\ a + size <= ca.offset + ca.length

\* The action a record points at.
Ca(r) == tps[r.tp].actions[r.action].ca

\* The records of the selected frame that can answer an m packet; the first one does.
\* They are chosen by the offset and the length alone.
Fits(a, size) ==
  LET rs == fb[selected_fb].records
  IN {i \in DOMAIN rs : Ca(rs[i]).type = "MEMORY" /\ Covers(Ca(rs[i]), a, size)}
Answering(a, size) ==
  fb[selected_fb].records[CHOOSE i \in Fits(a, size) : \A j \in Fits(a, size) : i <= j]

\* Mutant: a record is read from its start.
trace_readFromStart(a, size) ==
  IF selected_fb = 0 \/ Fits(a, size) = {} THEN <<>>
  ELSE [k \in 1 .. size |-> Answering(a, size).data[k]]

trace_read(a, size) ==
  IF selected_fb = 0 \/ Fits(a, size) = {} THEN <<>>
  ELSE LET r == Answering(a, size)
       IN [k \in 1 .. size |-> r.data[a - Ca(r).offset + k]]

\* The answer to a g packet; without such a record the buffer is sent as it was.
trace_fetch_registers ==
  LET rs == fb[selected_fb].records
      fits == {i \in DOMAIN rs : Ca(rs[i]).type = "REGISTERS"}
  IN IF selected_fb = 0 \/ fits = {} THEN <<>>
     ELSE rs[CHOOSE i \in fits : \A j \in fits : i <= j].data

----------------------------------------------------------------------------
Next ==
  \/ init_tracepoints
  \/ \E n \in Number, a \in Pc :
       \/ \E status \in {"ENABLED", "DISABLED"}, step \in StepCounts, pass \in PassCounts :
            Enable(n, a, status, step, pass)
       \/ \E stepping \in BOOLEAN, p \in Payloads : AddAction(n, a, stepping, p)
  \/ start_trace_recording
  \/ stop_trace_recording
  \/ Execute
  \/ \E n \in 0 .. MaxFrames : select_frame_buffer_by_fn(n)
  \/ \E n \in Number : select_frame_buffer_by_tpn(n)
  \/ stop_trace_focusing
  \/ start_trace_focusing

Spec == Init /\ [][Next]_vars

----------------------------------------------------------------------------
(* No pointer of the trace buffer dangles: the records of every frame point into
   actions that have not been freed, and the selected frame is one of the list,
   whatever order the debugger defines, records, selects and starts anew in
   (gdb_tracepoint.c:655-683). *)
PointersLive == /\ \A f \in DOMAIN fb : \A r \in DOMAIN fb[f].records :
                     /\ fb[f].records[r].tp \in DOMAIN tps
                     /\ fb[f].records[r].action \in DOMAIN tps[fb[f].records[r].tp].actions
                /\ selected_fb # 0 => selected_fb \in DOMAIN fb

\* The memory from a on went into the record of action ca: its address is not that of
\* a base register, and sim_read came to its last cell.
Held(ca, a, size) ==
  /\ ca.base = NoReg
  /\ \A c \in a .. a + size - 1 : c \in Cells
  /\ Faults => \A c \in ca.offset .. a - 1 : c \in Cells

(* What GDB reads in a frame is what the machine held when the frame was recorded,
   although the machine ran on and the actions may have changed since
   (gdb_tracepoint.c:377-423).  Memory is read truly only from a record that holds
   it: trace_read compares the address with the offset of an action that collected
   relative to a register, and takes the bytes behind a fault for collected ones. *)
ReadsThePast ==
  selected_fb # 0 =>
    LET then == fb[selected_fb].when
    IN /\ trace_fetch_registers \in {<<>>, <<Registers(then)>>}
       /\ \A a \in Cells, size \in {1, 2} :
            (Fits(a, size) # {} /\ Held(Ca(Answering(a, size)), a, size)) =>
              trace_read(a, size) = [k \in 1 .. size |-> Memory(then)[a + k - 1]]

\* The smaller one of two numbers.
AtMost(n, bound) == IF n < bound THEN n ELSE bound

(* Of the times the program comes to a tracepoint with a pass count, the first ones
   are recorded, pass_count in number, and the later ones are not; the steps behind
   a pass do not count, nor does an instruction at the address that is one of these
   steps (gdb_tracepoint.c:634-648). *)
PassesCounted == \A i \in DOMAIN tps :
                   tps[i].pass_count # 0 =>
                     tps[i].hits = AtMost(tps[i].visits, tps[i].pass_count)

\* The steps of all while actions of a list: the others have none.
AllSteps(acts) == LET sum[n \in 0 .. Len(acts)] ==
                        IF n = 0 THEN 0 ELSE sum[n - 1] + acts[n].step_count
                  IN  sum[Len(acts)]

(* Stepping ends: a tracepoint that steps has a while action to step, and a pass is
   followed by no more frames than its while actions have steps, even when actions
   are added while it steps (gdb_tracepoint.c:584). *)
StepsEnd == \A i \in DOMAIN tps :
              LET tp == tps[i]
              IN tp.status = "STEPPING" =>
                   /\ HasWhile(tp.actions)
                   /\ tp.run + tp.actions[LastWhile(tp.actions)].remaining_steps
                        <= AllSteps(tp.actions)
=============================================================================
