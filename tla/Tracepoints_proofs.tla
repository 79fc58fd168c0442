-------------------------- MODULE Tracepoints_proofs --------------------------
(***************************************************************************)
(* Safety of the tracepoints for every number of tracepoints, actions and  *)
(* frames and every order of packets and instructions: no pointer of the   *)
(* trace buffer dangles, a frame is read as it was recorded, and passes    *)
(* are counted.                                                            *)
(***************************************************************************)
EXTENDS Tracepoints, WellFoundedInduction, SequenceTheorems, TLAPS

\* What an action collects when the machine has contents t.
From(ca, t) == (IF ca.base = NoReg THEN 0 ELSE t) + ca.offset
There(ca, t, c) == /\ From(ca, t) + c - 1 \in Cells
                   /\ Faults => \A d \in 1 .. c - 1 : From(ca, t) + d - 1 \in Cells
DataOf(ca, t) ==
  IF ca.type = "REGISTERS" THEN <<Registers(t)>>
  ELSE [c \in 1 .. ca.length |-> IF There(ca, t, c) THEN Memory(t)[From(ca, t) + c - 1]
                                 ELSE Stray]

\* The collect actions that the packets make.
Collect == {Decoded(p) : p \in Payloads}

Actions == [stepping : BOOLEAN, ca : Collect, step_count : Nat, remaining_steps : Nat]
TracepointTypes ==
  [number : Number, address : Pc, status : {"DISABLED", "ENABLED", "STEPPING"},
   pass_count : Nat, remaining_pass : Nat, remaining_step : Nat, actions : Seq(Actions),
   visits : Nat, hits : Nat, run : Nat]

\* Every entry of the table: it counts its passes, has an action to step when it steps, and
\* the steps it made and has to make are steps of its actions.
Counted(tp) == tp.pass_count # 0 => /\ tp.hits = tp.pass_count - tp.remaining_pass
                                    /\ tp.hits = AtMost(tp.visits, tp.pass_count)
CanStep(tp) == tp.status = "STEPPING" => HasWhile(tp.actions)
Stepped(tp) ==
  /\ tp.status # "STEPPING" => tp.run = 0
  /\ \A k \in 1 .. Len(tp.actions) :
       tp.actions[k].remaining_steps <= tp.actions[k].step_count
  /\ tp.status = "STEPPING" =>
       tp.run + tp.actions[LastWhile(tp.actions)].remaining_steps <= AllSteps(tp.actions)
Stepper == {tp \in TracepointTypes : CanStep(tp) /\ Stepped(tp)}
Sound == {tp \in Stepper : Counted(tp)}

RecordTypes == [tp : Nat, action : Nat, data : {DataOf(ca, t) : ca \in Collect, t \in {0, 1}}]
FrameTypes == [tp_number : Number, records : Seq(RecordTypes), when : {0, 1}]

TraceTypes == /\ tps \in Seq(Sound) /\ fb \in Seq(FrameTypes)
              /\ selected_fb \in 0 .. Len(fb) /\ now \in {0, 1}

\* A record points at an action that is there and still says what was collected for it.
RecordOK(r, t) == /\ r.tp \in 1 .. Len(tps)
                  /\ r.action \in 1 .. Len(tps[r.tp].actions)
                  /\ r.data = DataOf(tps[r.tp].actions[r.action].ca, t)
FramesOK == \A f \in 1 .. Len(fb) : \A r \in 1 .. Len(fb[f].records) :
              RecordOK(fb[f].records[r], fb[f].when)

TraceInv == TraceTypes /\ FramesOK

\* Table u has all that t has: no tracepoint and no action of t was freed or changed its kind.
Extends(t, u) ==
  /\ Len(t) <= Len(u)
  /\ \A i \in 1 .. Len(t) :
       /\ Len(t[i].actions) <= Len(u[i].actions)
       /\ \A k \in 1 .. Len(t[i].actions) : u[i].actions[k].ca = t[i].actions[k].ca
-------------------------------------------------------------------------------
\* Sequences.

LEMMA LeastPosition ==
  ASSUME NEW S, S \subseteq Nat, S # {}
  PROVE  \E i \in S : \A j \in S : i <= j
<1>1. PICK i \in S : \A j \in S : ~ (<<j, i>> \in OpToRel(<, Nat))
  BY NatLessThanWellFounded, WFMin, Zenon
<1>2. \A j \in S : ~ (j < i)
  BY <1>1 DEF OpToRel
<1> QED
  BY <1>2

\* The recursive function that FlattenSeq is defined by exists, up to every n.
LEMMA FlattenDefined ==
  ASSUME NEW ss, Len(ss) \in Nat, NEW n \in 1 .. Len(ss)
  PROVE  \E f : f = [i \in 1 .. n |-> IF i = 1 THEN ss[i] ELSE f[i - 1] \o ss[i]]
<1> DEFINE Is(f, m) == f = [i \in 1 .. m |-> IF i = 1 THEN ss[i] ELSE f[i - 1] \o ss[i]]
           Bad == {m \in Nat \ {0} : ~ \E f : Is(f, m)}
<1>1. ASSUME Bad # {} PROVE FALSE
  <2>1. PICK m \in Bad : \A j \in Bad : m <= j
    BY <1>1, LeastPosition
  <2>2. CASE m = 1
    <3>1. Is([i \in 1 .. 1 |-> ss[i]], 1)
      <4>1. \A i \in 1 .. 1 : i = 1
        OBVIOUS
      <4> QED
        BY <4>1
    <3> HIDE DEF Is
    <3> QED
      BY <2>1, <2>2, <3>1
  <2>3. CASE m # 1
    <3>1. m - 1 \in Nat \ {0} /\ m - 1 \notin Bad
      <4>1. m \in Nat \ {0}
        BY <2>1
      <4> HIDE DEF Bad
      <4> QED
        BY <2>1, <2>3, <4>1
    <3>2. PICK f : Is(f, m - 1)
      BY <3>1
    <3>4. \A i \in 1 .. m - 1 : f[i] = IF i = 1 THEN ss[i] ELSE f[i - 1] \o ss[i]
      BY <3>2
    <3> DEFINE g == [i \in 1 .. m |-> IF i = m THEN f[m - 1] \o ss[m] ELSE f[i]]
    <3>3. Is(g, m)
      <4>1. ASSUME NEW i \in 1 .. m PROVE g[i] = IF i = 1 THEN ss[i] ELSE g[i - 1] \o ss[i]
        <5>1. CASE i = m
          <6>1. m - 1 \in 1 .. m /\ m - 1 # m /\ m \in 1 .. m /\ i # 1
            BY <2>1, <2>3, <3>1, <5>1
          <6>2. g[m] = f[m - 1] \o ss[m] /\ g[m - 1] = f[m - 1]
            BY <6>1
          <6> HIDE DEF g
          <6> QED
            BY <5>1, <6>1, <6>2
        <5>2. CASE i # m
          <6>1. i \in 1 .. m - 1 /\ g[i] = f[i] /\ (i # 1 => g[i - 1] = f[i - 1])
            BY <2>1, <3>1, <5>2
          <6> HIDE DEF g
          <6> QED
            BY <3>4, <6>1
        <5> QED
          BY <5>1, <5>2
      <4> QED
        BY <4>1
    <3> QED
      BY <2>1, <3>3
  <2> QED
    BY <2>2, <2>3
<1>2. n \in Nat \ {0}
  OBVIOUS
<1> QED
  BY <1>1, <1>2

\* The elements of a flattened sequence are elements of its parts.
LEMMA FlattenSeqOf ==
  ASSUME NEW S, NEW ss \in Seq(Seq(S))
  PROVE  FlattenSeq(ss) \in Seq(S)
<1>1. Len(ss) \in Nat /\ \A i \in 1 .. Len(ss) : ss[i] \in Seq(S)
  BY LenProperties, ElementOfSeq
<1>2. CASE Len(ss) = 0
  <2>1. ss = <<>>
    BY <1>2, EmptySeq
  <2> QED
    BY <1>2, <2>1 DEF FlattenSeq
<1>3. CASE Len(ss) # 0
  <2> DEFINE ff == CHOOSE f : f = [i \in 1 .. Len(ss) |-> IF i = 1 THEN ss[i] ELSE f[i - 1] \o ss[i]]
  <2>1. ff = [i \in 1 .. Len(ss) |-> IF i = 1 THEN ss[i] ELSE ff[i - 1] \o ss[i]]
    <3>1. Len(ss) \in 1 .. Len(ss)
      BY <1>1, <1>3
    <3> QED
      BY <1>1, <3>1, FlattenDefined
  <2>2. FlattenSeq(ss) = ff[Len(ss)]
    BY <1>3 DEF FlattenSeq
  <2> HIDE DEF ff
  <2> DEFINE Bad == {i \in 1 .. Len(ss) : ff[i] \notin Seq(S)}
  <2>3. ASSUME Bad # {} PROVE FALSE
    <3>1. PICK m \in Bad : \A j \in Bad : m <= j
      <4>1. Bad \subseteq Nat
        BY <1>1
      <4> HIDE DEF Bad
      <4> QED
        BY <2>3, <4>1, LeastPosition
    <3>2. CASE m = 1
      BY <1>1, <2>1, <3>1, <3>2
    <3>3. CASE m # 1
      <4>1. m - 1 \in 1 .. Len(ss) /\ m - 1 \notin Bad
        BY <1>1, <3>1, <3>3
      <4>2. ff[m] = ff[m - 1] \o ss[m]
        BY <1>1, <2>1, <3>1, <3>3
      <4>3. ff[m - 1] \in Seq(S) /\ ss[m] \in Seq(S)
        BY <1>1, <3>1, <4>1
      <4> QED
        BY <3>1, <4>2, <4>3, ConcatProperties
    <3> QED
      BY <3>2, <3>3
  <2> QED
    BY <1>1, <1>3, <2>2, <2>3
<1> QED
  BY <1>2, <1>3
\* The recursive function of AllSteps exists, up to every n.
LEMMA StepsDefined ==
  ASSUME NEW acts, NEW n \in Nat
  PROVE  \E f : f = [i \in 0 .. n |-> IF i = 0 THEN 0 ELSE f[i - 1] + acts[i].step_count]
<1> DEFINE Is(f, m) == f = [i \in 0 .. m |-> IF i = 0 THEN 0 ELSE f[i - 1] + acts[i].step_count]
           Bad == {m \in Nat : ~ \E f : Is(f, m)}
<1>1. ASSUME Bad # {} PROVE FALSE
  <2>1. PICK m \in Bad : \A j \in Bad : m <= j
    BY <1>1, LeastPosition
  <2>2. CASE m = 0
    <3>1. Is([i \in 0 .. 0 |-> 0], 0)
      <4>1. \A i \in 0 .. 0 : i = 0
        OBVIOUS
      <4> QED
        BY <4>1
    <3> HIDE DEF Is
    <3> QED
      BY <2>1, <2>2, <3>1
  <2>3. CASE m # 0
    <3>1. m - 1 \in Nat /\ m - 1 \notin Bad /\ m \in Nat
      <4>1. m \in Nat
        BY <2>1
      <4> HIDE DEF Bad
      <4> QED
        BY <2>1, <2>3, <4>1
    <3>2. PICK f : Is(f, m - 1)
      BY <3>1
    <3>3. \A i \in 0 .. m - 1 : f[i] = IF i = 0 THEN 0 ELSE f[i - 1] + acts[i].step_count
      BY <3>2
    <3> DEFINE g == [i \in 0 .. m |-> IF i = m THEN f[m - 1] + acts[m].step_count ELSE f[i]]
    <3>4. ASSUME NEW i \in 0 .. m
          PROVE  g[i] = IF i = 0 THEN 0 ELSE g[i - 1] + acts[i].step_count
      <4>1. CASE i = m
        <5>1. m - 1 \in 0 .. m /\ m - 1 # m /\ m \in 0 .. m /\ i # 0
          BY <2>3, <3>1, <4>1
        <5>2. g[m] = f[m - 1] + acts[m].step_count /\ g[m - 1] = f[m - 1]
          BY <5>1
        <5> HIDE DEF g
        <5> QED
          BY <4>1, <5>1, <5>2
      <4>2. CASE i # m
        <5>1. i \in 0 .. m - 1 /\ g[i] = f[i] /\ (i # 0 => g[i - 1] = f[i - 1])
          BY <3>1, <4>2
        <5> HIDE DEF g
        <5> QED
          BY <3>3, <5>1
      <4> QED
        BY <4>1, <4>2
    <3>5. Is(g, m)
      BY <3>4
    <3> QED
      BY <2>1, <3>5
  <2> QED
    BY <2>2, <2>3
<1> QED
  BY <1>1

\* The sum that AllSteps computes, as a function of the number of actions.
LEMMA StepsSum ==
  ASSUME NEW acts \in Seq(Actions)
  PROVE  \E f : /\ AllSteps(acts) = f[Len(acts)] /\ Len(acts) \in Nat /\ f[0] = 0
                /\ \A i \in 1 .. Len(acts) : /\ f[i] = f[i - 1] + acts[i].step_count
                                             /\ acts[i].step_count \in Nat
<1>1. Len(acts) \in Nat /\ \A i \in 1 .. Len(acts) : acts[i].step_count \in Nat
  <2>1. Len(acts) \in Nat /\ \A i \in 1 .. Len(acts) : acts[i] \in Actions
    BY LenProperties, ElementOfSeq
  <2> QED
    BY <2>1 DEF Actions
<1> DEFINE ff == CHOOSE f : f = [i \in 0 .. Len(acts) |->
                                   IF i = 0 THEN 0 ELSE f[i - 1] + acts[i].step_count]
<1>2. ff = [i \in 0 .. Len(acts) |-> IF i = 0 THEN 0 ELSE ff[i - 1] + acts[i].step_count]
  BY <1>1, StepsDefined
<1>3. AllSteps(acts) = ff[Len(acts)]
  BY DEF AllSteps
<1> HIDE DEF ff
<1>4. ff[0] = 0
  BY <1>1, <1>2
<1>5. ASSUME NEW i \in 1 .. Len(acts) PROVE ff[i] = ff[i - 1] + acts[i].step_count
  BY <1>1, <1>2
<1> QED
  BY <1>1, <1>3, <1>4, <1>5

\* Induction for the sums below.
LEMMA UpTo ==
  ASSUME NEW n \in Nat, NEW G, 0 \in G, \A i \in 1 .. n : i - 1 \in G => i \in G
  PROVE  0 .. n \subseteq G
<1> DEFINE Bad == (0 .. n) \ G
<1>1. ASSUME Bad # {} PROVE FALSE
  <2>1. PICK m \in Bad : \A j \in Bad : m <= j
    <3>1. Bad \subseteq Nat
      OBVIOUS
    <3> HIDE DEF Bad
    <3> QED
      BY <1>1, <3>1, LeastPosition
  <2>2. m \in 1 .. n /\ m - 1 \in 0 .. n /\ ~(m <= m - 1)
    BY <2>1
  <2> QED
    BY <2>1, <2>2
<1> QED
  BY <1>1

\* No action has more steps than all together, which are a number.
LEMMA StepsBound ==
  ASSUME NEW acts \in Seq(Actions)
  PROVE  /\ AllSteps(acts) \in Nat
         /\ \A k \in 1 .. Len(acts) : acts[k].step_count <= AllSteps(acts)
<1>1. PICK f : /\ AllSteps(acts) = f[Len(acts)] /\ Len(acts) \in Nat /\ f[0] = 0
               /\ \A i \in 1 .. Len(acts) : /\ f[i] = f[i - 1] + acts[i].step_count
                                            /\ acts[i].step_count \in Nat
  BY StepsSum
<1> DEFINE G == {i \in 0 .. Len(acts) :
                   f[i] \in Nat /\ \A k \in 1 .. i : acts[k].step_count <= f[i]}
<1>2. 0 \in G
  BY <1>1
<1>3. ASSUME NEW i \in 1 .. Len(acts), i - 1 \in G PROVE i \in G
  <2>1. /\ i - 1 \in 0 .. Len(acts) /\ f[i - 1] \in Nat /\ i \in 0 .. Len(acts)
        /\ \A k \in 1 .. i - 1 : acts[k].step_count <= f[i - 1]
    BY <1>1, <1>3
  <2>2. f[i] = f[i - 1] + acts[i].step_count /\ acts[i].step_count \in Nat
    BY <1>1
  <2>3. f[i] \in Nat /\ f[i - 1] <= f[i] /\ acts[i].step_count <= f[i]
    BY <2>1, <2>2
  <2>4. ASSUME NEW k \in 1 .. i PROVE acts[k].step_count <= f[i]
    <3>1. CASE k = i
      BY <2>3, <3>1
    <3>2. CASE k # i
      <4>1. k \in 1 .. i - 1 /\ k \in 1 .. Len(acts)
        BY <1>1, <3>2
      <4>2. acts[k].step_count <= f[i - 1] /\ acts[k].step_count \in Nat
        BY <1>1, <2>1, <4>1
      <4> QED
        BY <2>1, <2>3, <4>2
    <3> QED
      BY <3>1, <3>2
  <2> QED
    BY <2>1, <2>3, <2>4
<1>4. Len(acts) \in G
  <2> HIDE DEF G
  <2>1. 0 .. Len(acts) \subseteq G
    BY <1>1, <1>2, <1>3, UpTo
  <2> QED
    BY <1>1, <2>1
<1> QED
  BY <1>1, <1>4

\* Lists that agree in their first actions have the same steps in them.
LEMMA StepsAgree ==
  ASSUME NEW acts \in Seq(Actions), NEW more \in Seq(Actions),
         \A k \in 1 .. Len(acts) : more[k].step_count = acts[k].step_count
  PROVE  /\ Len(more) = Len(acts) => AllSteps(more) = AllSteps(acts)
         /\ Len(more) = Len(acts) + 1 =>
              AllSteps(more) = AllSteps(acts) + more[Len(more)].step_count
<1>1. PICK f : /\ AllSteps(acts) = f[Len(acts)] /\ Len(acts) \in Nat /\ f[0] = 0
               /\ \A i \in 1 .. Len(acts) : /\ f[i] = f[i - 1] + acts[i].step_count
                                            /\ acts[i].step_count \in Nat
  BY StepsSum
<1>2. PICK g : /\ AllSteps(more) = g[Len(more)] /\ Len(more) \in Nat /\ g[0] = 0
               /\ \A i \in 1 .. Len(more) : /\ g[i] = g[i - 1] + more[i].step_count
                                            /\ more[i].step_count \in Nat
  BY StepsSum
<1> SUFFICES ASSUME Len(acts) <= Len(more)
             PROVE  /\ Len(more) = Len(acts) => AllSteps(more) = AllSteps(acts)
                    /\ Len(more) = Len(acts) + 1 =>
                         AllSteps(more) = AllSteps(acts) + more[Len(more)].step_count
  BY <1>1, <1>2
<1> DEFINE G == {i \in 0 .. Len(acts) : g[i] = f[i]}
<1>3. 0 \in G
  BY <1>1, <1>2
<1>4. ASSUME NEW i \in 1 .. Len(acts), i - 1 \in G PROVE i \in G
  <2>1. i \in 1 .. Len(more) /\ g[i - 1] = f[i - 1] /\ i \in 0 .. Len(acts)
    BY <1>1, <1>2, <1>4
  <2>2. g[i] = g[i - 1] + more[i].step_count /\ f[i] = f[i - 1] + acts[i].step_count
    BY <1>1, <1>2, <2>1
  <2> QED
    BY <2>1, <2>2
<1>5. g[Len(acts)] = f[Len(acts)]
  <2>1. Len(acts) \in G
    <3> HIDE DEF G
    <3>1. 0 .. Len(acts) \subseteq G
      BY <1>1, <1>3, <1>4, UpTo
    <3> QED
      BY <1>1, <3>1
  <2> QED
    BY <2>1
<1>6. CASE Len(more) = Len(acts)
  BY <1>1, <1>2, <1>5, <1>6
<1>7. CASE Len(more) = Len(acts) + 1
  <2>1. Len(more) \in 1 .. Len(more) /\ Len(more) - 1 = Len(acts)
    BY <1>1, <1>7
  <2>2. g[Len(more)] = g[Len(acts)] + more[Len(more)].step_count
    BY <1>2, <2>1
  <2> QED
    BY <1>1, <1>2, <1>5, <1>7, <2>1, <2>2
<1> QED
  BY <1>6, <1>7
\* The first and the last while action of a list.
LEMMA LastWhileOnly ==
  ASSUME NEW acts \in Seq(Actions), NEW i \in 1 .. Len(acts), While(acts[i]),
         \A j \in i + 1 .. Len(acts) : ~While(acts[j])
  PROVE  LastWhile(acts) = i
<1>1. DOMAIN acts = 1 .. Len(acts) /\ Len(acts) \in Nat
  BY LenProperties
<1> DEFINE Is(k) == While(acts[k]) /\ \A j \in k + 1 .. Len(acts) : ~While(acts[j])
<1>2. ASSUME NEW k \in 1 .. Len(acts), Is(k) PROVE k = i
  <2>1. ~(k < i)
    <3> SUFFICES ASSUME k < i PROVE FALSE
      OBVIOUS
    <3>1. i \in k + 1 .. Len(acts)
      BY <1>1
    <3> QED
      BY <1>2, <3>1
  <2>2. ~(i < k)
    <3> SUFFICES ASSUME i < k PROVE FALSE
      OBVIOUS
    <3>1. k \in i + 1 .. Len(acts)
      BY <1>1
    <3> QED
      BY <1>2, <3>1
  <2> QED
    BY <1>1, <2>1, <2>2
<1>3. i \in DOMAIN acts /\ Is(i)
  BY <1>1
<1>4. LastWhile(acts) = CHOOSE k \in DOMAIN acts : Is(k)
  BY DEF LastWhile
<1> HIDE DEF Is
<1>5. (CHOOSE k \in DOMAIN acts : Is(k)) \in DOMAIN acts /\ Is(CHOOSE k \in DOMAIN acts : Is(k))
  BY <1>3
<1> QED
  BY <1>1, <1>2, <1>4, <1>5

LEMMA LastWhileIs ==
  ASSUME NEW acts \in Seq(Actions), HasWhile(acts)
  PROVE  /\ LastWhile(acts) \in 1 .. Len(acts) /\ While(acts[LastWhile(acts)])
         /\ \A j \in LastWhile(acts) + 1 .. Len(acts) : ~While(acts[j])
<1>1. DOMAIN acts = 1 .. Len(acts) /\ Len(acts) \in Nat
  BY LenProperties
<1> DEFINE S == {n \in 0 .. Len(acts) : n < Len(acts) /\ While(acts[Len(acts) - n])}
<1>2. S # {} /\ S \subseteq Nat
  <2>1. PICK i \in 1 .. Len(acts) : While(acts[i])
    BY <1>1 DEF HasWhile
  <2>2. Len(acts) - i \in 0 .. Len(acts) /\ Len(acts) - i < Len(acts)
        /\ Len(acts) - (Len(acts) - i) = i
    BY <1>1
  <2>3. Len(acts) - i \in S
    BY <2>1, <2>2
  <2> QED
    BY <1>1, <2>3
<1>3. PICK n \in S : \A j \in S : n <= j
  <2> HIDE DEF S
  <2> QED
    BY <1>2, LeastPosition
<1>4. PICK i \in 1 .. Len(acts) : i = Len(acts) - n /\ While(acts[i]) /\ n = Len(acts) - i
  <2>1. n \in 0 .. Len(acts) /\ n < Len(acts) /\ While(acts[Len(acts) - n])
    BY <1>3
  <2>2. Len(acts) - n \in 1 .. Len(acts) /\ n = Len(acts) - (Len(acts) - n)
    BY <1>1, <2>1
  <2> QED
    BY <2>1, <2>2
<1>5. ASSUME NEW j \in i + 1 .. Len(acts) PROVE ~While(acts[j])
  <2>1. /\ Len(acts) - j \in 0 .. Len(acts) /\ Len(acts) - j < Len(acts)
        /\ Len(acts) - (Len(acts) - j) = j /\ ~(n <= Len(acts) - j)
    BY <1>1, <1>4
  <2>2. Len(acts) - j \notin S
    <3> HIDE DEF S
    <3> QED
      BY <1>3, <2>1
  <2> QED
    BY <2>1, <2>2
<1> QED
  BY <1>4, <1>5, LastWhileOnly

LEMMA FirstWhileIn ==
  ASSUME NEW acts \in Seq(Actions), HasWhile(acts)
  PROVE  FirstWhile(acts) \in 1 .. Len(acts)
<1>1. DOMAIN acts = 1 .. Len(acts) /\ Len(acts) \in Nat
  BY LenProperties
<1> DEFINE S == {i \in 1 .. Len(acts) : While(acts[i])}
<1>2. S # {} /\ S \subseteq Nat
  BY <1>1 DEF HasWhile
<1>3. PICK i \in S : \A j \in S : i <= j
  <2> HIDE DEF S
  <2> QED
    BY <1>2, LeastPosition
<1>4. i \in 1 .. Len(acts) /\ While(acts[i])
  BY <1>3
<1>5. ASSUME NEW j \in 1 .. i - 1 PROVE ~While(acts[j])
  <2>1. j \in 1 .. Len(acts) /\ ~(i <= j)
    BY <1>1, <1>4
  <2> QED
    BY <1>3, <2>1
<1> QED
  BY <1>1, <1>4, <1>5 DEF FirstWhile
-------------------------------------------------------------------------------
\* The table.

LEMMA SoundTable ==
  ASSUME NEW t \in Seq(Sound)
  PROVE  /\ Len(t) \in Nat /\ DOMAIN t = 1 .. Len(t)
         /\ \A i \in 1 .. Len(t) :
              /\ t[i] \in TracepointTypes /\ Counted(t[i]) /\ CanStep(t[i]) /\ Stepped(t[i])
              /\ t[i].actions \in Seq(Actions) /\ Len(t[i].actions) \in Nat
              /\ DOMAIN t[i].actions = 1 .. Len(t[i].actions)
<1>1. /\ Len(t) \in Nat /\ DOMAIN t = 1 .. Len(t)
      /\ \A i \in 1 .. Len(t) : t[i] \in Sound
  BY LenProperties, ElementOfSeq
<1>2. ASSUME NEW i \in 1 .. Len(t)
      PROVE  /\ t[i] \in TracepointTypes /\ Counted(t[i]) /\ CanStep(t[i]) /\ Stepped(t[i])
             /\ t[i].actions \in Seq(Actions)
  BY <1>1 DEF Sound, Stepper, TracepointTypes
<1>3. ASSUME NEW i \in 1 .. Len(t)
      PROVE  /\ Len(t[i].actions) \in Nat
             /\ DOMAIN t[i].actions = 1 .. Len(t[i].actions)
  BY <1>2, LenProperties
<1> QED
  BY <1>1, <1>2, <1>3

\* A table that grows leaves every record what it was.
LEMMA RecordKept ==
  ASSUME TraceInv, tps' \in Seq(Sound), Extends(tps, tps'), NEW r, NEW t, RecordOK(r, t)
  PROVE  RecordOK(r, t)'
<1>1. /\ Len(tps) \in Nat /\ Len(tps') \in Nat /\ Len(tps) <= Len(tps')
      /\ r.tp \in 1 .. Len(tps)
  BY SoundTable DEF TraceInv, TraceTypes, Extends, RecordOK
<1>2. r.tp \in 1 .. Len(tps')
  BY <1>1
<1>3. Len(tps[r.tp].actions) \in Nat /\ Len(tps'[r.tp].actions) \in Nat
  BY <1>1, <1>2, SoundTable DEF TraceInv, TraceTypes
<1>4. /\ Len(tps[r.tp].actions) <= Len(tps'[r.tp].actions)
      /\ \A k \in 1 .. Len(tps[r.tp].actions) :
           tps'[r.tp].actions[k].ca = tps[r.tp].actions[k].ca
  BY <1>1 DEF Extends
<1>5. r.action \in 1 .. Len(tps[r.tp].actions)
  BY DEF RecordOK
<1>6. r.action \in 1 .. Len(tps'[r.tp].actions)
  BY <1>3, <1>4, <1>5
<1>7. tps'[r.tp].actions[r.action].ca = tps[r.tp].actions[r.action].ca
  BY <1>4, <1>5
<1> QED
  BY <1>2, <1>6, <1>7 DEF RecordOK

LEMMA FramesKept ==
  ASSUME TraceInv, tps' \in Seq(Sound), Extends(tps, tps'), fb' = fb
  PROVE  FramesOK'
<1> SUFFICES ASSUME NEW f \in 1 .. Len(fb), NEW r \in 1 .. Len(fb[f].records)
             PROVE  RecordOK(fb[f].records[r], fb[f].when)'
  BY DEF FramesOK
<1>1. PICK x, w : x = fb[f].records[r] /\ w = fb[f].when
  OBVIOUS
<1>2. RecordOK(x, w)
  BY <1>1 DEF TraceInv, FramesOK
<1>3. RecordOK(x, w)'
  BY <1>2, RecordKept
<1>4. fb'[f].records[r] = x /\ fb'[f].when = w
  BY <1>1
<1> QED
  BY <1>3, <1>4 DEF RecordOK

\* The table with the tracepoint of a packet in it.
LEMMA Added ==
  ASSUME TraceInv, NEW n \in Number, NEW a \in Pc, NEW t, t = add_tracepoint(n, a)
  PROVE  t \in Seq(Sound) /\ Extends(tps, t) /\ Entry(t, n, a) \in 1 .. Len(t)
<1>1. tps \in Seq(Sound) /\ Len(tps) \in Nat /\ DOMAIN tps = 1 .. Len(tps)
  BY SoundTable DEF TraceInv, TraceTypes
<1> DEFINE Is(i) == t[i].number = n /\ t[i].address = a
<1>2. t \in Seq(Sound) /\ Extends(tps, t) /\ \E i \in 1 .. Len(t) : Is(i)
  <2>1. CASE find_tp_id(n, a) = {}
    <3> DEFINE new == NewTracepoint(n, a)
    <3>1. new \in Sound /\ new.number = n /\ new.address = a
      <4>1. new \in TracepointTypes
        BY EmptySeq DEF NewTracepoint, TracepointTypes
      <4> QED
        BY <4>1 DEF NewTracepoint, Sound, Stepper, AtMost, Counted, CanStep, Stepped
    <3>2. t = Append(tps, new)
      BY <2>1 DEF add_tracepoint
    <3> HIDE DEF new
    <3>3. /\ t \in Seq(Sound) /\ Len(t) = Len(tps) + 1 /\ t[Len(tps) + 1] = new
          /\ \A i \in 1 .. Len(tps) : t[i] = tps[i]
      BY <1>1, <3>1, <3>2, AppendProperties
    <3>4. \A i \in 1 .. Len(tps) : Len(tps[i].actions) \in Nat
      BY <1>1, SoundTable
    <3>5. Extends(tps, t)
      BY <1>1, <3>3, <3>4 DEF Extends
    <3>6. Len(t) \in 1 .. Len(t) /\ Is(Len(t))
      BY <1>1, <3>1, <3>3
    <3> QED
      BY <3>3, <3>5, <3>6
  <2>2. CASE find_tp_id(n, a) # {}
    <3>1. t = tps
      BY <2>2 DEF add_tracepoint
    <3>2. \A i \in 1 .. Len(tps) : Len(tps[i].actions) \in Nat
      BY <1>1, SoundTable
    <3>3. Extends(tps, tps)
      BY <1>1, <3>2 DEF Extends
    <3>4. \E i \in 1 .. Len(tps) : tps[i].number = n /\ tps[i].address = a
      BY <1>1, <2>2 DEF find_tp_id
    <3> QED
      BY <1>1, <3>1, <3>3, <3>4
  <2> QED
    BY <2>1, <2>2
<1>3. Entry(t, n, a) \in 1 .. Len(t)
  <2>1. DOMAIN t = 1 .. Len(t) /\ Len(t) \in Nat
    BY <1>2, SoundTable
  <2> DEFINE S == {i \in 1 .. Len(t) : Is(i)}
  <2>2. S # {} /\ S \subseteq Nat
    BY <1>2, <2>1
  <2>3. PICK i \in S : \A j \in S : i <= j
    <3> HIDE DEF S
    <3> QED
      BY <2>2, LeastPosition
  <2>4. i \in DOMAIN t /\ Is(i)
    BY <2>1, <2>3
  <2>5. ASSUME NEW j \in 1 .. i - 1 PROVE ~Is(j)
    <3>1. j \in 1 .. Len(t) /\ ~(i <= j)
      BY <2>1, <2>4
    <3> QED
      BY <2>3, <3>1
  <2> QED
    BY <2>1, <2>4, <2>5 DEF Entry
<1> QED
  BY <1>2, <1>3

\* An entry is replaced by a sound one that has its actions, and maybe more.
LEMMA EntryReplaced ==
  ASSUME TraceInv, NEW t \in Seq(Sound), Extends(tps, t), NEW e \in 1 .. Len(t), NEW x \in Sound,
         Len(t[e].actions) <= Len(x.actions),
         \A k \in 1 .. Len(t[e].actions) : x.actions[k].ca = t[e].actions[k].ca,
         tps' = [t EXCEPT ![e] = x], UNCHANGED <<fb, selected_fb, now>>
  PROVE  TraceInv'
<1>1. /\ tps' \in Seq(Sound) /\ Len(tps') = Len(t)
      /\ \A j \in 1 .. Len(t) : tps'[j] = IF j = e THEN x ELSE t[j]
  BY ExceptSeq
<1>2. /\ tps \in Seq(Sound) /\ Len(tps) \in Nat /\ Len(t) \in Nat /\ Len(tps) <= Len(t)
      /\ \A i \in 1 .. Len(tps) : Len(tps[i].actions) \in Nat
      /\ \A i \in 1 .. Len(t) : Len(t[i].actions) \in Nat
  BY SoundTable DEF TraceInv, TraceTypes, Extends
<1>3. Len(x.actions) \in Nat
  <2>1. x.actions \in Seq(Actions)
    BY DEF Sound, Stepper, TracepointTypes
  <2> QED
    BY <2>1, LenProperties
<1>4. ASSUME NEW i \in 1 .. Len(tps)
      PROVE  /\ Len(tps[i].actions) <= Len(tps'[i].actions)
             /\ \A k \in 1 .. Len(tps[i].actions) :
                  tps'[i].actions[k].ca = tps[i].actions[k].ca
  <2>1. i \in 1 .. Len(t)
    BY <1>2
  <2>2. /\ Len(tps[i].actions) <= Len(t[i].actions)
        /\ \A k \in 1 .. Len(tps[i].actions) : t[i].actions[k].ca = tps[i].actions[k].ca
    BY DEF Extends
  <2>3. CASE i # e
    <3>1. tps'[i] = t[i]
      BY <1>1, <2>1, <2>3
    <3> QED
      BY <2>2, <3>1
  <2>4. CASE i = e
    <3>1. tps'[i] = x /\ t[i] = t[e]
      BY <1>1, <2>1, <2>4
    <3>2. Len(tps[i].actions) <= Len(x.actions)
      BY <1>2, <1>3, <2>1, <2>2, <3>1
    <3>3. ASSUME NEW k \in 1 .. Len(tps[i].actions)
          PROVE  x.actions[k].ca = tps[i].actions[k].ca
      <4>1. k \in 1 .. Len(t[e].actions)
        BY <1>2, <2>1, <2>2, <3>1
      <4> QED
        BY <2>2, <3>1, <4>1
    <3> QED
      BY <3>1, <3>2, <3>3
  <2> QED
    BY <2>3, <2>4
<1>5. Extends(tps, tps')
  BY <1>1, <1>2, <1>4 DEF Extends
<1>6. FramesOK'
  BY <1>1, <1>5, FramesKept
<1>7. TraceTypes'
  BY <1>1 DEF TraceInv, TraceTypes
<1> QED
  BY <1>6, <1>7 DEF TraceInv

LEMMA EnableKeeps ==
  ASSUME TraceInv, NEW n \in Number, NEW a \in Pc, NEW status \in {"ENABLED", "DISABLED"},
         NEW step \in StepCounts, NEW pass \in PassCounts, Enable(n, a, status, step, pass)
  PROVE  TraceInv'
<1>1. PICK t : t = add_tracepoint(n, a)
  OBVIOUS
<1>2. PICK e : e = Entry(t, n, a)
  OBVIOUS
<1>3. t \in Seq(Sound) /\ Extends(tps, t) /\ e \in 1 .. Len(t)
  BY <1>1, <1>2, Added
<1> DEFINE x == [t[e] EXCEPT !.status = status, !.remaining_step = step,
                             !.pass_count = pass, !.remaining_pass = pass,
                             !.visits = 0, !.hits = 0, !.run = 0]
<1>4. tps' = [t EXCEPT ![e] = x] /\ UNCHANGED <<fb, selected_fb, now>>
  BY <1>1, <1>2 DEF Enable
<1>5. t[e] \in TracepointTypes /\ Len(t[e].actions) \in Nat /\ Stepped(t[e])
  BY <1>3, SoundTable
<1>6. step \in Nat /\ pass \in Nat
  BY TraceConstants
<1>7. x \in TracepointTypes /\ x.actions = t[e].actions
  BY <1>5, <1>6 DEF TracepointTypes
<1>8. Counted(x) /\ CanStep(x) /\ Stepped(x)
  <2>1. Counted(x) /\ CanStep(x) /\ x.status # "STEPPING" /\ x.run = 0
    BY <1>5, <1>6 DEF TracepointTypes, Counted, CanStep, AtMost
  <2> HIDE DEF x
  <2> QED
    BY <1>5, <1>7, <2>1 DEF Stepped
<1>9. x \in Sound
  BY <1>7, <1>8 DEF Sound, Stepper
<1> HIDE DEF x
<1>10. Len(t[e].actions) <= Len(x.actions)
  BY <1>5, <1>7
<1> QED
  BY <1>3, <1>4, <1>7, <1>9, <1>10, EntryReplaced

LEMMA AddActionKeeps ==
  ASSUME TraceInv, NEW n \in Number, NEW a \in Pc, NEW stepping \in BOOLEAN,
         NEW p \in Payloads, AddAction(n, a, stepping, p)
  PROVE  TraceInv'
<1>1. PICK t : t = add_tracepoint(n, a)
  OBVIOUS
<1>2. PICK e : e = Entry(t, n, a)
  OBVIOUS
<1>3. t \in Seq(Sound) /\ Extends(tps, t) /\ e \in 1 .. Len(t)
  BY <1>1, <1>2, Added
<1>4. PICK steps : steps = IF stepping THEN t[e].remaining_step ELSE 0
  OBVIOUS
<1>5. PICK act : act = [stepping |-> stepping, ca |-> Decoded(p),
                        step_count |-> steps, remaining_steps |-> steps]
  OBVIOUS
<1> DEFINE x == [t[e] EXCEPT !.actions = Append(t[e].actions, act)]
<1>6. tps' = [t EXCEPT ![e] = x] /\ UNCHANGED <<fb, selected_fb, now>>
  BY <1>1, <1>2, <1>3, <1>4, <1>5 DEF AddAction
<1>7. /\ t[e] \in TracepointTypes /\ Counted(t[e]) /\ CanStep(t[e]) /\ Stepped(t[e])
      /\ t[e].actions \in Seq(Actions) /\ Len(t[e].actions) \in Nat
      /\ DOMAIN t[e].actions = 1 .. Len(t[e].actions)
  BY <1>3, SoundTable
<1>8. act \in Actions /\ act.remaining_steps = steps /\ act.step_count = steps /\ steps \in Nat
  <2>1. steps \in Nat
    BY <1>4, <1>7 DEF TracepointTypes
  <2> QED
    BY <1>5, <2>1 DEF Actions, Collect
<1>9. /\ Append(t[e].actions, act) \in Seq(Actions)
      /\ Len(Append(t[e].actions, act)) = Len(t[e].actions) + 1
      /\ \A k \in 1 .. Len(t[e].actions) : Append(t[e].actions, act)[k] = t[e].actions[k]
      /\ Append(t[e].actions, act)[Len(t[e].actions) + 1] = act
  BY <1>7, <1>8, AppendProperties
<1>10. /\ x \in TracepointTypes /\ x.actions = Append(t[e].actions, act)
       /\ x.status = t[e].status /\ x.run = t[e].run /\ Counted(x)
  BY <1>7, <1>9 DEF TracepointTypes, Counted
<1> HIDE DEF x
<1>11. DOMAIN x.actions = 1 .. Len(x.actions) /\ Len(x.actions) = Len(t[e].actions) + 1
  BY <1>9, <1>10, LenProperties
<1>12. CanStep(x)
  BY <1>7, <1>9, <1>10, <1>11 DEF CanStep, HasWhile, While
<1>13. Stepped(x)
  <2>1. /\ x.actions \in Seq(Actions)
        /\ \A k \in 1 .. Len(t[e].actions) : x.actions[k] = t[e].actions[k]
        /\ x.actions[Len(x.actions)] = act
    BY <1>9, <1>10, <1>11
  <2>2. ASSUME NEW k \in 1 .. Len(x.actions)
        PROVE  x.actions[k].remaining_steps <= x.actions[k].step_count
    <3>1. CASE k = Len(x.actions)
      BY <1>8, <2>1, <3>1
    <3>2. CASE k # Len(x.actions)
      <4>1. k \in 1 .. Len(t[e].actions)
        BY <1>7, <1>11, <3>2
      <4> QED
        BY <1>7, <2>1, <4>1 DEF Stepped
    <3> QED
      BY <3>1, <3>2
  <2>3. ASSUME x.status = "STEPPING"
        PROVE  x.run + x.actions[LastWhile(x.actions)].remaining_steps <= AllSteps(x.actions)
    <3>1. HasWhile(t[e].actions)
      BY <1>7, <1>10, <2>3 DEF CanStep
    <3>2. PICK l \in 1 .. Len(t[e].actions) :
            /\ l = LastWhile(t[e].actions) /\ While(t[e].actions[l])
            /\ \A j \in l + 1 .. Len(t[e].actions) : ~While(t[e].actions[j])
      BY <1>7, <3>1, LastWhileIs
    <3>3. /\ x.run + t[e].actions[l].remaining_steps <= AllSteps(t[e].actions)
          /\ x.run \in Nat /\ t[e].actions[l].remaining_steps \in Nat
      <4>1. t[e].actions[l] \in Actions
        BY <1>7, ElementOfSeq
      <4>2. t[e].actions[l].remaining_steps \in Nat
        BY <4>1 DEF Actions
      <4>3. x.run \in Nat
        BY <1>10 DEF TracepointTypes
      <4> QED
        BY <1>7, <1>10, <2>3, <3>2, <4>2, <4>3 DEF Stepped
    <3>4. AllSteps(x.actions) = AllSteps(t[e].actions) + steps /\ AllSteps(t[e].actions) \in Nat
      <4>1. \A k \in 1 .. Len(t[e].actions) :
              x.actions[k].step_count = t[e].actions[k].step_count
        BY <2>1
      <4>2. AllSteps(x.actions) = AllSteps(t[e].actions) + x.actions[Len(x.actions)].step_count
        BY <1>7, <1>11, <2>1, <4>1, StepsAgree
      <4>3. AllSteps(t[e].actions) \in Nat
        BY <1>7, StepsBound
      <4> QED
        BY <1>8, <2>1, <4>2, <4>3
    <3>5. CASE stepping
      <4>1. While(x.actions[Len(x.actions)]) /\ Len(x.actions) \in 1 .. Len(x.actions)
        BY <1>5, <1>7, <1>11, <2>1, <3>5 DEF While
      <4>2. LastWhile(x.actions) = Len(x.actions)
        <5>1. \A j \in Len(x.actions) + 1 .. Len(x.actions) : ~While(x.actions[j])
          BY <1>7, <1>11
        <5> QED
          BY <2>1, <4>1, <5>1, LastWhileOnly
      <4> QED
        BY <1>8, <2>1, <3>3, <3>4, <4>2
    <3>6. CASE ~stepping
      <4>1. ~While(x.actions[Len(x.actions)])
        BY <1>5, <2>1, <3>6 DEF While
      <4>2. l \in 1 .. Len(x.actions) /\ While(x.actions[l])
        BY <1>7, <1>11, <2>1, <3>2
      <4>3. ASSUME NEW j \in l + 1 .. Len(x.actions) PROVE ~While(x.actions[j])
        <5>1. CASE j = Len(x.actions)
          BY <4>1, <5>1
        <5>2. CASE j # Len(x.actions)
          <6>1. j \in l + 1 .. Len(t[e].actions) /\ j \in 1 .. Len(t[e].actions)
            BY <1>7, <1>11, <5>2
          <6> QED
            BY <2>1, <3>2, <6>1
        <5> QED
          BY <5>1, <5>2
      <4>4. LastWhile(x.actions) = l
        BY <2>1, <4>2, <4>3, LastWhileOnly
      <4>5. x.actions[l] = t[e].actions[l]
        BY <2>1
      <4> QED
        BY <1>8, <3>3, <3>4, <4>4, <4>5
    <3> QED
      BY <3>5, <3>6
  <2>4. x.status # "STEPPING" => x.run = 0
    BY <1>7, <1>10 DEF Stepped
  <2> QED
    BY <2>2, <2>3, <2>4 DEF Stepped
<1>14. x \in Sound
  BY <1>10, <1>12, <1>13 DEF Sound, Stepper
<1>15. /\ Len(t[e].actions) <= Len(x.actions)
       /\ \A k \in 1 .. Len(t[e].actions) : x.actions[k].ca = t[e].actions[k].ca
  BY <1>7, <1>9, <1>10, <1>11
<1> QED
  BY <1>3, <1>6, <1>14, <1>15, EntryReplaced
-------------------------------------------------------------------------------
\* Recording.

\* A tracepoint after its actions: the same ones, and a while action if it steps on.
LEMMA PerformedKeeps ==
  ASSUME NEW tp \in Stepper, NEW q, q = Performed(tp)
  PROVE  /\ q \in Stepper /\ Len(q.actions) = Len(tp.actions)
         /\ \A k \in 1 .. Len(tp.actions) : q.actions[k].ca = tp.actions[k].ca
         /\ q.pass_count = tp.pass_count /\ q.remaining_pass = tp.remaining_pass
         /\ q.visits = tp.visits /\ q.hits = tp.hits
<1>1. /\ tp \in TracepointTypes /\ CanStep(tp) /\ Stepped(tp)
      /\ tp.actions \in Seq(Actions)
  BY DEF Sound, Stepper, TracepointTypes
<1>2. /\ DOMAIN tp.actions = 1 .. Len(tp.actions) /\ Len(tp.actions) \in Nat
      /\ \A k \in 1 .. Len(tp.actions) : tp.actions[k] \in Actions
  BY <1>1, LenProperties, ElementOfSeq
<1>3. CASE ~HasWhile(tp.actions)
  BY <1>3 DEF Performed
<1>4. CASE HasWhile(tp.actions)
  <2> DEFINE acts == [k \in 1 .. Len(tp.actions) |->
                        IF While(tp.actions[k]) THEN AfterStep(tp.actions[k]) ELSE tp.actions[k]]
  <2>1. ASSUME NEW k \in 1 .. Len(tp.actions)
        PROVE  /\ acts[k] \in Actions /\ acts[k].ca = tp.actions[k].ca
               /\ acts[k].stepping = tp.actions[k].stepping
               /\ acts[k].step_count = tp.actions[k].step_count
               /\ acts[k].remaining_steps <= acts[k].step_count
               /\ While(tp.actions[k]) /\ ~(tp.actions[k].remaining_steps <= 1) =>
                    acts[k].remaining_steps = tp.actions[k].remaining_steps - 1
    <3>1. /\ tp.actions[k] \in Actions
          /\ tp.actions[k].remaining_steps <= tp.actions[k].step_count
      BY <1>1, <1>2 DEF Stepped
    <3>2. acts[k] = IF While(tp.actions[k]) THEN AfterStep(tp.actions[k]) ELSE tp.actions[k]
      OBVIOUS
    <3> HIDE DEF acts
    <3> QED
      BY <3>1, <3>2 DEF AfterStep, Actions
  <2>2. acts \in Seq(Actions) /\ Len(acts) = Len(tp.actions) /\ DOMAIN acts = 1 .. Len(tp.actions)
    <3>1. acts \in [1 .. Len(tp.actions) -> Actions]
      BY <2>1
    <3> HIDE DEF acts
    <3> QED
      BY <1>2, <3>1
  <2>3. HasWhile(acts)
    BY <1>2, <1>4, <2>1, <2>2 DEF HasWhile, While
  <2>4. PICK ends : ends = (tp.actions[LastWhile(tp.actions)].remaining_steps <= 1)
    OBVIOUS
  <2>5. PICK status \in {"ENABLED", "STEPPING"}, run \in Nat :
          /\ status = IF ends THEN "ENABLED" ELSE "STEPPING"
          /\ run = IF ends THEN 0 ELSE tp.run + 1
    BY <1>1 DEF TracepointTypes
  <2>6. q = [tp EXCEPT !.actions = acts, !.status = status, !.run = run]
    BY <1>1, <1>2, <1>4, <2>4, <2>5 DEF Performed, TracepointTypes
  <2> HIDE DEF acts
  <2>7. /\ q \in TracepointTypes /\ q.actions = acts
        /\ q.pass_count = tp.pass_count /\ q.remaining_pass = tp.remaining_pass
        /\ q.visits = tp.visits /\ q.hits = tp.hits
    BY <1>1, <2>2, <2>6 DEF TracepointTypes
  <2>8. Stepped(q)
    <3>1. q.status = status /\ q.run = run
      BY <1>1, <2>6 DEF TracepointTypes
    <3>2. ASSUME NEW k \in 1 .. Len(acts)
          PROVE  acts[k].remaining_steps <= acts[k].step_count
      BY <1>2, <2>1, <2>2
    <3>3. status # "STEPPING" => run = 0
      BY <2>5
    <3>4. ASSUME status = "STEPPING"
          PROVE  run + acts[LastWhile(acts)].remaining_steps <= AllSteps(acts)
      <4>1. PICK l \in 1 .. Len(tp.actions) :
              /\ l = LastWhile(tp.actions) /\ While(tp.actions[l])
              /\ \A j \in l + 1 .. Len(tp.actions) : ~While(tp.actions[j])
        BY <1>1, <1>4, LastWhileIs
      <4>2. LastWhile(acts) = l
        <5>1. l \in 1 .. Len(acts) /\ While(acts[l])
          BY <2>1, <2>2, <4>1 DEF While
        <5>2. ASSUME NEW j \in l + 1 .. Len(acts) PROVE ~While(acts[j])
          <6>1. j \in 1 .. Len(tp.actions) /\ j \in l + 1 .. Len(tp.actions)
            BY <1>2, <2>2
          <6> QED
            BY <2>1, <4>1, <6>1 DEF While
        <5> QED
          BY <2>2, <5>1, <5>2, LastWhileOnly
      <4>3. /\ ~(tp.actions[l].remaining_steps <= 1) /\ run = tp.run + 1
        BY <2>4, <2>5, <3>4, <4>1
      <4>4. /\ tp.actions[l].remaining_steps \in Nat /\ tp.actions[l].step_count \in Nat
            /\ tp.run \in Nat
        BY <1>1, <1>2 DEF Actions, TracepointTypes
      <4>5. acts[l].remaining_steps = tp.actions[l].remaining_steps - 1
        BY <2>1, <4>1, <4>3
      <4>6. AllSteps(acts) = AllSteps(tp.actions)
        BY <1>1, <2>1, <2>2, StepsAgree
      <4>7. AllSteps(tp.actions) \in Nat /\ tp.actions[l].step_count <= AllSteps(tp.actions)
        BY <1>1, StepsBound
      <4>8. tp.run + tp.actions[l].remaining_steps <= AllSteps(tp.actions)
        <5>1. CASE tp.status = "STEPPING"
          BY <1>1, <4>1, <5>1 DEF Stepped
        <5>2. CASE tp.status # "STEPPING"
          <6>1. tp.run = 0 /\ tp.actions[l].remaining_steps <= tp.actions[l].step_count
            BY <1>1, <5>2 DEF Stepped
          <6> QED
            BY <4>4, <4>7, <6>1
        <5> QED
          BY <5>1, <5>2
      <4> QED
        BY <4>2, <4>3, <4>4, <4>5, <4>6, <4>7, <4>8
    <3> QED
      BY <2>7, <3>1, <3>2, <3>3, <3>4 DEF Stepped
  <2>9. q \in Stepper
    BY <2>3, <2>7, <2>8 DEF Stepper, CanStep
  <2> QED
    BY <2>1, <2>2, <2>7, <2>9
<1> QED
  BY <1>3, <1>4

\* The records that action lists of tracepoint i can add now.
NewRecords(i) == {Record(i, j, tps[i].actions[j].ca) : j \in 1 .. Len(tps[i].actions)}

LEMMA RecordsNew ==
  ASSUME TraceInv, NEW i \in 1 .. Len(tps), NEW k \in 1 .. Len(tps[i].actions) + 1
  PROVE  Records(i, k) \in Seq(NewRecords(i))
<1>1. Len(tps[i].actions) \in Nat
  BY SoundTable DEF TraceInv, TraceTypes
<1>2. PICK n \in Nat : n = Len(tps[i].actions) + 1 - k
  BY <1>1
<1> DEFINE ss == [j \in 1 .. n |-> do_action(i, k + j - 1)]
<1>3. ASSUME NEW j \in 1 .. n PROVE do_action(i, k + j - 1) \in Seq(NewRecords(i))
  <2>1. k + j - 1 \in 1 .. Len(tps[i].actions)
    BY <1>1, <1>2
  <2>2. PICK m \in 1 .. Len(tps[i].actions) : m = k + j - 1
    BY <2>1
  <2>3. Record(i, m, tps[i].actions[m].ca) \in NewRecords(i)
    BY DEF NewRecords
  <2>4. do_action(i, m) \in {<<>>, <<Record(i, m, tps[i].actions[m].ca)>>}
    BY DEF do_action
  <2>5. PICK x \in NewRecords(i) : x = Record(i, m, tps[i].actions[m].ca)
    BY <2>3
  <2>6. <<>> \in Seq(NewRecords(i)) /\ <<x>> \in Seq(NewRecords(i))
    OBVIOUS
  <2> QED
    BY <2>2, <2>4, <2>5, <2>6
<1>4. ss \in Seq(Seq(NewRecords(i)))
  BY <1>3
<1>5. FlattenSeq(ss) \in Seq(NewRecords(i))
  <2> HIDE DEF ss
  <2> QED
    BY <1>4, FlattenSeqOf
<1> QED
  BY <1>2, <1>5 DEF Records

LEMMA NewRecordOK ==
  ASSUME TraceInv, NEW i \in 1 .. Len(tps), NEW r \in NewRecords(i)
  PROVE  r \in RecordTypes /\ RecordOK(r, now)
<1>1. /\ Len(tps[i].actions) \in Nat /\ tps[i].actions \in Seq(Actions)
      /\ Len(tps) \in Nat /\ now \in {0, 1}
  BY SoundTable DEF TraceInv, TraceTypes
<1>2. PICK j \in 1 .. Len(tps[i].actions) : r = Record(i, j, tps[i].actions[j].ca)
  BY DEF NewRecords
<1>3. tps[i].actions[j].ca \in Collect
  <2>1. tps[i].actions[j] \in Actions
    BY <1>1, ElementOfSeq
  <2> QED
    BY <2>1 DEF Actions
<1>4. r = [tp |-> i, action |-> j, data |-> DataOf(tps[i].actions[j].ca, now)]
  BY <1>2 DEF Record, Collected, DataOf, There, From
<1>5. r.tp = i /\ r.action = j /\ r.data = DataOf(tps[i].actions[j].ca, now)
  BY <1>4
<1>6. RecordOK(r, now)
  BY <1>5 DEF RecordOK
<1>7. r \in RecordTypes
  BY <1>1, <1>3, <1>4 DEF RecordTypes
<1> QED
  BY <1>6, <1>7

\* The frames that this instruction can add.
NewFrames == {f \in FrameTypes : f.when = now /\ \A r \in 1 .. Len(f.records) :
                                                  RecordOK(f.records[r], now)}

LEMMA FrameNew ==
  ASSUME TraceInv, NEW i \in 1 .. Len(tps), NEW k \in 1 .. Len(tps[i].actions) + 1, NEW tp \in Stepper
  PROVE  Frame(tp, Records(i, k)) \in NewFrames
<1>1. PICK rs : rs = Records(i, k)
  OBVIOUS
<1>2. rs \in Seq(NewRecords(i)) /\ now \in {0, 1} /\ tp.number \in Number
  BY <1>1, RecordsNew DEF TraceInv, TraceTypes, Sound, Stepper, TracepointTypes
<1>3. rs \in Seq(RecordTypes)
  <2>1. NewRecords(i) \subseteq RecordTypes
    BY NewRecordOK
  <2> QED
    BY <1>2, <2>1, SeqMonotonic
<1>4. \A r \in 1 .. Len(rs) : RecordOK(rs[r], now)
  <2>1. ASSUME NEW r \in 1 .. Len(rs) PROVE RecordOK(rs[r], now)
    <3>1. rs[r] \in NewRecords(i)
      BY <1>2, ElementOfSeq
    <3> QED
      BY <3>1, NewRecordOK
  <2> QED
    BY <2>1
<1>5. PICK f : f = Frame(tp, Records(i, k))
  OBVIOUS
<1>6. f \in FrameTypes /\ f.records = rs /\ f.when = now
  BY <1>1, <1>2, <1>3, <1>5 DEF Frame, FrameTypes
<1> QED
  BY <1>4, <1>5, <1>6 DEF NewFrames

\* What the pass count makes of a look at a tracepoint: one pass less and one frame, or
\* neither.
Passed(tp, h) ==
  /\ h.tp.pass_count = tp.pass_count /\ h.tp.visits = tp.visits /\ h.tp.hits = tp.hits
  /\ Len(h.frames) \in Nat
  /\ IF tp.status # "STEPPING" /\ tp.pass_count # 0 /\ tp.remaining_pass # 0
     THEN h.tp.remaining_pass = tp.remaining_pass - 1 /\ Len(h.frames) = 1
     ELSE h.tp.remaining_pass = tp.remaining_pass
  /\ tp.status # "STEPPING" /\ tp.pass_count # 0 /\ tp.remaining_pass = 0 => Len(h.frames) = 0

LEMMA Handled ==
  ASSUME TraceInv, NEW i \in 1 .. Len(tps), NEW h, h = handle_tracepoint(i)
  PROVE  /\ h.tp \in Stepper /\ h.frames \in Seq(NewFrames)
         /\ Len(h.tp.actions) = Len(tps[i].actions)
         /\ \A k \in 1 .. Len(tps[i].actions) : h.tp.actions[k].ca = tps[i].actions[k].ca
         /\ Passed(tps[i], h) /\ h = [tp |-> h.tp, frames |-> h.frames]
<1>1. PICK tp : tp = tps[i]
  OBVIOUS
<1>2. /\ tp \in TracepointTypes /\ Counted(tp) /\ CanStep(tp) /\ Stepped(tp)
      /\ tp.actions \in Seq(Actions) /\ Len(tp.actions) \in Nat
  BY <1>1, SoundTable DEF TraceInv, TraceTypes
<1>3. tp \in Stepper
  BY <1>2 DEF Stepper
<1>4. ASSUME NEW x \in Stepper, x.actions = tp.actions, NEW k \in 1 .. Len(tp.actions) + 1,
             h = Recorded(i, x, k)
      PROVE  /\ h.tp \in Stepper /\ h.frames \in Seq(NewFrames)
             /\ Len(h.tp.actions) = Len(tps[i].actions)
             /\ \A m \in 1 .. Len(tps[i].actions) : h.tp.actions[m].ca = tps[i].actions[m].ca
             /\ h.tp.pass_count = x.pass_count /\ h.tp.remaining_pass = x.remaining_pass
             /\ h.tp.visits = x.visits /\ h.tp.hits = x.hits /\ Len(h.frames) = 1
             /\ h = [tp |-> h.tp, frames |-> h.frames]
  <2>1. /\ h.tp = Performed(x) /\ h.frames = <<Frame(x, Records(i, k))>>
        /\ h = [tp |-> h.tp, frames |-> h.frames]
    BY <1>4 DEF Recorded
  <2>2. Frame(x, Records(i, k)) \in NewFrames
    BY <1>1, <1>4, FrameNew
  <2>3. /\ h.tp \in Stepper /\ Len(h.tp.actions) = Len(x.actions)
        /\ \A m \in 1 .. Len(x.actions) : h.tp.actions[m].ca = x.actions[m].ca
        /\ h.tp.pass_count = x.pass_count /\ h.tp.remaining_pass = x.remaining_pass
        /\ h.tp.visits = x.visits /\ h.tp.hits = x.hits
    BY <2>1, PerformedKeeps
  <2>4. h.frames \in Seq(NewFrames) /\ Len(h.frames) = 1
    BY <2>1, <2>2
  <2> QED
    BY <1>1, <1>4, <2>1, <2>3, <2>4
<1>5. CASE tp.status = "STEPPING"
  <2>1. FirstWhile(tp.actions) \in 1 .. Len(tp.actions) + 1
    BY <1>2, <1>5, FirstWhileIn DEF CanStep
  <2>2. h = Recorded(i, tp, FirstWhile(tp.actions))
    BY <1>1, <1>5 DEF handle_tracepoint
  <2> QED
    BY <1>1, <1>3, <1>4, <1>5, <2>1, <2>2 DEF Passed
<1>6. CASE tp.status # "STEPPING" /\ tp.pass_count = 0
  <2>1. 1 \in 1 .. Len(tp.actions) + 1
    BY <1>2
  <2>2. h = Recorded(i, tp, 1)
    BY <1>1, <1>6 DEF handle_tracepoint
  <2> QED
    BY <1>1, <1>3, <1>4, <1>6, <2>1, <2>2 DEF Passed
<1>7. CASE tp.status # "STEPPING" /\ tp.pass_count # 0 /\ tp.remaining_pass = 0
  <2>1. h = [tp |-> tp, frames |-> <<>>]
    BY <1>1, <1>7 DEF handle_tracepoint
  <2>2. h.tp = tp /\ h.frames = <<>>
    BY <2>1
  <2> QED
    BY <1>1, <1>3, <1>7, <2>1, <2>2 DEF Passed
<1>8. CASE tp.status # "STEPPING" /\ tp.pass_count # 0 /\ tp.remaining_pass # 0
  <2>1. PICK left \in Nat : left = tp.remaining_pass - 1
    BY <1>2, <1>8 DEF TracepointTypes
  <2>2. PICK x : x = [tp EXCEPT !.remaining_pass = left]
    OBVIOUS
  <2>3. /\ x \in TracepointTypes /\ x.actions = tp.actions /\ x.status = tp.status
        /\ x.run = tp.run /\ x.pass_count = tp.pass_count /\ x.remaining_pass = left
        /\ x.visits = tp.visits /\ x.hits = tp.hits
    BY <1>2, <1>8, <2>2 DEF TracepointTypes
  <2>5. x \in Stepper
    BY <1>2, <1>8, <2>3 DEF Stepper, CanStep, Stepped
  <2>6. 1 \in 1 .. Len(tp.actions) + 1
    BY <1>2
  <2>7. h = Recorded(i, x, 1)
    BY <1>1, <1>2, <1>8, <2>2, <2>1 DEF handle_tracepoint, TracepointTypes
  <2> QED
    BY <1>1, <1>4, <1>8, <2>1, <2>3, <2>5, <2>6, <2>7 DEF Passed
<1> QED
  BY <1>5, <1>6, <1>7, <1>8

\* A look keeps the counts: the visit it is is recorded unless there were pass_count ones.
LEMMA LookedAt ==
  ASSUME TraceInv, NEW i \in 1 .. Len(tps), NEW l, l = Looked(i),
         Visited(tps[i]) \/ tps[i].status = "STEPPING"
  PROVE  /\ l.tp \in Sound /\ l.frames \in Seq(NewFrames)
         /\ Len(l.tp.actions) = Len(tps[i].actions)
         /\ \A k \in 1 .. Len(tps[i].actions) : l.tp.actions[k].ca = tps[i].actions[k].ca
<1>1. PICK tp, h : tp = tps[i] /\ h = handle_tracepoint(i)
  OBVIOUS
<1>2. /\ tp \in TracepointTypes /\ Counted(tp) /\ CanStep(tp) /\ Stepped(tp)
  BY <1>1, SoundTable DEF TraceInv, TraceTypes
<1>3. /\ h.tp \in Stepper /\ h.frames \in Seq(NewFrames)
      /\ Len(h.tp.actions) = Len(tp.actions)
      /\ \A k \in 1 .. Len(tp.actions) : h.tp.actions[k].ca = tp.actions[k].ca
      /\ Passed(tp, h) /\ h = [tp |-> h.tp, frames |-> h.frames]
  BY <1>1, Handled
<1>4. tp.pass_count \in Nat /\ tp.remaining_pass \in Nat /\ tp.visits \in Nat /\ tp.hits \in Nat
  BY <1>2 DEF TracepointTypes
<1>5. CASE ~Visited(tp) \/ tp.pass_count = 0
  <2>1. l = h
    BY <1>1, <1>5 DEF Looked
  <2>2. Counted(h.tp)
    BY <1>1, <1>2, <1>3, <1>4, <1>5 DEF Passed, Counted, Visited
  <2> QED
    BY <1>1, <1>3, <2>1, <2>2 DEF Sound
<1>6. CASE Visited(tp) /\ tp.pass_count # 0
  <2>1. PICK visits \in Nat, hits \in Nat :
          /\ visits = IF tp.visits <= tp.pass_count THEN tp.visits + 1 ELSE tp.visits
          /\ hits = tp.hits + Len(h.frames)
    BY <1>3, <1>4 DEF Passed
  <2>2. PICK x : x = [h.tp EXCEPT !.visits = visits, !.hits = hits]
    OBVIOUS
  <2>3. l = [tp |-> x, frames |-> h.frames]
    BY <1>1, <1>3, <1>6, <2>1, <2>2 DEF Looked, Passed
  <2>4. h.tp \in TracepointTypes /\ CanStep(h.tp) /\ Stepped(h.tp)
    BY <1>3 DEF Stepper
  <2>5. /\ x \in TracepointTypes /\ x.actions = h.tp.actions /\ x.status = h.tp.status
        /\ x.run = h.tp.run /\ x.pass_count = h.tp.pass_count
        /\ x.remaining_pass = h.tp.remaining_pass /\ x.visits = visits /\ x.hits = hits
    BY <2>2, <2>4 DEF TracepointTypes
  <2>6. x \in Stepper
    BY <2>4, <2>5 DEF Stepper, CanStep, Stepped
  <2>7. Counted(x)
    <3>1. /\ tp.hits = tp.pass_count - tp.remaining_pass
          /\ tp.hits = AtMost(tp.visits, tp.pass_count)
      BY <1>2, <1>6 DEF Counted
    <3>2. CASE tp.remaining_pass # 0
      <4>1. /\ x.remaining_pass = tp.remaining_pass - 1 /\ hits = tp.hits + 1
            /\ x.pass_count = tp.pass_count
        BY <1>3, <1>6, <2>1, <2>5, <3>2 DEF Passed, Visited
      <4> QED
        BY <1>4, <2>1, <2>5, <3>1, <3>2, <4>1 DEF Counted, AtMost
    <3>3. CASE tp.remaining_pass = 0
      <4>1. /\ x.remaining_pass = tp.remaining_pass /\ hits = tp.hits
            /\ x.pass_count = tp.pass_count
        BY <1>3, <1>4, <1>6, <2>1, <2>5, <3>3 DEF Passed, Visited
      <4> QED
        BY <1>4, <2>1, <2>5, <3>1, <3>3, <4>1 DEF Counted, AtMost
    <3> QED
      BY <3>2, <3>3
  <2> QED
    BY <1>1, <1>3, <2>3, <2>5, <2>6, <2>7 DEF Sound
<1> QED
  BY <1>5, <1>6

LEMMA ExecuteKeeps ==
  ASSUME TraceInv, Execute
  PROVE  TraceInv'
<1> DEFINE Looks(tp) == Visited(tp) \/ tp.status = "STEPPING"
           after == [i \in DOMAIN tps |-> IF tps_status = "STARTED" /\ Looks(tps[i])
                                          THEN Looked(i)
                                          ELSE [tp |-> tps[i], frames |-> <<>>]]
<1>1. /\ tps \in Seq(Sound) /\ Len(tps) \in Nat /\ DOMAIN tps = 1 .. Len(tps)
      /\ fb \in Seq(FrameTypes) /\ Len(fb) \in Nat /\ now \in {0, 1} /\ selected_fb \in 0 .. Len(fb)
  BY SoundTable, LenProperties DEF TraceInv, TraceTypes
<1>2. /\ tps' = [i \in DOMAIN tps |-> after[i].tp]
      /\ fb' = fb \o FlattenSeq([i \in DOMAIN tps |-> after[i].frames])
      /\ now' = 1 - now /\ selected_fb' = selected_fb
  BY DEF Execute
<1>3. ASSUME NEW i \in 1 .. Len(tps)
      PROVE  /\ after[i].tp \in Sound /\ after[i].frames \in Seq(NewFrames)
             /\ Len(after[i].tp.actions) = Len(tps[i].actions)
             /\ \A k \in 1 .. Len(tps[i].actions) :
                  after[i].tp.actions[k].ca = tps[i].actions[k].ca
  <2>1. CASE tps_status = "STARTED" /\ Looks(tps[i])
    <3>1. after[i] = Looked(i)
      BY <1>1, <2>1
    <3> HIDE DEF after
    <3> QED
      BY <2>1, <3>1, LookedAt
  <2>2. CASE ~(tps_status = "STARTED" /\ Looks(tps[i]))
    <3>1. after[i] = [tp |-> tps[i], frames |-> <<>>]
      BY <1>1, <2>2
    <3>2. tps[i] \in Sound
      BY <1>1, ElementOfSeq
    <3> HIDE DEF after
    <3> QED
      BY <3>1, <3>2
  <2> QED
    BY <2>1, <2>2
<1> HIDE DEF after
<1>4. tps' \in Seq(Sound) /\ Len(tps') = Len(tps) /\ \A i \in 1 .. Len(tps) : tps'[i] = after[i].tp
  BY <1>1, <1>2, <1>3
<1>5. Extends(tps, tps')
  <2>1. \A i \in 1 .. Len(tps) : Len(tps[i].actions) \in Nat
    BY <1>1, SoundTable
  <2> QED
    BY <1>1, <1>3, <1>4, <2>1 DEF Extends
<1> DEFINE ss == [i \in 1 .. Len(tps) |-> after[i].frames]
<1>6. ss \in Seq(Seq(NewFrames)) /\ fb' = fb \o FlattenSeq(ss)
  BY <1>1, <1>2, <1>3
<1>7. PICK new : new = FlattenSeq(ss) /\ new \in Seq(NewFrames)
  <2> HIDE DEF ss
  <2> QED
    BY <1>6, FlattenSeqOf
<1>8. new \in Seq(FrameTypes) /\ Len(new) \in Nat
  <2>1. NewFrames \subseteq FrameTypes
    BY DEF NewFrames
  <2>2. new \in Seq(FrameTypes)
    BY <1>7, <2>1, SeqMonotonic
  <2> QED
    BY <2>2, LenProperties
<1>9. /\ fb' \in Seq(FrameTypes) /\ Len(fb') = Len(fb) + Len(new)
      /\ \A i \in 1 .. Len(fb) + Len(new) :
           fb'[i] = IF i <= Len(fb) THEN fb[i] ELSE new[i - Len(fb)]
  <2>1. fb' = fb \o new
    BY <1>6, <1>7
  <2> QED
    BY <1>1, <1>8, <2>1, ConcatProperties
<1>10. ASSUME NEW f \in 1 .. Len(fb') PROVE \A r \in 1 .. Len(fb'[f].records) :
                                              RecordOK(fb'[f].records[r], fb'[f].when)
  <2>1. CASE f <= Len(fb)
    <3>1. f \in 1 .. Len(fb) /\ fb'[f] = fb[f]
      BY <1>1, <1>8, <1>9, <2>1
    <3> QED
      BY <3>1 DEF TraceInv, FramesOK
  <2>2. CASE ~(f <= Len(fb))
    <3>1. f - Len(fb) \in 1 .. Len(new) /\ fb'[f] = new[f - Len(fb)]
      BY <1>1, <1>8, <1>9, <2>2
    <3>2. new[f - Len(fb)] \in NewFrames
      BY <1>7, <3>1, ElementOfSeq
    <3> QED
      BY <3>1, <3>2 DEF NewFrames
  <2> QED
    BY <2>1, <2>2
<1>11. FramesOK'
  <2> SUFFICES ASSUME NEW f \in 1 .. Len(fb'), NEW r \in 1 .. Len(fb'[f].records)
               PROVE  RecordOK(fb[f].records[r], fb[f].when)'
    BY DEF FramesOK
  <2>1. PICK x, w : x = fb'[f].records[r] /\ w = fb'[f].when
    OBVIOUS
  <2>2. RecordOK(x, w)
    BY <1>10, <2>1
  <2>3. RecordOK(x, w)'
    BY <1>4, <1>5, <2>2, RecordKept
  <2> QED
    BY <2>1, <2>3 DEF RecordOK
<1>12. TraceTypes'
  <2>1. selected_fb' \in 0 .. Len(fb')
    BY <1>1, <1>2, <1>8, <1>9
  <2>2. now' \in {0, 1}
    BY <1>1, <1>2
  <2> QED
    BY <1>4, <1>9, <2>1, <2>2 DEF TraceTypes
<1> QED
  BY <1>11, <1>12 DEF TraceInv
-------------------------------------------------------------------------------
\* Selecting a frame.

LEMMA SelectKeeps ==
  ASSUME TraceInv, selected_fb' \in 0 .. Len(fb), UNCHANGED <<tps, fb, now>>
  PROVE  TraceInv'
BY DEF TraceInv, TraceTypes, FramesOK, RecordOK

LEMMA ByNumberKeeps ==
  ASSUME TraceInv, NEW n \in Nat, select_frame_buffer_by_fn(n)
  PROVE  TraceInv'
<1>1. fb \in Seq(FrameTypes) /\ Len(fb) \in Nat /\ selected_fb \in 0 .. Len(fb)
  BY LenProperties DEF TraceInv, TraceTypes
<1>2. fb # <<>> => Len(fb) # 0
  BY <1>1, EmptySeq
<1>3. selected_fb' \in 0 .. Len(fb)
  BY <1>1, <1>2 DEF select_frame_buffer_by_fn
<1> QED
  BY <1>3, SelectKeeps DEF select_frame_buffer_by_fn

LEMMA ByTracepointKeeps ==
  ASSUME TraceInv, NEW n, select_frame_buffer_by_tpn(n)
  PROVE  TraceInv'
<1>1. fb \in Seq(FrameTypes) /\ Len(fb) \in Nat /\ selected_fb \in 0 .. Len(fb)
  BY LenProperties DEF TraceInv, TraceTypes
<1>2. fb # <<>> => Len(fb) # 0
  BY <1>1, EmptySeq
<1>3. PICK here : here = IF selected_fb = 0 /\ fb # <<>> THEN 1 ELSE selected_fb
  OBVIOUS
<1>4. here \in 0 .. Len(fb)
  BY <1>1, <1>2, <1>3
<1>5. PICK later : later = {i \in here + 1 .. Len(fb) : fb[i].tp_number = n}
  OBVIOUS
<1>6. selected_fb' = IF here = 0 \/ later = {} THEN here
                     ELSE CHOOSE i \in later : \A j \in later : i <= j
  BY <1>3, <1>5 DEF select_frame_buffer_by_tpn
<1>7. later # {} => \E i \in later : \A j \in later : i <= j
  <2>1. later \subseteq Nat
    BY <1>1, <1>4, <1>5
  <2> QED
    BY <2>1, LeastPosition
<1>8. later \subseteq 0 .. Len(fb)
  BY <1>1, <1>4, <1>5
<1>9. later # {} => (CHOOSE i \in later : \A j \in later : i <= j) \in later
  BY <1>7
<1>10. selected_fb' \in 0 .. Len(fb)
  BY <1>4, <1>6, <1>8, <1>9
<1> QED
  BY <1>10, SelectKeeps DEF select_frame_buffer_by_tpn
-------------------------------------------------------------------------------
LEMMA TraceInvariant == Spec => []TraceInv
<1>1. Init => TraceInv
  <2> SUFFICES ASSUME Init PROVE TraceInv
    OBVIOUS
  <2>1. /\ tps \in Seq(Sound) /\ fb \in Seq(FrameTypes) /\ Len(fb) = 0
        /\ selected_fb = 0 /\ now = 0
    BY DEF Init
  <2> QED
    BY <2>1 DEF TraceInv, TraceTypes, FramesOK
<1>2. TraceInv /\ [Next]_vars => TraceInv'
  <2> SUFFICES ASSUME TraceInv, [Next]_vars PROVE TraceInv'
    OBVIOUS
  <2>1. CASE init_tracepoints
    <3>1. /\ tps' \in Seq(Sound) /\ fb' \in Seq(FrameTypes) /\ Len(fb') = 0
          /\ selected_fb' = 0 /\ now' = now
      BY <2>1 DEF init_tracepoints
    <3> QED
      BY <3>1 DEF TraceInv, TraceTypes, FramesOK
  <2>2. CASE \E n \in Number, a \in Pc :
               \/ \E status \in {"ENABLED", "DISABLED"}, step \in StepCounts, pass \in PassCounts :
                    Enable(n, a, status, step, pass)
               \/ \E stepping \in BOOLEAN, p \in Payloads : AddAction(n, a, stepping, p)
    BY <2>2, EnableKeeps, AddActionKeeps
  <2>3. CASE \/ start_trace_recording \/ stop_trace_recording \/ stop_trace_focusing
             \/ start_trace_focusing \/ UNCHANGED vars
    <3>1. UNCHANGED <<tps, fb, now>> /\ selected_fb' \in {0, selected_fb}
      BY <2>3 DEF start_trace_recording, stop_trace_recording, stop_trace_focusing,
         start_trace_focusing, vars
    <3>2. fb \in Seq(FrameTypes) /\ selected_fb \in 0 .. Len(fb)
      BY DEF TraceInv, TraceTypes
    <3>3. selected_fb' \in 0 .. Len(fb)
      BY <3>1, <3>2, LenProperties
    <3> QED
      BY <3>1, <3>3, SelectKeeps
  <2>4. CASE Execute
    BY <2>4, ExecuteKeeps
  <2>5. CASE \E n \in 0 .. MaxFrames : select_frame_buffer_by_fn(n)
    BY <2>5, ByNumberKeeps, TraceConstants
  <2>6. CASE \E n \in Number : select_frame_buffer_by_tpn(n)
    BY <2>6, ByTracepointKeeps
  <2> QED
    BY <2>1, <2>2, <2>3, <2>4, <2>5, <2>6 DEF Next
<1> QED
  BY <1>1, <1>2, PTL DEF Spec

(***************************************************************************)
(* No record of a frame points at an action that QTinit freed, and the     *)
(* selected frame is one of the list, however packets that define, start,  *)
(* stop, select and start anew come between instructions.                  *)
(***************************************************************************)
THEOREM PointersAlwaysLive == Spec => []PointersLive
<1>1. TraceInv => PointersLive
  <2> SUFFICES ASSUME TraceInv PROVE PointersLive
    OBVIOUS
  <2>1. /\ fb \in Seq(FrameTypes) /\ Len(fb) \in Nat /\ DOMAIN fb = 1 .. Len(fb)
        /\ selected_fb \in 0 .. Len(fb) /\ tps \in Seq(Sound)
    BY LenProperties DEF TraceInv, TraceTypes
  <2>2. ASSUME NEW f \in DOMAIN fb, NEW r \in DOMAIN fb[f].records
        PROVE  /\ fb[f].records[r].tp \in DOMAIN tps
               /\ fb[f].records[r].action \in DOMAIN tps[fb[f].records[r].tp].actions
    <3>1. f \in 1 .. Len(fb) /\ fb[f] \in FrameTypes
      BY <2>1, ElementOfSeq
    <3>2. fb[f].records \in Seq(RecordTypes)
      BY <3>1 DEF FrameTypes
    <3>3. r \in 1 .. Len(fb[f].records)
      BY <3>2, LenProperties
    <3>4. RecordOK(fb[f].records[r], fb[f].when)
      BY <3>1, <3>3 DEF TraceInv, FramesOK
    <3> QED
      BY <2>1, <3>4, SoundTable DEF RecordOK
  <2> QED
    BY <2>1, <2>2 DEF PointersLive
<1> QED
  BY <1>1, TraceInvariant, PTL

(***************************************************************************)
(* Of the times the program comes to a tracepoint with a pass count, the   *)
(* first ones are recorded, that many, and no others (handle_tracepoint),  *)
(* however often it is enabled anew.                                       *)
(***************************************************************************)
THEOREM PassesAlwaysCounted == Spec => []PassesCounted
<1>1. TraceInv => PassesCounted
  BY SoundTable DEF TraceInv, TraceTypes, PassesCounted, Counted
<1> QED
  BY <1>1, TraceInvariant, PTL

\* The first of the records that answer a packet.
LEMMA FirstFits ==
  ASSUME NEW fits, fits \subseteq Nat, fits # {}
  PROVE  (CHOOSE i \in fits : \A j \in fits : i <= j) \in fits
<1>1. \E i \in fits : \A j \in fits : i <= j
  BY LeastPosition
<1> QED
  BY <1>1

LEMMA FrameRead ==
  ASSUME TraceInv, selected_fb # 0, NEW rs, rs = fb[selected_fb].records
  PROVE  /\ DOMAIN rs \subseteq Nat
         /\ \A i \in DOMAIN rs :
              /\ Ca(rs[i]) \in Collect
              /\ rs[i].data = DataOf(Ca(rs[i]), fb[selected_fb].when)
<1>1. /\ fb \in Seq(FrameTypes) /\ Len(fb) \in Nat /\ selected_fb \in 1 .. Len(fb)
      /\ tps \in Seq(Sound)
  BY LenProperties DEF TraceInv, TraceTypes
<1>2. fb[selected_fb] \in FrameTypes
  BY <1>1, ElementOfSeq
<1>3. rs \in Seq(RecordTypes)
  BY <1>2 DEF FrameTypes
<1>4. DOMAIN rs = 1 .. Len(rs) /\ Len(rs) \in Nat
  BY <1>3, LenProperties
<1>5. ASSUME NEW i \in DOMAIN rs
      PROVE  /\ Ca(rs[i]) \in Collect
             /\ rs[i].data = DataOf(Ca(rs[i]), fb[selected_fb].when)
  <2>1. RecordOK(rs[i], fb[selected_fb].when)
    BY <1>1, <1>4 DEF TraceInv, FramesOK
  <2>2. /\ rs[i].tp \in 1 .. Len(tps)
        /\ rs[i].action \in 1 .. Len(tps[rs[i].tp].actions)
        /\ rs[i].data = DataOf(Ca(rs[i]), fb[selected_fb].when)
    BY <2>1 DEF RecordOK, Ca
  <2>3. tps[rs[i].tp].actions \in Seq(Actions)
    BY <1>1, <2>2, SoundTable
  <2>4. tps[rs[i].tp].actions[rs[i].action] \in Actions
    BY <2>2, <2>3, ElementOfSeq
  <2> QED
    BY <2>2, <2>4 DEF Ca, Actions
<1> QED
  BY <1>4, <1>5

(***************************************************************************)
(* What GDB reads in a frame is what the machine held when the frame was   *)
(* recorded, for every payload and every address whose memory the record   *)
(* holds, although a record only points at its action: the actions of a    *)
(* tracepoint are added to and never change while there is a frame         *)
(* (trace_read, trace_fetch_registers).                                    *)
(***************************************************************************)
THEOREM PastAlwaysRead == Spec => []ReadsThePast
<1>1. TraceInv => ReadsThePast
  <2> SUFFICES ASSUME TraceInv, selected_fb # 0
               PROVE  LET then == fb[selected_fb].when
                      IN /\ trace_fetch_registers \in {<<>>, <<Registers(then)>>}
                         /\ \A a \in Cells, size \in {1, 2} :
                              (Fits(a, size) # {} /\ Held(Ca(Answering(a, size)), a, size)) =>
                                trace_read(a, size) =
                                  [k \in 1 .. size |-> Memory(then)[a + k - 1]]
    BY DEF ReadsThePast
  <2>1. PICK rs, then : rs = fb[selected_fb].records /\ then = fb[selected_fb].when
    OBVIOUS
  <2>2. /\ DOMAIN rs \subseteq Nat
        /\ \A i \in DOMAIN rs : Ca(rs[i]) \in Collect /\ rs[i].data = DataOf(Ca(rs[i]), then)
    BY <2>1, FrameRead
  <2>3. trace_fetch_registers \in {<<>>, <<Registers(then)>>}
    <3>1. PICK fits : fits = {i \in DOMAIN rs : Ca(rs[i]).type = "REGISTERS"}
      OBVIOUS
    <3>2. CASE fits = {}
      BY <2>1, <3>1, <3>2 DEF trace_fetch_registers
    <3>3. CASE fits # {}
      <4>1. PICK m : m = CHOOSE i \in fits : \A j \in fits : i <= j
        OBVIOUS
      <4>2. m \in fits
        BY <2>2, <3>1, <3>3, <4>1, FirstFits
      <4>3. rs[m].data = <<Registers(then)>>
        BY <2>2, <3>1, <4>2 DEF DataOf
      <4>4. trace_fetch_registers = rs[m].data
        BY <2>1, <3>1, <3>3, <4>1 DEF trace_fetch_registers
      <4> QED
        BY <4>3, <4>4
    <3> QED
      BY <3>2, <3>3
  <2>4. ASSUME NEW a \in Cells, NEW size \in {1, 2}, Fits(a, size) # {},
               Held(Ca(Answering(a, size)), a, size)
        PROVE  trace_read(a, size) = [k \in 1 .. size |-> Memory(then)[a + k - 1]]
    <3>1. Fits(a, size) = {i \in DOMAIN rs : /\ Ca(rs[i]).type = "MEMORY"
                                             /\ Covers(Ca(rs[i]), a, size)}
      BY <2>1 DEF Fits
    <3>2. PICK m : /\ m = CHOOSE i \in Fits(a, size) : \A j \in Fits(a, size) : i <= j
                   /\ m \in Fits(a, size)
      <4>1. Fits(a, size) \subseteq Nat
        BY <2>2, <3>1
      <4> QED
        BY <2>4, <4>1, FirstFits
    <3>3. Answering(a, size) = rs[m]
      BY <2>1, <3>2, Zenon DEF Answering
    <3>4. PICK ca \in Collect : ca = Ca(rs[m])
      BY <2>2, <3>1, <3>2
    <3>5. /\ ca.offset \in Nat /\ ca.length \in Nat /\ ca.offset <= a
          /\ a + size <= ca.offset + ca.length
          /\ rs[m].data = [c \in 1 .. ca.length |->
                             IF There(ca, then, c) THEN Memory(then)[From(ca, then) + c - 1]
                             ELSE Stray]
      <4>1. ca.type = "MEMORY" /\ Covers(ca, a, size) /\ rs[m].data = DataOf(ca, then)
        BY <2>2, <3>1, <3>2, <3>4
      <4>2. ca.offset \in Nat /\ ca.length \in Nat
        BY <3>4, TraceConstants DEF Collect
      <4>3. DataOf(ca, then) = [c \in 1 .. ca.length |->
                                  IF There(ca, then, c) THEN Memory(then)[From(ca, then) + c - 1]
                                  ELSE Stray]
        BY <4>1 DEF DataOf
      <4> QED
        BY <4>1, <4>2, <4>3 DEF Covers
    <3>6. /\ ca.base = NoReg /\ \A c \in a .. a + size - 1 : c \in Cells
          /\ Faults => \A c \in ca.offset .. a - 1 : c \in Cells
      BY <2>4, <3>3, <3>4 DEF Held
    <3>7. trace_read(a, size) = [k \in 1 .. size |-> rs[m].data[a - ca.offset + k]]
      BY <2>4, <3>3, <3>4, Zenon DEF trace_read
    <3>8. ASSUME NEW k \in 1 .. size
          PROVE  rs[m].data[a - ca.offset + k] = Memory(then)[a + k - 1]
      <4>1. PICK c : c = a - ca.offset + k
        OBVIOUS
      <4>2. /\ a \in Nat /\ size \in {1, 2} /\ k \in Nat /\ c \in 1 .. ca.length
            /\ ca.offset + c - 1 = a + k - 1 /\ a + k - 1 \in a .. a + size - 1
        BY <3>5, <4>1, TraceConstants
      <4>3. From(ca, then) = ca.offset
        BY <3>5, <3>6 DEF From
      <4>4. ASSUME Faults, NEW d \in 1 .. c - 1 PROVE ca.offset + d - 1 \in Cells
        <5>1. ca.offset + d - 1 \in ca.offset .. a - 1 \/ ca.offset + d - 1 \in a .. a + size - 1
          <6>1. ca.offset \in Nat /\ c \in Nat /\ d \in Nat /\ 1 <= d /\ d <= c - 1
            BY <3>5, <4>2
          <6>2. CASE ca.offset + d - 1 <= a - 1
            BY <4>2, <6>1, <6>2
          <6>3. CASE ~(ca.offset + d - 1 <= a - 1)
            BY <4>2, <6>1, <6>3
          <6> QED
            BY <6>2, <6>3
        <5> QED
          BY <3>6, <4>4, <5>1
      <4>5. There(ca, then, c)
        BY <3>6, <4>2, <4>3, <4>4 DEF There
      <4> QED
        BY <3>5, <4>1, <4>2, <4>3, <4>5
    <3> QED
      BY <3>7, <3>8
  <2> QED
    BY <2>1, <2>3, <2>4
<1> QED
  BY <1>1, TraceInvariant, PTL

(***************************************************************************)
(* Stepping ends: a tracepoint that steps has a while action, and a pass   *)
(* is followed by no more frames than its while actions have steps, even   *)
(* when actions are added while it steps (do_action_list).                 *)
(***************************************************************************)
THEOREM StepsAlwaysEnd == Spec => []StepsEnd
<1>1. TraceInv => StepsEnd
  BY SoundTable DEF TraceInv, TraceTypes, StepsEnd, CanStep, Stepped
<1> QED
  BY <1>1, TraceInvariant, PTL
===============================================================================
