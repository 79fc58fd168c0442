--------------------------- MODULE MemoryBus_proofs ---------------------------
(***************************************************************************)
(* The bus, for every configuration, number and size of banks, byte order, *)
(* flash geometry and sequence of accesses.                                *)
(***************************************************************************)
EXTENDS MemoryBus, WellFoundedInduction, SequenceTheorems, TLAPS

\* The least member of a set of positions, by which both searches are defined.
LEMMA LeastPosition ==
  ASSUME NEW S, S \subseteq Nat, S # {}
  PROVE  \E i \in S : \A j \in S : i <= j
<1>1. PICK i \in S : \A j \in S : ~ (<<j, i>> \in OpToRel(<, Nat))
  BY NatLessThanWellFounded, WFMin, Zenon
<1>2. \A j \in S : ~ (j < i)
  BY <1>1 DEF OpToRel
<1> QED
  BY <1>2

\* Every table has an end, the first entry of length 0 or the one behind the last.
LEMMA TableEnds ==
  ASSUME NEW t, TableOK(t)
  PROVE  /\ End(t) \in 1 .. Len(t) + 1
         /\ End(t) <= Len(t) => t[End(t)].len = 0
         /\ \A i \in 1 .. End(t) - 1 : t[i].len # 0
<1> DEFINE S == {e \in 1 .. Len(t) + 1 : e <= Len(t) => t[e].len = 0}
<1>1. Len(t) + 1 \in S /\ S \subseteq Nat
  BY DEF TableOK
<1>2. PICK e \in S : \A j \in S : e <= j
  BY <1>1, LeastPosition
<1>3. ASSUME NEW i \in 1 .. e - 1 PROVE t[i].len # 0
  <2>1. i \notin S /\ i \in 1 .. Len(t) + 1
    BY <1>2, <1>3 DEF TableOK
  <2> QED
    BY <2>1
<1> QED
  BY <1>2, <1>3 DEF End

\* A search ends there at the latest, and at the first bank that holds the address.
LEMMA SearchEnds ==
  ASSUME NEW t, TableOK(t), NEW a
  PROVE  /\ Search(t, a) \in 1 .. End(t)
         /\ Search(t, a) # End(t) => InBank(t, Search(t, a), a)
         /\ \A j \in 1 .. Search(t, a) - 1 : ~InBank(t, j, a)
<1> DEFINE end == End(t)
           S == {i \in 1 .. end : i # end => InBank(t, i, a)}
<1>1. end \in Nat \ {0} /\ end \in S /\ S \subseteq Nat
  BY TableEnds DEF TableOK
<1> HIDE DEF end
<1>2. PICK i \in S : \A j \in S : i <= j
  BY <1>1, LeastPosition
<1>3. ASSUME NEW j \in 1 .. i - 1 PROVE ~InBank(t, j, a)
  <2>1. j \notin S /\ j \in 1 .. end
    BY <1>1, <1>2, <1>3
  <2> QED
    BY <2>1
<1>4. i \in 1 .. end /\ (i # end => InBank(t, i, a))
  BY <1>2
<1> QED
  BY <1>3, <1>4 DEF Search, end

\* The static stays inside the part of the table that searches reach.
LEMMA StaticInTable ==
  ASSUME NEW t, TableOK(t), NEW m \in 0 .. End(t), NEW a
  PROVE  bank_ptr(t, m, a) \in 0 .. End(t)
<1>1. Search(t, a) \in 1 .. End(t) /\ End(t) \in Nat
  BY SearchEnds, TableEnds DEF TableOK
<1> QED
  BY <1>1 DEF bank_ptr

\* Two ranges that hold a common address: neither ends before the other starts.
LEMMA RangesMeet ==
  ASSUME NEW x \in Nat, NEW k \in Nat, NEW y \in Nat, NEW l \in Nat, NEW a \in Nat,
         x <= a, a - x < k, y <= a, a - y < l
  PROVE  /\ ~(x + k <= y)
         /\ ~(y + l <= x)
<1> QED
  OBVIOUS

\* One lookup, from whatever bank the static was left at.
LEMMA LookupExact ==
  ASSUME NEW t, TableOK(t), Disjoint(t), NEW m \in 0 .. End(t), NEW a \in Nat,
         InBank(t, m, a)
  PROVE  Search(t, a) = m
<1> DEFINE end == End(t)
           s == Search(t, a)
<1>1. /\ end \in 1 .. Len(t) + 1 /\ Len(t) \in Nat
      /\ end <= Len(t) => t[end].len = 0
  BY TableEnds DEF TableOK
<1>2. /\ s \in 1 .. end
      /\ s # end => InBank(t, s, a)
      /\ \A j \in 1 .. s - 1 : ~InBank(t, j, a)
  BY SearchEnds
<1>3. m \in 1 .. end - 1
  <2>1. m \in 1 .. Len(t) /\ t[m].addr <= a /\ a - t[m].addr < t[m].len
    BY DEF InBank
  <2>2. t[m].addr \in Nat /\ t[m].len \in Nat
    BY <2>1 DEF TableOK
  <2>3. t[m].len # 0
    BY <2>1, <2>2
  <2> QED
    BY <1>1, <2>1, <2>3
<1>4. s \in 1 .. end - 1 /\ InBank(t, s, a)
  BY <1>1, <1>2, <1>3
<1>5. /\ m \in 1 .. Len(t) /\ s \in 1 .. Len(t)
      /\ t[m].addr \in Nat /\ t[m].len \in Nat /\ t[s].addr \in Nat /\ t[s].len \in Nat
  BY <1>4 DEF InBank, TableOK
<1>6. /\ ~(t[m].addr + t[m].len <= t[s].addr)
      /\ ~(t[s].addr + t[s].len <= t[m].addr)
  <2>1. /\ t[m].addr <= a /\ a - t[m].addr < t[m].len
        /\ t[s].addr <= a /\ a - t[s].addr < t[s].len
    BY <1>4 DEF InBank
  <2> HIDE DEF s
  <2> QED
    BY <1>5, <2>1, RangesMeet
<1> QED
  BY <1>3, <1>4, <1>6 DEF Disjoint

-------------------------------------------------------------------------------
\* The table that parse_mem builds.

\* The recursive function of Parsed exists, up to every n.
LEMMA ParsedDefined ==
  ASSUME NEW line, NEW n \in Nat
  PROVE  \E f : f = [i \in 0 .. n |-> IF i = 0 THEN NoBank
                                      ELSE Param(f[i - 1], line.params[i], line)]
<1> DEFINE After(mb, i) == Param(mb, line.params[i], line)
           Is(f, m) == f = [i \in 0 .. m |-> IF i = 0 THEN NoBank ELSE After(f[i - 1], i)]
           Bad == {m \in Nat : ~ \E f : Is(f, m)}
<1> HIDE DEF After
<1>1. ASSUME Bad # {} PROVE FALSE
  <2>1. PICK m \in Bad : \A j \in Bad : m <= j
    BY <1>1, LeastPosition
  <2>2. CASE m = 0
    <3>1. Is([i \in 0 .. 0 |-> NoBank], 0)
      <4>1. \A i \in 0 .. 0 : i = 0
        OBVIOUS
      <4> QED
        BY <4>1
    <3> HIDE DEF Is
    <3> QED
      BY <2>1, <2>2, <3>1
  <2>3. CASE m # 0
    <3>1. m - 1 \in Nat /\ m - 1 \notin Bad /\ m \in Nat
      <4>1. m \in Nat
        BY <2>1
      <4> HIDE DEF Bad
      <4> QED
        BY <2>1, <2>3, <4>1
    <3>2. PICK f : Is(f, m - 1)
      BY <3>1
    <3>3. \A i \in 0 .. m - 1 : f[i] = IF i = 0 THEN NoBank ELSE After(f[i - 1], i)
      BY <3>2
    <3> DEFINE g == [i \in 0 .. m |-> IF i = m THEN After(f[m - 1], m) ELSE f[i]]
    <3>4. ASSUME NEW i \in 0 .. m
          PROVE  g[i] = IF i = 0 THEN NoBank ELSE After(g[i - 1], i)
      <4>1. CASE i = m
        <5>1. m - 1 \in 0 .. m /\ m - 1 # m /\ m \in 0 .. m
          BY <3>1
        <5>2. g[m] = After(f[m - 1], m) /\ g[m - 1] = f[m - 1]
          BY <5>1
        <5> HIDE DEF g
        <5> QED
          BY <2>3, <4>1, <5>2
      <4>2. CASE i # m
        <5>1. i \in 0 .. m - 1 /\ g[i] = f[i] /\ (i # 0 => g[i - 1] = f[i - 1])
          BY <3>1, <4>2
        <5> HIDE DEF g
        <5> QED
          BY <3>3, <5>1
      <4> QED
        BY <4>1, <4>2
    <3>5. Is(g, m)
      BY <3>4
    <3> QED
      BY <2>1, <3>5
  <2> QED
    BY <2>2, <2>3
<1>2. \E f : Is(f, n)
  BY <1>1
<1> QED
  BY <1>2 DEF After

LEMMA ParsedIs ==
  ASSUME NEW line \in Lines
  PROVE  /\ Len(line.params) \in Nat
         /\ Parsed(line)[0] = NoBank
         /\ \A i \in 1 .. Len(line.params) :
              Parsed(line)[i] = Param(Parsed(line)[i - 1], line.params[i], line)
<1> DEFINE n == Len(line.params)
           Is(f) == f = [i \in 0 .. n |-> IF i = 0 THEN NoBank
                                          ELSE Param(f[i - 1], line.params[i], line)]
<1>1. n \in Nat
  <2>1. line.params \in Seq(STRING)
    BY DEF Lines
  <2> QED
    BY <2>1, LenProperties
<1>2. Parsed(line) = CHOOSE f : Is(f)
  BY DEF Parsed
<1>3. \E f : Is(f)
  BY <1>1, ParsedDefined
<1>4. Is(Parsed(line))
  <2> HIDE DEF Is
  <2> QED
    BY <1>2, <1>3
<1>5. PICK f : f = Parsed(line)
  OBVIOUS
<1>6. \A i \in 0 .. n : f[i] = IF i = 0 THEN NoBank ELSE Param(f[i - 1], line.params[i], line)
  BY <1>4, <1>5
<1>7. 0 \in 0 .. n /\ \A i \in 1 .. n : i \in 0 .. n /\ i # 0
  BY <1>1
<1> QED
  BY <1>1, <1>5, <1>6, <1>7, Zenon

\* The entries of the table.
Banks == [addr : Nat, len : Nat, bank_read : {"null", "ram", "flash", "io"},
          bank_write : {"null", "warn", "ram", "flash", "io"},
          type : {"none", "ram", "rom", "flash", "io"}, named : BOOLEAN, file : Seq(Byte)]

\* What a line, or the first parameters of it, can have made of an entry.
FromLine(mb, line) ==
  /\ mb \in Banks
  /\ mb.addr \in {0, line.addr} /\ mb.len \in {0, line.size}
  /\ mb.bank_read \in {"null", line.map}
  /\ mb.bank_write \in {"null", "warn", line.map}
  /\ "flash" \in {mb.bank_read, mb.bank_write} => mb.type = "flash"
  /\ mb.type = "flash" => line.map = "flash"
  /\ mb.type = "io" => line.map = "io"

LEMMA ParamKeeps ==
  ASSUME NEW line \in Lines, NEW mb, FromLine(mb, line), NEW p
  PROVE  FromLine(Param(mb, p, line), line)
<1>1. /\ line.addr \in Nat /\ line.size \in Nat /\ line.map \in {"ram", "flash", "io"}
      /\ line.file \in Seq(Byte)
  BY DEF Lines
<1>2. mb \in Banks
  BY DEF FromLine
<1> QED
  BY <1>1, <1>2 DEF FromLine, Param, Banks

\* What the first m parameters of a line have done: a file has been named, and the
\* last type= behind map= has made the bank read-only.
SoFar(mb, line, m) ==
  /\ (\E i \in 1 .. m : line.params[i] = "file") => mb.named /\ mb.file = line.file
  /\ (\E i \in 1 .. m : line.params[i] = "type" /\ \A j \in i .. m : line.params[j] # "map")
       => mb.bank_write = "warn"

LEMMA SoFarKept ==
  ASSUME NEW line, NEW mb \in Banks, NEW m \in Nat \ {0}, SoFar(mb, line, m - 1)
  PROVE  SoFar(Param(mb, line.params[m], line), line, m)
<1>1. PICK x : x = Param(mb, line.params[m], line)
  OBVIOUS
<1>2. /\ line.params[m] = "file" => x.named /\ x.file = line.file
      /\ line.params[m] # "file" => x.named = mb.named /\ x.file = mb.file
      /\ line.params[m] = "type" => x.bank_write = "warn"
      /\ line.params[m] \notin {"map", "type"} => x.bank_write = mb.bank_write
  <2>1. PICK p : p = line.params[m]
    OBVIOUS
  <2>2. x = Param(mb, p, line)
    BY <1>1, <2>1
  <2>3. /\ p = "file" => x.named /\ x.file = line.file
        /\ p # "file" => x.named = mb.named /\ x.file = mb.file
        /\ p = "type" => x.bank_write = "warn"
        /\ p \notin {"map", "type"} => x.bank_write = mb.bank_write
    BY <2>2 DEF Param, Banks
  <2> QED
    BY <2>1, <2>3, Zenon
<1>3. ASSUME NEW i \in 1 .. m, line.params[i] = "file" PROVE x.named /\ x.file = line.file
  <2>1. CASE line.params[m] = "file"
    BY <1>2, <2>1, Zenon
  <2>2. CASE line.params[m] # "file"
    <3>1. i \in 1 .. m - 1
      BY <1>3, <2>2
    <3> QED
      BY <1>2, <1>3, <2>2, <3>1, Zenon DEF SoFar
  <2> QED
    BY <2>1, <2>2
<1>4. ASSUME NEW i \in 1 .. m, line.params[i] = "type",
             \A j \in i .. m : line.params[j] # "map"
      PROVE  x.bank_write = "warn"
  <2>1. CASE line.params[m] = "type"
    BY <1>2, <2>1
  <2>2. CASE line.params[m] # "type"
    <3>1. i \in 1 .. m - 1 /\ m \in i .. m /\ i .. m - 1 \subseteq i .. m
      BY <1>4, <2>2
    <3>2. x.bank_write = mb.bank_write
      BY <1>2, <1>4, <2>2, <3>1
    <3> QED
      BY <1>4, <3>1, <3>2 DEF SoFar
  <2> QED
    BY <2>1, <2>2
<1> QED
  BY <1>1, <1>3, <1>4, Zenon DEF SoFar

LEMMA ParsedOK ==
  ASSUME NEW line \in Lines
  PROVE  \A m \in 0 .. Len(line.params) :
           FromLine(Parsed(line)[m], line) /\ SoFar(Parsed(line)[m], line, m)
<1>1. PICK f : f = Parsed(line)
  OBVIOUS
<1>2. PICK n \in Nat : n = Len(line.params)
  BY ParsedIs
<1>3. /\ f[0] = NoBank
      /\ \A i \in 1 .. n : f[i] = Param(f[i - 1], line.params[i], line)
  BY <1>1, <1>2, ParsedIs
<1> DEFINE Good(m) == FromLine(f[m], line) /\ SoFar(f[m], line, m)
           Bad == {m \in 0 .. n : ~Good(m)}
<1>4. Good(0)
  <2>1. NoBank \in Banks
    <3>1. <<>> \in Seq(Byte)
      OBVIOUS
    <3> QED
      BY <3>1 DEF NoBank, Banks
  <2>2. FromLine(NoBank, line)
    BY <2>1 DEF FromLine, NoBank
  <2>3. SoFar(NoBank, line, 0)
    <3>1. 1 .. 0 = {}
      OBVIOUS
    <3> QED
      BY <3>1, Zenon DEF SoFar
  <2> QED
    BY <1>3, <2>2, <2>3
<1>5. ASSUME NEW m \in 1 .. n, Good(m - 1) PROVE Good(m)
  <2>1. f[m] = Param(f[m - 1], line.params[m], line) /\ m \in Nat \ {0}
    BY <1>3
  <2>2. f[m - 1] \in Banks
    BY <1>5 DEF FromLine
  <2>3. FromLine(f[m], line)
    BY <1>5, <2>1, ParamKeeps
  <2>4. SoFar(f[m], line, m)
    BY <1>5, <2>1, <2>2, SoFarKept
  <2> QED
    BY <2>3, <2>4
<1> HIDE DEF Good
<1>6. ASSUME Bad # {} PROVE FALSE
  <2>1. PICK m \in Bad : \A j \in Bad : m <= j
    <3>1. Bad \subseteq Nat
      OBVIOUS
    <3> HIDE DEF Bad
    <3> QED
      BY <1>6, <3>1, LeastPosition
  <2>2. m \in 1 .. n /\ m - 1 \in 0 .. n
    BY <1>4, <2>1
  <2>3. m - 1 \notin Bad
    <3> HIDE DEF Bad
    <3> QED
      BY <2>1, <2>2
  <2> QED
    BY <1>5, <2>1, <2>2, <2>3
<1>7. \A m \in 0 .. n : Good(m)
  BY <1>6
<1> QED
  BY <1>1, <1>2, <1>7 DEF Good

\* The table holds what the lines read so far have become.
Table ==
  /\ conf \in Seq(Lines)
  /\ \A i \in 1 .. Len(conf) :
       conf[i].map = "flash" => conf[i].addr + conf[i].size <= 4 * SECTOR * SECTORS
  /\ banks \in Seq(Banks)
  /\ Len(banks) <= Len(conf)
  /\ \A i \in 1 .. Len(banks) : banks[i] = Parsed(conf[i])[Len(conf[i].params)]

LEMMA TableEntries ==
  ASSUME Table
  PROVE  /\ TableOK(banks) /\ DOMAIN banks = 1 .. Len(banks)
         /\ \A i \in 1 .. Len(banks) : /\ conf[i] \in Lines /\ i \in 1 .. Len(conf)
                                       /\ FromLine(banks[i], conf[i])
                                       /\ SoFar(banks[i], conf[i], Len(conf[i].params))
<1>1. Len(banks) \in Nat /\ Len(conf) \in Nat /\ DOMAIN banks = 1 .. Len(banks)
  BY LenProperties DEF Table
<1>2. ASSUME NEW i \in 1 .. Len(banks)
      PROVE  /\ conf[i] \in Lines /\ i \in 1 .. Len(conf)
             /\ FromLine(banks[i], conf[i])
             /\ SoFar(banks[i], conf[i], Len(conf[i].params))
  <2>1. i \in 1 .. Len(conf)
    BY <1>1 DEF Table
  <2>2. conf[i] \in Lines
    BY <2>1, ElementOfSeq DEF Table
  <2>3. Len(conf[i].params) \in 0 .. Len(conf[i].params)
    BY <2>2, ParsedIs
  <2> QED
    BY <2>1, <2>2, <2>3, ParsedOK DEF Table
<1>3. \A i \in 1 .. Len(banks) : banks[i].addr \in Nat /\ banks[i].len \in Nat
  BY <1>2 DEF FromLine, Banks
<1> QED
  BY <1>1, <1>2, <1>3 DEF TableOK

LEMMA TableInit == BusInit => Table
<1> SUFFICES ASSUME BusInit PROVE Table
  OBVIOUS
<1>1. PICK c \in Confs : conf = c[1]
  BY DEF BusInit
<1>2. conf \in Seq(Lines) /\ Len(conf) \in Nat
  BY <1>1, ConfAssumption, LenProperties
<1>3. \A i \in 1 .. Len(conf) :
        conf[i].map = "flash" => conf[i].addr + conf[i].size <= 4 * SECTOR * SECTORS
  BY <1>1, DeviceAssumption
<1>4. banks \in Seq(Banks) /\ Len(banks) = 0
  BY DEF BusInit
<1> QED
  BY <1>2, <1>3, <1>4 DEF Table

LEMMA TableConfigured ==
  ASSUME Table, parse_mem
  PROVE  Table'
<1> DEFINE k == Len(banks) + 1
           line == conf[k]
           mb == Parsed(line)[Len(line.params)]
<1>1. /\ Len(banks) \in Nat /\ Len(conf) \in Nat /\ k <= Len(conf) /\ k \in 1 .. Len(conf)
      /\ banks \in Seq(Banks)
  BY LenProperties DEF Table, parse_mem
<1>2. conf' = conf /\ banks' = Append(banks, mb)
  BY DEF parse_mem
<1>3. line \in Lines
  BY <1>1, ElementOfSeq DEF Table
<1>4. mb \in Banks
  <2>1. Len(line.params) \in 0 .. Len(line.params)
    BY <1>3, ParsedIs
  <2>2. FromLine(mb, line)
    BY <1>3, <2>1, ParsedOK
  <2> QED
    BY <2>2 DEF FromLine
<1>5. PICK t : t = Append(banks, mb)
  OBVIOUS
<1>6. /\ t \in Seq(Banks) /\ Len(t) = k
      /\ \A i \in 1 .. Len(banks) : t[i] = banks[i]
      /\ t[k] = mb
  <2>1. PICK x \in Banks : x = mb
    BY <1>4
  <2> HIDE DEF mb
  <2> QED
    BY <1>1, <1>5, <2>1, AppendProperties
<1>7. \A i \in 1 .. Len(t) : t[i] = Parsed(conf[i])[Len(conf[i].params)]
  <2>1. \A i \in 1 .. Len(t) : i \in 1 .. Len(banks) \/ i = k
    BY <1>1, <1>6
  <2> QED
    BY <1>6, <2>1 DEF Table
<1>8. t = banks'
  BY <1>2, <1>5
<1> HIDE DEF k
<1> QED
  BY <1>1, <1>2, <1>6, <1>7, <1>8 DEF Table

-------------------------------------------------------------------------------
\* Words and their bytes.

LEMMA AndIsWord ==
  ASSUME NEW v \in Word, NEW w \in Word
  PROVE  And(v, w) \in Word
<1> QED
  BY DEF And, Word, Cell, Byte

LEMMA AllAreWords == All(0) \in Word /\ All(255) \in Word
  BY DEF All, Word, Cell, Byte

\* The bytes of an access lie in its word.
LEMMA ShiftInWord ==
  ASSUME NEW n \in {1, 2, 4}, NEW a \in Nat, big \in BOOLEAN
  PROVE  Shift(n, a) \in 0 .. 4 - n
<1>1. a % 4 \in 0 .. 3 /\ a % 2 \in 0 .. 1
  OBVIOUS
<1>2. (a % 4) - (a % 2) \in {0, 2}
  OBVIOUS
<1>3. CASE n = 1
  <2>1. Shift(n, a) = IF big THEN 3 - (a % 4) ELSE a % 4
    BY <1>3 DEF Shift
  <2> QED
    BY <1>1, <1>3, <2>1
<1>4. CASE n = 2
  <2>1. Shift(n, a) = IF big THEN 2 - (a % 4) + (a % 2) ELSE (a % 4) - (a % 2)
    BY <1>4 DEF Shift
  <2> QED
    BY <1>1, <1>2, <1>4, <2>1
<1>5. CASE n = 4
  <2>1. Shift(n, a) = 0
    BY <1>5 DEF Shift
  <2> QED
    BY <1>5, <2>1
<1> QED
  BY <1>3, <1>4, <1>5

LEMMA StoredIsWord ==
  ASSUME NEW w \in Word, NEW n \in {1, 2, 4}, NEW a \in Nat, big \in BOOLEAN,
         NEW v \in [0 .. n - 1 -> Byte]
  PROVE  Stored(w, n, a, v) \in Word
<1>1. PICK s \in 0 .. 4 - n : s = Shift(n, a)
  BY ShiftInWord
<1>2. Stored(w, n, a, v) = [k \in 0 .. 3 |-> IF k \in s .. s + n - 1 THEN v[k - s] ELSE w[k]]
  BY <1>1 DEF Stored
<1>3. ASSUME NEW k \in 0 .. 3 PROVE (IF k \in s .. s + n - 1 THEN v[k - s] ELSE w[k]) \in Byte
  <2>1. CASE k \in s .. s + n - 1
    <3>1. k - s \in 0 .. n - 1
      BY <2>1
    <3> QED
      BY <2>1, <3>1
  <2>2. CASE k \notin s .. s + n - 1
    BY <2>2 DEF Word, Cell
  <2> QED
    BY <2>1, <2>2
<1> QED
  BY <1>2, <1>3 DEF Word, Cell

\* Every non-empty set of byte values has a largest one.
LEMMA LargestByte ==
  ASSUME NEW S, S \subseteq Byte, S # {}
  PROVE  \E b \in S : \A c \in S : c <= b
<1>1. CASE 255 \in S
  BY <1>1 DEF Byte
<1>2. CASE 255 \notin S /\ 1 \in S
  BY <1>2 DEF Byte
<1>3. CASE S = {0}
  BY <1>3
<1> QED
  BY <1>1, <1>2, <1>3 DEF Byte

\* The byte of significance i that Swap puts together: the largest of four.
SwapBytes(p, isBig, i) ==
  {SignExtended(p[k + 1], IF isBig THEN 3 - k ELSE k)[i] : k \in 0 .. 3}

LEMMA SwapIs ==
  ASSUME NEW p, NEW isBig
  PROVE  Swap(p, isBig) =
           [i \in 0 .. 3 |-> CHOOSE b \in SwapBytes(p, isBig, i) :
                               \A c \in SwapBytes(p, isBig, i) : c <= b]
<1> QED
  BY Zenon DEF Swap, SwapBytes

LEMMA SwapByte ==
  ASSUME NEW p \in [1 .. 4 -> Byte], NEW isBig \in BOOLEAN, NEW i \in 0 .. 3
  PROVE  /\ SwapBytes(p, isBig, i) \subseteq Byte
         /\ Swap(p, isBig)[i] \in SwapBytes(p, isBig, i)
         /\ \A c \in SwapBytes(p, isBig, i) : c <= Swap(p, isBig)[i]
<1>1. PICK S : S = SwapBytes(p, isBig, i)
  OBVIOUS
<1>2. ASSUME NEW k \in 0 .. 3
      PROVE  SignExtended(p[k + 1], IF isBig THEN 3 - k ELSE k)[i] \in Byte
  <2>1. PICK b \in Byte : b = p[k + 1]
    <3>1. k + 1 \in 1 .. 4
      OBVIOUS
    <3> QED
      BY <3>1
  <2>2. PICK s \in 0 .. 3 : s = IF isBig THEN 3 - k ELSE k
    OBVIOUS
  <2>3. SignExtended(b, s)[i] \in Byte
    BY DEF SignExtended, Byte
  <2> QED
    BY <2>1, <2>2, <2>3
<1>3. S \subseteq Byte
  BY <1>1, <1>2 DEF SwapBytes
<1>4. S # {}
  <2>1. 0 \in 0 .. 3
    OBVIOUS
  <2> QED
    BY <1>1, <2>1, Zenon DEF SwapBytes
<1>5. \E b \in S : \A c \in S : c <= b
  BY <1>3, <1>4, LargestByte
<1>6. Swap(p, isBig)[i] = CHOOSE b \in S : \A c \in S : c <= b
  BY <1>1, SwapIs, Zenon
<1> QED
  BY <1>1, <1>3, <1>5, <1>6, Zenon

\* The bytes that the loader makes the k-th word of, zeroes behind the file.
FileBytes(file, k) == [j \in 1 .. 4 |-> IF 4 * k + j <= Len(file) THEN file[4 * k + j] ELSE 0]

LEMMA FileBytesOK ==
  ASSUME NEW file \in Seq(Byte), NEW k \in Nat
  PROVE  FileBytes(file, k) \in [1 .. 4 -> Byte]
<1>1. ASSUME NEW j \in 1 .. 4
      PROVE  (IF 4 * k + j <= Len(file) THEN file[4 * k + j] ELSE 0) \in Byte
  <2>1. CASE 4 * k + j <= Len(file)
    <3>1. 4 * k + j \in 1 .. Len(file)
      BY <2>1, LenProperties
    <3> QED
      BY <2>1, <3>1, ElementOfSeq
  <2>2. CASE ~(4 * k + j <= Len(file))
    BY <2>2 DEF Byte
  <2> QED
    BY <2>1, <2>2
<1> QED
  BY <1>1 DEF FileBytes

LEMMA LoadedIs ==
  ASSUME NEW mb
  PROVE  Loaded(mb) = [k \in 0 .. Words(mb) - 1 |->
                         IF mb.named THEN Swap(FileBytes(mb.file, k), big) ELSE All(0)]
<1> QED
  BY Zenon DEF Loaded, FileBytes

LEMMA LoadedIsMemory ==
  ASSUME NEW mb \in Banks, big \in BOOLEAN
  PROVE  Loaded(mb) \in [0 .. Words(mb) - 1 -> Word]
<1>1. mb.file \in Seq(Byte) /\ mb.len \in Nat
  BY DEF Banks
<1>2. PICK n \in Int : n = Words(mb)
  BY <1>1 DEF Words
<1>3. ASSUME NEW k \in 0 .. n - 1
      PROVE  (IF mb.named THEN Swap(FileBytes(mb.file, k), big) ELSE All(0)) \in Word
  <2>1. PICK p \in [1 .. 4 -> Byte] : p = FileBytes(mb.file, k)
    <3>1. k \in Nat
      OBVIOUS
    <3> QED
      BY <1>1, <3>1, FileBytesOK
  <2>2. \A i \in 0 .. 3 : Swap(p, big)[i] \in Byte
    BY SwapByte
  <2>3. Swap(p, big) \in Word
    <3>1. PICK f : f = Swap(p, big)
      OBVIOUS
    <3>2. f = [i \in 0 .. 3 |-> f[i]]
      BY <3>1, SwapIs
    <3> QED
      BY <2>2, <3>1, <3>2 DEF Word, Cell
  <2> QED
    BY <2>1, <2>3, AllAreWords
<1>4. Loaded(mb) = [k \in 0 .. n - 1 |->
                         IF mb.named THEN Swap(FileBytes(mb.file, k), big) ELSE All(0)]
  BY <1>2, LoadedIs
<1> QED
  BY <1>2, <1>3, <1>4

-------------------------------------------------------------------------------
\* The inductive invariant.

\* Where the static of bank_ptr points: nothing is looked up until the machine runs,
\* and from then on the table is fixed.
StaticInv == /\ status = "config" => mbp = 0
             /\ status # "config" => mbp \in 0 .. End(banks)

MemoryTyped == status = "running" =>
  /\ DOMAIN memory = 1 .. Len(banks)
  /\ \A i \in 1 .. Len(banks) : memory[i] \in [0 .. Words(banks[i]) - 1 -> Word]

Buffers == [count : 0 .. BUFFER, loaded : Nat, latch : Nat, start : Nat,
            buf : [0 .. BUFFER - 1 -> Word]]

FlashTyped == /\ lock \subseteq 0 .. SECTORS - 1
              /\ err \subseteq {SetLb, ClearLb, Protection}
              /\ pb \in Buffers
              /\ pb.loaded <= pb.count

\* A word of bank i, which is a flash.
FlashWord(i, a) == banks[i].bank_write = "flash" /\ InBank(banks, i, a) /\ a % 4 = 0

\* The history of the words loaded agrees with the buffer: the copying loop starts
\* at the first of them.
AskedInv == /\ asked \in Seq([w : Nat, data : Word])
            /\ Len(asked) = pb.loaded
            /\ status = "config" => pb.loaded = 0
            /\ pb.loaded > 0 => /\ asked[1].w = WORD_ADDR(pb.start)
                                /\ \E i \in 1 .. Len(banks) : FlashWord(i, pb.start)

BusInv == /\ Table
          /\ big \in BOOLEAN
          /\ status \in {"config", "running", "exited", "crashed"}
          /\ StaticInv
          /\ MemoryTyped
          /\ FlashTyped
          /\ AskedInv

LEMMA EmptyBufferOK == EmptyBuffer \in Buffers
<1>1. BUFFER \in Nat \ {0}
  BY FlashAssumption
<1>2. [k \in 0 .. BUFFER - 1 |-> All(255)] \in [0 .. BUFFER - 1 -> Word]
  BY AllAreWords
<1> QED
  BY <1>1, <1>2 DEF EmptyBuffer, Buffers

LEMMA BusInitOK == BusInit => BusInv
<1> SUFFICES ASSUME BusInit PROVE BusInv
  OBVIOUS
<1>1. big \in BOOLEAN
  BY ConfAssumption DEF BusInit
<1>2. FlashTyped
  BY EmptyBufferOK DEF BusInit, FlashInit, FlashTyped, EmptyBuffer
<1>3. AskedInv
  <2>1. asked = <<>> /\ pb.loaded = 0
    BY DEF BusInit, FlashInit, EmptyBuffer
  <2> QED
    BY <2>1 DEF AskedInv
<1>4. MemoryTyped /\ StaticInv /\ status = "config"
  BY DEF BusInit, MemoryTyped, StaticInv
<1> QED
  BY <1>1, <1>2, <1>3, <1>4, TableInit DEF BusInv

LEMMA ConfigureKeeps == BusInv /\ Configure => BusInv'
<1> SUFFICES ASSUME BusInv, Configure PROVE BusInv'
  OBVIOUS
<1>1. Table'
  BY TableConfigured DEF BusInv, Configure
<1>2. /\ status = "config" /\ status' = "config" /\ big' = big /\ mbp' = mbp
      /\ lock' = lock /\ err' = err /\ pb' = pb /\ asked' = asked
  BY DEF Configure, parse_mem, flashVars
<1>3. FlashTyped' /\ StaticInv' /\ MemoryTyped'
  BY <1>2 DEF BusInv, FlashTyped, StaticInv, MemoryTyped
<1>4. AskedInv'
  BY <1>2 DEF BusInv, AskedInv
<1> QED
  BY <1>1, <1>2, <1>3, <1>4 DEF BusInv

LEMMA ResetKeeps == BusInv /\ Reset => BusInv'
<1> SUFFICES ASSUME BusInv, Reset PROVE BusInv'
  OBVIOUS
<1>1. /\ status = "config" /\ status' \in {"exited", "running"} /\ big' = big /\ mbp' = mbp
      /\ conf' = conf /\ banks' = banks
      /\ lock' = lock /\ err' = err /\ pb' = pb /\ asked' = asked
      /\ status' = "running" => memory' = [i \in 1 .. Len(banks) |-> Loaded(banks[i])]
  BY DEF Reset, mem_reset, flashVars
<1>2. Table' /\ FlashTyped'
  BY <1>1 DEF BusInv, Table, FlashTyped
<1>3. StaticInv'
  <2>1. End(banks) \in 1 .. Len(banks) + 1 /\ Len(banks) \in Nat
    BY TableEntries, TableEnds DEF BusInv, TableOK
  <2> QED
    BY <1>1, <2>1 DEF BusInv, StaticInv
<1>4. MemoryTyped'
  <2>1. \A i \in 1 .. Len(banks) : banks[i] \in Banks
    BY TableEntries DEF BusInv, FromLine
  <2>2. \A i \in 1 .. Len(banks) : Loaded(banks[i]) \in [0 .. Words(banks[i]) - 1 -> Word]
    BY <2>1, LoadedIsMemory DEF BusInv
  <2> QED
    BY <1>1, <2>2 DEF MemoryTyped
<1>5. AskedInv'
  <2>1. pb.loaded = 0
    BY <1>1 DEF BusInv, AskedInv
  <2> QED
    BY <1>1, <2>1 DEF BusInv, AskedInv
<1> QED
  BY <1>1, <1>2, <1>3, <1>4, <1>5 DEF BusInv

\* An access that changes neither memory nor flash.
LEMMA StaticMoves ==
  ASSUME BusInv, status = "running", mbp' \in 0 .. End(banks), status' \in {"running", "crashed"},
         UNCHANGED <<conf, big, banks, memory, flashVars>>
  PROVE  BusInv'
<1>1. /\ conf' = conf /\ banks' = banks /\ memory' = memory /\ big' = big
      /\ lock' = lock /\ err' = err /\ pb' = pb /\ asked' = asked
  BY DEF flashVars
<1>2. Table' /\ FlashTyped' /\ StaticInv' /\ MemoryTyped'
  BY <1>1 DEF BusInv, Table, FlashTyped, StaticInv, MemoryTyped
<1>3. AskedInv'
  BY <1>1 DEF BusInv, AskedInv, FlashWord
<1> QED
  BY <1>1, <1>2, <1>3 DEF BusInv

\* The bytes of a store in bank i, which matter only if the bank has its word.
Storable(i, n, a, v) ==
  /\ n \in {1, 2, 4} /\ a \in Nat
  /\ Index(i, a) \in 0 .. Words(banks[i]) - 1 => v \in [0 .. n - 1 -> Byte]

\* What it does to the memory.
StoredIn(m, i, n, a, v) ==
  /\ DOMAIN m = 1 .. Len(banks)
  /\ \A j \in 1 .. Len(banks) :
       /\ m[j] \in [0 .. Words(banks[j]) - 1 -> Word]
       /\ j # i => m[j] = memory[j]
  /\ \A k \in 0 .. Words(banks[i]) - 1 :
       m[i][k] = IF k = Index(i, a) THEN Stored(memory[i][k], n, a, v) ELSE memory[i][k]

LEMMA StoreKeeps ==
  ASSUME BusInv, status = "running", NEW i \in 1 .. Len(banks), NEW n, NEW a, NEW v,
         Storable(i, n, a, v), NEW m, m = mem_write(memory, i, n, a, v)
  PROVE  StoredIn(m, i, n, a, v)
<1>1. PICK k : k = Index(i, a)
  OBVIOUS
<1>2. PICK S : S = 0 .. Words(banks[i]) - 1
  OBVIOUS
<1>3. DOMAIN memory = 1 .. Len(banks) /\ memory[i] \in [S -> Word]
  BY <1>2 DEF BusInv, MemoryTyped
<1>4. k \in S => \A w \in Word : Stored(w, n, a, v) \in Word
  BY <1>1, <1>2, StoredIsWord DEF BusInv, Storable
<1>5. PICK x : x = [memory[i] EXCEPT ![k] = Stored(memory[i][k], n, a, v)]
  OBVIOUS
<1>6. mem_write(memory, i, n, a, v) = [memory EXCEPT ![i] = x]
  BY <1>1, <1>5 DEF mem_write
<1>7. /\ x \in [S -> Word]
      /\ \A l \in S : x[l] = IF l = k THEN Stored(memory[i][l], n, a, v) ELSE memory[i][l]
  BY <1>3, <1>4, <1>5
<1>8. m = [memory EXCEPT ![i] = x]
  BY <1>6
<1>9. /\ DOMAIN m = 1 .. Len(banks) /\ m[i] = x
      /\ \A j \in 1 .. Len(banks) : j # i => m[j] = memory[j]
  BY <1>3, <1>8
<1>10. \A j \in 1 .. Len(banks) : m[j] \in [0 .. Words(banks[j]) - 1 -> Word]
  BY <1>2, <1>7, <1>9 DEF BusInv, MemoryTyped
<1> QED
  BY <1>1, <1>2, <1>7, <1>9, <1>10, Zenon DEF StoredIn

LEMMA StaticExact ==
  ASSUME StaticInv, TableOK(banks)
  PROVE  CacheExact
<1> SUFFICES ASSUME status = "running", Disjoint(banks), NEW a \in Addr
             PROVE  LET i == bank_ptr(banks, mbp, a)
                        first == FirstBank(a)
                    IN /\ InBank(banks, i, a) = InBank(banks, first, a)
                       /\ InBank(banks, i, a) => i = first
  BY DEF CacheExact
<1>1. mbp \in 0 .. End(banks) /\ a \in Nat
  BY TopAssumption DEF StaticInv, Addr
<1>2. InBank(banks, mbp, a) => Search(banks, a) = mbp
  BY <1>1, LookupExact
<1>3. bank_ptr(banks, mbp, a) = FirstBank(a)
  BY <1>2 DEF bank_ptr, FirstBank
<1> QED
  BY <1>3, Zenon

-------------------------------------------------------------------------------
\* The flash.

LEMMA DivBelow ==
  ASSUME NEW a \in Nat, NEW q \in Nat \ {0}, NEW n \in Nat, a < q * n
  PROVE  a \div q \in 0 .. n - 1
<1>1. PICK d \in Nat : d = a \div q
  OBVIOUS
<1>2. q * d <= a
  BY <1>1
<1>3. d < n
  <2> SUFFICES ASSUME n <= d PROVE FALSE
    OBVIOUS
  <2>1. q * n <= q * d
    BY SMT
  <2>2. q * n \in Nat /\ q * d \in Nat
    OBVIOUS
  <2> QED
    BY <1>2, <2>1, <2>2
<1> QED
  BY <1>1, <1>3

\* A flash bank lies in the device, so its addresses have a sector.
LEMMA SectorOK ==
  ASSUME Table, NEW i \in 1 .. Len(banks), NEW a \in Nat, FlashWord(i, a)
  PROVE  SECTOR_ADDR(a) \in 0 .. SECTORS - 1
<1>1. PICK line \in Lines : line = conf[i] /\ FromLine(banks[i], line) /\ i \in 1 .. Len(conf)
  BY TableEntries
<1>2. PICK x \in Nat, l \in Nat, y \in Nat, m \in Nat :
        /\ x = banks[i].addr /\ l = banks[i].len /\ y = line.addr /\ m = line.size
        /\ x \in {0, y} /\ l \in {0, m}
  BY <1>1 DEF FromLine, Banks, Lines
<1>3. line.map = "flash"
  BY <1>1 DEF FlashWord, FromLine
<1>4. y + m <= 4 * SECTOR * SECTORS
  BY <1>1, <1>2, <1>3 DEF Table
<1>5. x <= a /\ a - x < l
  BY <1>2 DEF FlashWord, InBank
<1>6. SECTOR \in Nat \ {0} /\ SECTORS \in Nat /\ 4 * SECTOR * SECTORS = (4 * SECTOR) * SECTORS
  BY FlashAssumption
<1>7. a < (4 * SECTOR) * SECTORS
  <2>1. PICK z \in Nat : z = 4 * SECTOR * SECTORS
    BY <1>6
  <2>2. y + m <= z
    BY <1>4, <2>1
  <2>3. (x = 0 \/ x = y) /\ (l = 0 \/ l = m)
    BY <1>2
  <2>4. a < z
    BY <1>5, <2>2, <2>3
  <2> QED
    BY <2>1, <2>4
<1>8. 4 * SECTOR \in Nat \ {0}
  BY <1>6
<1> QED
  BY <1>6, <1>7, <1>8, DivBelow DEF SECTOR_ADDR

LEMMA FlashDataOK ==
  ASSUME NEW data \in FlashData, pb \in Buffers
  PROVE  /\ data[0] \in Nat
         /\ (wsm_mode = WRITE_BUFFER /\ pb.loaded < pb.count) => data \in Word
         /\ wsm_mode = PROGRAM => data \in Word
<1>1. \A c \in Nat : Low(c)[0] \in Nat
  BY DEF Low
<1>2. All(0)[0] \in Nat /\ All(255)[0] \in Nat
  BY DEF All
<1>3. pb.loaded \in Nat /\ pb.count \in Nat
  BY FlashAssumption DEF Buffers
<1>4. CASE wsm_mode = READY
  <2>1. FlashData = {Low(c) : c \in Commands \cup {0}}
    BY <1>4 DEF FlashData, READY, WRITE_BUFFER, PROGRAM
  <2>2. Commands \cup {0} \subseteq Nat
    BY DEF Commands, READ_ARRAY, READ_ID, READ_STATUS, CLEAR_STATUS, READ_QUERY, WRITE_BUFFER,
           PROGRAM, BLOCK_ERASE, LOCK_ACCESS, CONFIRM
  <2>3. data[0] \in Nat
    BY <1>1, <2>1, <2>2
  <2> QED
    BY <1>4, <2>3 DEF READY, WRITE_BUFFER, PROGRAM
<1>5. CASE wsm_mode = WRITE_BUFFER /\ pb.count = 0
  <2>1. FlashData \in {{Low(c) : c \in 0 .. BUFFER}, {Low(0), Low(CONFIRM)}, {All(0), All(255)}}
    BY <1>5 DEF FlashData, READY, WRITE_BUFFER
  <2>2. data[0] \in Nat
    BY <1>1, <1>2, <2>1, FlashAssumption DEF CONFIRM
  <2> QED
    BY <1>3, <1>5, <2>2 DEF WRITE_BUFFER, PROGRAM
<1>6. CASE wsm_mode = WRITE_BUFFER /\ pb.count # 0 /\ pb.loaded = pb.count
  <2>1. FlashData \in {{Low(0), Low(CONFIRM)}, {All(0), All(255)}}
    BY <1>6 DEF FlashData, READY, WRITE_BUFFER
  <2>2. data[0] \in Nat
    BY <1>1, <1>2, <2>1 DEF CONFIRM
  <2> QED
    BY <1>3, <1>6, <2>2 DEF WRITE_BUFFER, PROGRAM
<1>7. CASE \/ wsm_mode = WRITE_BUFFER /\ pb.count # 0 /\ pb.loaded # pb.count
           \/ wsm_mode = PROGRAM
  <2>1. FlashData = {All(0), All(255)}
    BY <1>7 DEF FlashData, READY, WRITE_BUFFER, PROGRAM
  <2> QED
    BY <1>2, <2>1, AllAreWords
<1>8. CASE wsm_mode \notin {READY, WRITE_BUFFER, PROGRAM}
  <2>1. FlashData = {Low(0), Low(1), Low(CONFIRM)}
    BY <1>8 DEF FlashData, READY, WRITE_BUFFER, PROGRAM
  <2> QED
    BY <1>1, <1>8, <2>1 DEF CONFIRM
<1> QED
  BY <1>4, <1>5, <1>6, <1>7, <1>8

\* The end of a command.
LEMMA DoneKeeps ==
  ASSUME FlashTyped, NEW bits, bits \subseteq {SetLb, ClearLb, Protection}, Done(bits),
         lock' \subseteq 0 .. SECTORS - 1
  PROVE  FlashTyped' /\ AskedInv'
<1>1. pb' = EmptyBuffer /\ asked' = <<>> /\ err' = err \cup bits
  BY DEF Done
<1>2. FlashTyped'
  BY <1>1, EmptyBufferOK DEF FlashTyped, EmptyBuffer
<1>3. pb'.loaded = 0 /\ Len(asked') = 0 /\ asked' \in Seq([w : Nat, data : Word])
  BY <1>1 DEF EmptyBuffer
<1> QED
  BY <1>2, <1>3 DEF AskedInv

LEMMA CommandKeeps ==
  ASSUME BusInv, NEW cmd, init_wsm(cmd), UNCHANGED <<banks, status>>
  PROVE  FlashTyped' /\ AskedInv'
<1>1. err' \subseteq err /\ lock' = lock /\ pb' = pb /\ asked' = asked
  BY DEF init_wsm
<1>2. FlashTyped'
  BY <1>1 DEF BusInv, FlashTyped
<1>3. AskedInv'
  BY <1>1 DEF BusInv, AskedInv, FlashWord
<1> QED
  BY <1>2, <1>3

\* The buffer with its count, and with one more word in it.
LEMMA BufferCounted ==
  ASSUME NEW C, NEW F, NEW c \in C, NEW t \in Nat,
         NEW b \in [count : C, loaded : Nat, latch : Nat, start : Nat, buf : F],
         NEW x, x = [b EXCEPT !.count = c, !.latch = t]
  PROVE  /\ x \in [count : C, loaded : Nat, latch : Nat, start : Nat, buf : F]
         /\ x.loaded = b.loaded /\ x.count = c
<1> QED
  OBVIOUS

LEMMA BufferLoaded ==
  ASSUME NEW C, NEW F, NEW f \in F, NEW t \in Nat, NEW l \in Nat,
         NEW b \in [count : C, loaded : Nat, latch : Nat, start : Nat, buf : F],
         NEW x, x = [b EXCEPT !.start = t, !.buf = f, !.loaded = l]
  PROVE  /\ x \in [count : C, loaded : Nat, latch : Nat, start : Nat, buf : F]
         /\ x.loaded = l /\ x.count = b.count /\ x.start = t
<1> QED
  OBVIOUS

LEMMA GetCountKeeps ==
  ASSUME BusInv, NEW i, NEW a \in Nat, NEW data, data[0] \in Nat, pb.count = 0,
         GetCount(i, a, data), UNCHANGED banks
  PROVE  FlashTyped' /\ AskedInv'
<1> DEFINE count == data[0] + 1
<1>1. lock' = lock /\ status' = status /\ BUFFER \in Nat
  BY FlashAssumption DEF GetCount
<1>2. CASE Done({SetLb, ClearLb})
  BY <1>1, <1>2, DoneKeeps DEF BusInv, FlashTyped
<1>3. CASE ~Done({SetLb, ClearLb})
  <2>1. /\ count \in 1 .. BUFFER /\ pb' = [pb EXCEPT !.count = count, !.latch = a]
        /\ asked' = asked /\ err' = err
    BY <1>1, <1>3 DEF GetCount
  <2>2. pb \in Buffers /\ pb.loaded = 0
    BY <1>1 DEF BusInv, FlashTyped, Buffers
  <2>3. pb' \in Buffers /\ pb'.loaded = 0 /\ pb'.count \in Nat
    <3>1. PICK b \in Buffers, c \in 1 .. BUFFER : b = pb /\ c = count
      BY <2>1, <2>2
    <3>2. PICK x : x = [b EXCEPT !.count = c, !.latch = a]
      OBVIOUS
    <3>3. x \in Buffers /\ x.loaded = b.loaded /\ x.count = c
      <4>1. c \in 0 .. BUFFER
        BY <1>1
      <4> QED
        BY <3>2, <4>1, BufferCounted DEF Buffers
    <3> QED
      BY <2>1, <2>2, <3>1, <3>2, <3>3
  <2>4. FlashTyped'
    BY <1>1, <2>1, <2>3 DEF BusInv, FlashTyped
  <2>5. AskedInv'
    BY <2>1, <2>2, <2>3 DEF BusInv, AskedInv
  <2> QED
    BY <2>4, <2>5
<1> QED
  BY <1>2, <1>3

LEMMA LoadDataKeeps ==
  ASSUME BusInv, status = "running", NEW i \in 1 .. Len(banks), NEW a \in Nat, FlashWord(i, a),
         NEW data \in Word, pb.loaded < pb.count, LoadData(i, a, data), UNCHANGED banks
  PROVE  FlashTyped' /\ AskedInv'
<1>1. lock' = lock /\ status' = status /\ BUFFER \in Nat \ {0}
  BY FlashAssumption DEF LoadData
<1>2. CASE Done({SetLb, ClearLb})
  BY <1>1, <1>2, DoneKeeps DEF BusInv, FlashTyped
<1>3. CASE ~Done({SetLb, ClearLb})
  <2>1. PICK w \in Nat : w = WORD_ADDR(a)
    BY DEF WORD_ADDR
  <2>2. PICK slot : slot = w % BUFFER
    OBVIOUS
  <2>3. /\ pb' = [pb EXCEPT !.start = IF pb.loaded = 0 THEN a ELSE @,
                            !.buf[slot] = data, !.loaded = @ + 1]
        /\ asked' = Append(asked, [w |-> w, data |-> data])
        /\ err' = err
    BY <1>3, <2>1, <2>2 DEF LoadData
  <2>4. /\ pb \in Buffers /\ pb.loaded \in Nat /\ pb.count \in 0 .. BUFFER
        /\ pb.buf \in [0 .. BUFFER - 1 -> Word]
    BY DEF BusInv, FlashTyped, Buffers
  <2>5. [pb.buf EXCEPT ![slot] = data] \in [0 .. BUFFER - 1 -> Word]
    BY <2>4
  <2>6. /\ pb' \in Buffers /\ pb'.loaded = pb.loaded + 1 /\ pb'.count = pb.count
        /\ pb'.start = IF pb.loaded = 0 THEN a ELSE pb.start
    <3>1. PICK b \in Buffers, f \in [0 .. BUFFER - 1 -> Word] :
            b = pb /\ f = [pb.buf EXCEPT ![slot] = data]
      BY <2>4, <2>5
    <3>2. PICK st \in Nat : st = IF b.loaded = 0 THEN a ELSE b.start
      BY DEF Buffers
    <3>3. PICK l \in Nat : l = b.loaded + 1
      BY DEF Buffers
    <3>4. PICK x : x = [b EXCEPT !.start = st, !.buf = f, !.loaded = l]
      OBVIOUS
    <3>5. x \in Buffers /\ x.loaded = l /\ x.count = b.count /\ x.start = st
      BY <3>4, BufferLoaded, Zenon DEF Buffers
    <3>6. pb' = x
      BY <2>3, <2>4, <3>1, <3>2, <3>3, <3>4 DEF Buffers
    <3> QED
      BY <3>1, <3>2, <3>3, <3>5, <3>6
  <2>7. FlashTyped'
    BY <1>1, <2>3, <2>4, <2>6 DEF BusInv, FlashTyped
  <2>8. AskedInv'
    <3>1. asked \in Seq([w : Nat, data : Word]) /\ Len(asked) = pb.loaded
      BY DEF BusInv, AskedInv
    <3>2. PICK r \in [w : Nat, data : Word] : r = [w |-> w, data |-> data]
      OBVIOUS
    <3>3. /\ asked' \in Seq([w : Nat, data : Word]) /\ Len(asked') = pb'.loaded
          /\ \A k \in 1 .. Len(asked) : asked'[k] = asked[k]
          /\ asked'[Len(asked) + 1] = r
      BY <2>3, <2>6, <3>1, <3>2, AppendProperties
    <3>4. r.w = w
      BY <3>2
    <3>5. CASE pb.loaded = 0
      <4>1. asked'[1].w = WORD_ADDR(pb'.start) /\ pb'.start = a
        BY <2>1, <2>6, <3>1, <3>3, <3>4, <3>5
      <4> QED
        BY <1>1, <3>3, <4>1 DEF AskedInv, FlashWord
    <3>6. CASE pb.loaded # 0
      <4>1. pb'.start = pb.start /\ pb.loaded > 0 /\ 1 \in 1 .. Len(asked)
        BY <2>4, <2>6, <3>1, <3>6
      <4>2. asked'[1] = asked[1]
        BY <3>3, <4>1
      <4> QED
        BY <1>1, <3>3, <4>1, <4>2 DEF BusInv, AskedInv, FlashWord
    <3> QED
      BY <3>5, <3>6
  <2> QED
    BY <2>7, <2>8
<1> QED
  BY <1>2, <1>3

\* The loops over the words of a buffer or of a sector: the banks of the words.

\* The recursive function of Walk exists, up to every n.
IsWalk(f, t, i, w, n) ==
  f = [j \in 0 .. n |-> bank_ptr(t, IF j = 0 THEN i ELSE f[j - 1], 4 * (w + j))]

LEMMA WalkDefined ==
  ASSUME NEW t, NEW i, NEW w, NEW n \in Nat
  PROVE  \E f : IsWalk(f, t, i, w, n)
<1> DEFINE After(m, j) == bank_ptr(t, m, 4 * (w + j))
           Is(f, m) == f = [j \in 0 .. m |-> After(IF j = 0 THEN i ELSE f[j - 1], j)]
           Bad == {m \in Nat : ~ \E f : Is(f, m)}
<1> HIDE DEF After
<1>1. ASSUME Bad # {} PROVE FALSE
  <2>1. PICK m \in Bad : \A j \in Bad : m <= j
    BY <1>1, LeastPosition
  <2>2. CASE m = 0
    <3>1. Is([j \in 0 .. 0 |-> After(i, 0)], 0)
      <4>1. \A j \in 0 .. 0 : j = 0
        OBVIOUS
      <4> QED
        BY <4>1
    <3> HIDE DEF Is
    <3> QED
      BY <2>1, <2>2, <3>1
  <2>3. CASE m # 0
    <3>1. m - 1 \in Nat /\ m - 1 \notin Bad /\ m \in Nat
      <4>1. m \in Nat
        BY <2>1
      <4> HIDE DEF Bad
      <4> QED
        BY <2>1, <2>3, <4>1
    <3>2. PICK f : Is(f, m - 1)
      BY <3>1
    <3>3. \A j \in 0 .. m - 1 : f[j] = After(IF j = 0 THEN i ELSE f[j - 1], j)
      BY <3>2
    <3> DEFINE g == [j \in 0 .. m |-> IF j = m THEN After(f[m - 1], m) ELSE f[j]]
    <3>4. ASSUME NEW j \in 0 .. m
          PROVE  g[j] = After(IF j = 0 THEN i ELSE g[j - 1], j)
      <4>1. CASE j = m
        <5>1. m - 1 \in 0 .. m /\ m - 1 # m /\ m \in 0 .. m
          BY <3>1
        <5>2. g[m] = After(f[m - 1], m) /\ g[m - 1] = f[m - 1]
          BY <5>1
        <5> HIDE DEF g
        <5> QED
          BY <2>3, <4>1, <5>2
      <4>2. CASE j # m
        <5>1. j \in 0 .. m - 1 /\ g[j] = f[j] /\ (j # 0 => g[j - 1] = f[j - 1])
          BY <3>1, <4>2
        <5> HIDE DEF g
        <5> QED
          BY <3>3, <5>1
      <4> QED
        BY <4>1, <4>2
    <3>5. Is(g, m)
      BY <3>4
    <3> QED
      BY <2>1, <3>5
  <2> QED
    BY <2>2, <2>3
<1>2. \E f : Is(f, n)
  BY <1>1
<1> QED
  BY <1>2 DEF After, IsWalk

LEMMA WalkIs ==
  ASSUME NEW i, NEW w, NEW n \in Nat \ {0}, NEW at, at = Walk(i, w, n)
  PROVE  /\ DOMAIN at = 0 .. n - 1
         /\ \A j \in 0 .. n - 1 :
              at[j] = bank_ptr(banks, IF j = 0 THEN i ELSE at[j - 1], 4 * (w + j))
<1>1. at = CHOOSE f : IsWalk(f, banks, i, w, n - 1)
  BY DEF Walk, IsWalk
<1>2. n - 1 \in Nat
  OBVIOUS
<1>3. \E f : IsWalk(f, banks, i, w, n - 1)
  BY <1>2, WalkDefined
<1>4. IsWalk(at, banks, i, w, n - 1)
  BY <1>1, <1>3
<1> QED
  BY <1>4 DEF IsWalk

\* The static stays in the table on the way.
LEMMA WalkInTable ==
  ASSUME TableOK(banks), NEW i \in 0 .. End(banks), NEW w, NEW n \in Nat \ {0},
         NEW at, at = Walk(i, w, n)
  PROVE  \A j \in 0 .. n - 1 : at[j] \in 0 .. End(banks)
<1> DEFINE Bad == {j \in 0 .. n - 1 : at[j] \notin 0 .. End(banks)}
<1>1. ASSUME Bad # {} PROVE FALSE
  <2>1. PICK j \in Bad : \A k \in Bad : j <= k
    <3>1. Bad \subseteq Nat
      OBVIOUS
    <3> HIDE DEF Bad
    <3> QED
      BY <1>1, <3>1, LeastPosition
  <2>2. j \in 0 .. n - 1 /\ at[j] \notin 0 .. End(banks)
    BY <2>1
  <2>3. PICK m : m = IF j = 0 THEN i ELSE at[j - 1]
    OBVIOUS
  <2>4. m \in 0 .. End(banks)
    <3>1. CASE j = 0
      BY <2>3, <3>1
    <3>2. CASE j # 0
      <4>1. j - 1 \in 0 .. n - 1 /\ ~(j <= j - 1)
        BY <2>2, <3>2
      <4>2. j - 1 \notin Bad
        <5> HIDE DEF Bad
        <5> QED
          BY <2>1, <4>1
      <4> QED
        BY <2>3, <3>2, <4>1, <4>2
    <3> QED
      BY <3>1, <3>2
  <2>5. at[j] = bank_ptr(banks, m, 4 * (w + j))
    BY <2>2, <2>3, WalkIs
  <2> QED
    BY <2>2, <2>4, <2>5, StaticInTable
<1> QED
  BY <1>1

\* Division with a remainder.
LEMMA DivMod ==
  ASSUME NEW x \in Nat, NEW s \in Nat \ {0}
  PROVE  /\ x \div s \in Nat /\ s * (x \div s) <= x /\ x < s * (x \div s) + s
         /\ x % s \in 0 .. s - 1 /\ x % s = x - s * (x \div s)
<1> QED
  OBVIOUS

\* Sectors in the order of their addresses.
LEMMA SectorBounds ==
  ASSUME NEW a \in Nat
  PROVE  /\ SECTOR_ADDR(a) \in Nat /\ SectorStart(a) \in Nat
         /\ SectorStart(a) = SECTOR_ADDR(a) * SECTOR
         /\ 4 * SectorStart(a) <= a /\ a < 4 * (SectorStart(a) + SECTOR)
<1>1. PICK q \in Nat \ {0} : q = SECTOR
  BY FlashAssumption
<1>2. PICK z \in Nat \ {0} : z = 4 * q
  BY <1>1
<1>3. PICK d \in Nat : d = a \div z
  BY <1>2
<1>4. z * d <= a /\ a < z * d + z
  BY <1>3, DivMod
<1>5. SECTOR_ADDR(a) = d
  BY <1>1, <1>2, <1>3 DEF SECTOR_ADDR
<1>6. SectorStart(a) = d * q
  BY <1>1, <1>5 DEF SectorStart
<1>7. PICK p \in Nat : p = d * q
  OBVIOUS
<1>8. z * d = 4 * p
  BY <1>2, <1>7
<1> QED
  BY <1>1, <1>2, <1>4, <1>5, <1>6, <1>7, <1>8

LEMMA SectorMonotone ==
  ASSUME NEW a \in Nat, NEW b \in Nat, a <= b
  PROVE  SectorStart(a) <= SectorStart(b)
<1>1. PICK q \in Nat \ {0} : q = SECTOR
  BY FlashAssumption
<1>2. PICK c \in Nat, d \in Nat : c = SECTOR_ADDR(a) /\ d = SECTOR_ADDR(b)
  BY SectorBounds
<1>3. PICK x \in Nat, y \in Nat : /\ x = SectorStart(a) /\ y = SectorStart(b)
                                  /\ x = c * q /\ y = d * q
  BY <1>1, <1>2, SectorBounds
<1>4. 4 * x <= a /\ b < 4 * (y + q)
  BY <1>1, <1>3, SectorBounds
<1>5. x < y + q
  BY <1>4
<1>6. c <= d
  <2> SUFFICES ASSUME d + 1 <= c PROVE FALSE
    OBVIOUS
  <2>1. (d + 1) * q <= c * q
    BY SMT
  <2>2. (d + 1) * q = d * q + q
    OBVIOUS
  <2> QED
    BY <1>3, <1>5, <2>1, <2>2
<1>7. c * q <= d * q
  BY <1>6, SMT
<1> QED
  BY <1>3, <1>7

\* A bank that is no flash lies before the first sector of every flash, or behind its
\* last sector and the words that a buffer can reach behind it.
LEMMA ApartFrom ==
  ASSUME TableOK(banks), FlashApart(banks), NEW f \in 1 .. Len(banks),
         NEW a \in Nat, FlashWord(f, a), NEW b \in 1 .. Len(banks),
         banks[b].bank_write # "flash", NEW z \in Nat, InBank(banks, b, z)
  PROVE  /\ z < 4 * SectorStart(a) \/ 4 * (SectorStart(a) + SECTOR) <= z
         /\ z < a \/ a + 4 * BUFFER <= z
<1>1. PICK x \in Nat, l \in Nat, y \in Nat, m \in Nat :
        x = banks[f].addr /\ l = banks[f].len /\ y = banks[b].addr /\ m = banks[b].len
  BY DEF TableOK
<1>2. x <= a /\ a - x < l
  BY <1>1 DEF FlashWord, InBank
<1>3. y <= z /\ z - y < m
  BY <1>1 DEF InBank
<1>4. PICK e \in Nat : e = x + l - 1
  BY <1>2
<1>5. PICK p \in Nat, q \in Nat, r \in Nat, s \in Nat, u \in Nat :
        /\ p = SectorStart(x) /\ q = SectorStart(a) /\ r = SectorStart(e) /\ s = SECTOR
        /\ u = BUFFER
  BY SectorBounds, FlashAssumption
<1>6. p <= q /\ q <= r /\ 4 * p <= x
  <2>1. a <= e
    BY <1>2, <1>4
  <2> QED
    BY <1>2, <1>5, <2>1, SectorMonotone, SectorBounds
<1>7. y + m <= 4 * p \/ (x + l + 4 * u <= y /\ 4 * (r + s) <= y)
  BY <1>1, <1>4, <1>5 DEF FlashApart, FlashWord
<1>8. /\ z < 4 * q \/ 4 * (q + s) <= z
      /\ z < a \/ a + 4 * u <= z
  BY <1>2, <1>3, <1>6, <1>7
<1> QED
  BY <1>5, <1>8

\* The copying loop stays within a buffer's length of a word of the flash.
LEMMA CopyStaysApart ==
  ASSUME BusInv, FlashApart(banks), pb.loaded > 0,
         NEW j \in 0 .. BUFFER - 1, NEW b \in 1 .. Len(banks),
         InBank(banks, b, 4 * (WORD_ADDR(pb.start) + j))
  PROVE  banks[b].bank_write = "flash"
<1> SUFFICES ASSUME banks[b].bank_write # "flash" PROVE FALSE
  OBVIOUS
<1>1. PICK f \in 1 .. Len(banks) : FlashWord(f, pb.start)
  BY DEF BusInv, AskedInv
<1>2. PICK s \in Nat : s = pb.start
  BY DEF BusInv, FlashTyped, Buffers
<1>3. PICK u \in Nat : u = BUFFER /\ j \in Nat /\ j < u
  BY FlashAssumption
<1>4. PICK d \in Nat : d = s \div 4 /\ s = 4 * d
  BY <1>1, <1>2 DEF FlashWord
<1>5. PICK z \in Nat : z = 4 * (d + j)
  BY <1>3
<1>6. InBank(banks, b, z)
  BY <1>2, <1>4, <1>5 DEF WORD_ADDR
<1>7. z < s \/ s + 4 * u <= z
  BY <1>1, <1>2, <1>3, <1>6, TableEntries, ApartFrom DEF BusInv
<1>8. z = s + 4 * j /\ 4 * j < 4 * u
  BY <1>3, <1>4, <1>5
<1>9. ~(z < s) /\ ~(s + 4 * u <= z)
  BY <1>3, <1>8
<1> QED
  BY <1>7, <1>9

\* The erasing loop stays within a sector that the flash has a word in.
LEMMA EraseStaysApart ==
  ASSUME BusInv, FlashApart(banks), NEW f \in 1 .. Len(banks), NEW a \in Nat, FlashWord(f, a),
         NEW j \in 0 .. SECTOR - 1, NEW b \in 1 .. Len(banks),
         InBank(banks, b, 4 * (SectorStart(a) + j))
  PROVE  banks[b].bank_write = "flash"
<1> SUFFICES ASSUME banks[b].bank_write # "flash" PROVE FALSE
  OBVIOUS
<1>1. PICK q \in Nat, s \in Nat : q = SectorStart(a) /\ s = SECTOR
  BY SectorBounds, FlashAssumption
<1>2. j \in Nat /\ j < s
  BY <1>1
<1>3. PICK z \in Nat : z = 4 * (q + j)
  BY <1>2
<1>4. z < 4 * q \/ 4 * (q + s) <= z
  BY <1>1, <1>3, TableEntries, ApartFrom DEF BusInv
<1> QED
  BY <1>2, <1>3, <1>4

\* What a loop over n words leaves of the memory.
LEMMA WriteWordsKeeps ==
  ASSUME BusInv, status = "running", NEW i \in 0 .. End(banks), NEW w, NEW n \in Nat \ {0},
         NEW new, NEW at, at = Walk(i, w, n), WriteWords(at, w, n, new),
         \A j \in 0 .. n - 1 :
           (/\ at[j] \in 1 .. Len(banks)
            /\ Index(at[j], 4 * (w + j)) \in 0 .. Words(banks[at[j]]) - 1) => new[j] \in Word,
         FlashApart(banks) =>
           \A j \in 0 .. n - 1 : \A b \in 1 .. Len(banks) :
             InBank(banks, b, 4 * (w + j)) => banks[b].bank_write = "flash"
  PROVE  /\ status' \in {"running", "crashed"} /\ mbp' \in 0 .. End(banks)
         /\ DOMAIN memory' = 1 .. Len(banks)
         /\ \A b \in 1 .. Len(banks) :
              /\ memory'[b] \in [0 .. Words(banks[b]) - 1 -> Word]
              /\ (FlashApart(banks) /\ banks[b].bank_write # "flash") => memory'[b] = memory[b]
<1>1. /\ DOMAIN memory = 1 .. Len(banks)
      /\ \A b \in 1 .. Len(banks) : memory[b] \in [0 .. Words(banks[b]) - 1 -> Word]
  BY DEF BusInv, MemoryTyped
<1>2. DOMAIN at = 0 .. n - 1 /\ \A j \in 0 .. n - 1 : at[j] \in 0 .. End(banks)
  BY WalkIs, WalkInTable, TableEntries DEF BusInv
<1>3. mbp' \in 0 .. End(banks)
  <2>1. n - 1 \in 0 .. n - 1
    OBVIOUS
  <2> QED
    BY <1>2, <2>1 DEF WriteWords
<1>4. CASE \E j \in DOMAIN at : Hollow(at[j], w + j)
  BY <1>1, <1>3, <1>4 DEF WriteWords
<1>5. CASE ~ \E j \in DOMAIN at : Hollow(at[j], w + j)
  <2> DEFINE Here(b, k) == {j \in DOMAIN at : at[j] = b /\ Index(b, 4 * (w + j)) = k}
             New(b, k) == IF Here(b, k) = {} THEN memory[b][k]
                          ELSE new[CHOOSE j \in Here(b, k) : TRUE]
  <2>1. status' = "running"
    BY <1>5 DEF WriteWords
  <2>2. memory' = [b \in DOMAIN memory |-> [k \in DOMAIN memory[b] |-> New(b, k)]]
    BY <1>5, Zenon DEF WriteWords, Overwritten
  <2>3. \A b, k : \A j \in Here(b, k) :
          j \in 0 .. n - 1 /\ at[j] = b /\ Index(b, 4 * (w + j)) = k
    BY <1>2, Zenon
  <2>4. \A b, k : Here(b, k) # {} => (CHOOSE j \in Here(b, k) : TRUE) \in Here(b, k)
    BY Zenon
  <2> HIDE DEF Here
  <2>5. ASSUME NEW b \in 1 .. Len(banks), NEW S, S = 0 .. Words(banks[b]) - 1
        PROVE  /\ memory'[b] \in [S -> Word]
               /\ (FlashApart(banks) /\ banks[b].bank_write # "flash") => memory'[b] = memory[b]
    <3>1. memory[b] \in [S -> Word]
      BY <1>1, <2>5
    <3>2. memory'[b] = [k \in S |-> New(b, k)]
      BY <1>1, <2>2, <3>1
    <3>3. ASSUME NEW k \in S PROVE New(b, k) \in Word
      <4>1. memory[b][k] \in Word
        BY <3>1
      <4>2. ASSUME Here(b, k) # {} PROVE new[CHOOSE j \in Here(b, k) : TRUE] \in Word
        <5>1. PICK j : j = CHOOSE l \in Here(b, k) : TRUE
          OBVIOUS
        <5>2. j \in Here(b, k)
          BY <2>4, <4>2, <5>1, Zenon
        <5>3. j \in 0 .. n - 1 /\ at[j] = b /\ Index(b, 4 * (w + j)) = k
          BY <2>3, <5>2, Zenon
        <5>4. new[j] \in Word
          BY <2>5, <3>3, <5>3
        <5> QED
          BY <5>1, <5>4
      <4> QED
        BY <4>1, <4>2
    <3>4. ASSUME FlashApart(banks), banks[b].bank_write # "flash", NEW k \in S
          PROVE  New(b, k) = memory[b][k]
      <4>1. ASSUME NEW j \in Here(b, k) PROVE FALSE
        <5>1. j \in 0 .. n - 1 /\ at[j] = b
          BY <2>3, <4>1, Zenon
        <5>2. InBank(banks, b, 4 * (w + j))
          BY <1>2, <1>5, <5>1 DEF Hollow
        <5> QED
          BY <3>4, <5>1, <5>2
      <4> QED
        BY <4>1
    <3> HIDE DEF New
    <3> QED
      BY <3>1, <3>2, <3>3, <3>4
  <2>6. DOMAIN memory' = 1 .. Len(banks)
    BY <1>1, <2>2
  <2> QED
    BY <1>3, <2>1, <2>5, <2>6
<1> QED
  BY <1>4, <1>5

\* What a step of the flash leaves: the parts of the invariant, and the other banks.
FlashKept ==
  /\ FlashTyped' /\ AskedInv'
  /\ status' \in {"running", "crashed"} /\ mbp' \in 0 .. End(banks)
  /\ DOMAIN memory' = 1 .. Len(banks)
  /\ \A b \in 1 .. Len(banks) :
       /\ memory'[b] \in [0 .. Words(banks[b]) - 1 -> Word]
       /\ (FlashApart(banks) /\ banks[b].bank_write # "flash") => memory'[b] = memory[b]

LEMMA MemoryUntouched ==
  ASSUME BusInv, status = "running", UNCHANGED <<memory, status>>, mbp' \in 0 .. End(banks),
         FlashTyped', AskedInv'
  PROVE  FlashKept
<1> QED
  BY DEF FlashKept, BusInv, MemoryTyped

\* A whole word, as the flash reads it.
LEMMA ReadIsWord ==
  ASSUME NEW i, NEW a \in Nat, memory[i][Index(i, a)] \in Word
  PROVE  mem_read(i, 4, a) \in Word /\ mem_read(i, 4, a) = memory[i][Index(i, a)]
<1>1. PICK w \in Word : w = memory[i][Index(i, a)]
  OBVIOUS
<1>2. Shift(4, a) = 0
  BY DEF Shift
<1>3. mem_read(i, 4, a) = [k \in 0 .. 4 - 1 |-> w[0 + k]]
  BY <1>1, <1>2 DEF mem_read, Part
<1>4. 0 .. 4 - 1 = 0 .. 3 /\ \A k \in 0 .. 3 : 0 + k = k
  OBVIOUS
<1>5. mem_read(i, 4, a) = [k \in 0 .. 3 |-> w[k]]
  BY <1>3, <1>4
<1> QED
  BY <1>1, <1>5 DEF Word, Cell

LEMMA ConfirmKeeps ==
  ASSUME BusInv, status = "running", NEW i \in 0 .. End(banks), NEW data,
         pb.loaded > 0, ConfirmBuffer(i, data)
  PROVE  FlashKept
<1>1. lock' = lock
  BY DEF ConfirmBuffer
<1>2. FlashTyped' /\ AskedInv'
  <2>1. \/ Done({SetLb, ClearLb}) \/ Done({SetLb, Protection}) \/ Done({})
    BY DEF ConfirmBuffer
  <2>2. FlashTyped /\ lock' \subseteq 0 .. SECTORS - 1
    BY <1>1 DEF BusInv, FlashTyped
  <2>3. /\ {SetLb, ClearLb} \subseteq {SetLb, ClearLb, Protection}
        /\ {SetLb, Protection} \subseteq {SetLb, ClearLb, Protection}
        /\ {} \subseteq {SetLb, ClearLb, Protection}
    OBVIOUS
  <2> QED
    BY <2>1, <2>2, <2>3, DoneKeeps
<1>3. CASE UNCHANGED <<memory, status>> /\ mbp' = i
  BY <1>2, <1>3, MemoryUntouched
<1>4. CASE ~(UNCHANGED <<memory, status>> /\ mbp' = i)
  <2>1. PICK w \in Nat : w = WORD_ADDR(pb.start)
    BY DEF WORD_ADDR, BusInv, FlashTyped, Buffers
  <2>2. PICK at : at = Walk(i, w, BUFFER)
    OBVIOUS
  <2>3. PICK new : new = [j \in 0 .. BUFFER - 1 |-> Copy(at[j], w + j)]
    OBVIOUS
  <2>4. WriteWords(at, w, BUFFER, new)
    BY <1>4, <2>1, <2>2, <2>3 DEF ConfirmBuffer
  <2>5. ASSUME NEW j \in 0 .. BUFFER - 1, at[j] \in 1 .. Len(banks),
               Index(at[j], 4 * (w + j)) \in 0 .. Words(banks[at[j]]) - 1
        PROVE  new[j] \in Word
    <3>1. PICK v \in Nat : v = w + j
      BY <2>1, <2>5, FlashAssumption
    <3>2. memory[at[j]][Index(at[j], 4 * v)] \in Word
      BY <2>5, <3>1 DEF BusInv, MemoryTyped
    <3>3. mem_read(at[j], 4, 4 * v) \in Word
      BY <3>2, ReadIsWord
    <3>4. v % BUFFER \in 0 .. BUFFER - 1
      BY FlashAssumption
    <3>5. pb.buf \in [0 .. BUFFER - 1 -> Word]
      BY DEF BusInv, FlashTyped, Buffers
    <3>6. Copy(at[j], v) \in Word
      BY <3>3, <3>4, <3>5, AndIsWord DEF Copy
    <3> QED
      BY <2>3, <2>5, <3>1, <3>6
  <2>6. ASSUME FlashApart(banks), NEW j \in 0 .. BUFFER - 1, NEW b \in 1 .. Len(banks),
               InBank(banks, b, 4 * (w + j))
        PROVE  banks[b].bank_write = "flash"
    BY <2>1, <2>6, CopyStaysApart
  <2>7. BUFFER \in Nat \ {0}
    BY FlashAssumption
  <2>8. /\ status' \in {"running", "crashed"} /\ mbp' \in 0 .. End(banks)
        /\ DOMAIN memory' = 1 .. Len(banks)
        /\ \A b \in 1 .. Len(banks) :
             /\ memory'[b] \in [0 .. Words(banks[b]) - 1 -> Word]
             /\ (FlashApart(banks) /\ banks[b].bank_write # "flash") => memory'[b] = memory[b]
    BY <2>2, <2>4, <2>5, <2>6, <2>7, WriteWordsKeeps
  <2> QED
    BY <1>2, <2>8 DEF FlashKept
<1> QED
  BY <1>3, <1>4

LEMMA ProgramKeeps ==
  ASSUME BusInv, status = "running", NEW i \in 1 .. Len(banks), NEW a \in Nat, FlashWord(i, a),
         i \in 0 .. End(banks), NEW data \in Word, Program(i, a, data)
  PROVE  FlashKept
<1>1. status' = status /\ lock' = lock /\ mbp' \in 0 .. End(banks)
  BY DEF Program
<1>2. FlashTyped /\ lock' \subseteq 0 .. SECTORS - 1
  BY <1>1 DEF BusInv, FlashTyped
<1>3. FlashTyped' /\ AskedInv'
  <2>1. Done({SetLb, Protection}) \/ Done({})
    BY DEF Program
  <2>2. /\ {SetLb, Protection} \subseteq {SetLb, ClearLb, Protection}
        /\ {} \subseteq {SetLb, ClearLb, Protection}
    OBVIOUS
  <2> QED
    BY <1>2, <2>1, <2>2, DoneKeeps
<1>4. CASE memory' = memory
  BY <1>1, <1>3, <1>4, MemoryUntouched
<1>5. CASE memory' # memory
  <2>1. PICK v : v = And(mem_read(i, 4, a), data)
    OBVIOUS
  <2>2. PICK m : m = mem_write(memory, i, 4, a, v)
    OBVIOUS
  <2>3. memory' = m
    BY <1>5, <2>1, <2>2 DEF Program
  <2>4. ASSUME Index(i, a) \in 0 .. Words(banks[i]) - 1 PROVE v \in [0 .. 4 - 1 -> Byte]
    <3>1. memory[i][Index(i, a)] \in Word
      BY <2>4 DEF BusInv, MemoryTyped
    <3>2. mem_read(i, 4, a) \in Word
      BY <3>1, ReadIsWord
    <3> QED
      BY <2>1, <3>2, AndIsWord DEF Word, Cell
  <2>5. /\ DOMAIN m = 1 .. Len(banks)
        /\ \A j \in 1 .. Len(banks) :
             /\ m[j] \in [0 .. Words(banks[j]) - 1 -> Word]
             /\ j # i => m[j] = memory[j]
    <3>1. Storable(i, 4, a, v)
      BY <2>4 DEF Storable
    <3>2. StoredIn(m, i, 4, a, v)
      BY <2>2, <3>1, StoreKeeps
    <3> QED
      BY <3>2, Zenon DEF StoredIn
  <2>6. banks[i].bank_write = "flash"
    BY DEF FlashWord
  <2> QED
    BY <1>1, <1>3, <2>3, <2>5, <2>6 DEF FlashKept
<1> QED
  BY <1>4, <1>5

LEMMA EraseKeeps ==
  ASSUME BusInv, status = "running", NEW i \in 1 .. Len(banks), NEW a \in Nat, FlashWord(i, a),
         i \in 0 .. End(banks), NEW data, Erase(i, a, data)
  PROVE  FlashKept
<1>1. lock' = lock
  BY DEF Erase
<1>2. FlashTyped /\ lock' \subseteq 0 .. SECTORS - 1
  BY <1>1 DEF BusInv, FlashTyped
<1>3. FlashTyped' /\ AskedInv'
  <2>1. Done({ClearLb, Protection}) \/ Done({})
    BY DEF Erase
  <2>2. /\ {ClearLb, Protection} \subseteq {SetLb, ClearLb, Protection}
        /\ {} \subseteq {SetLb, ClearLb, Protection}
    OBVIOUS
  <2> QED
    BY <1>2, <2>1, <2>2, DoneKeeps
<1>4. CASE UNCHANGED <<memory, status>> /\ mbp' = i
  BY <1>3, <1>4, MemoryUntouched
<1>5. CASE ~(UNCHANGED <<memory, status>> /\ mbp' = i)
  <2>1. PICK w \in Nat : w = SectorStart(a)
    BY SectorBounds
  <2>2. PICK at : at = Walk(i, w, SECTOR)
    OBVIOUS
  <2>3. PICK new : new = [j \in 0 .. SECTOR - 1 |-> All(255)]
    OBVIOUS
  <2>4. WriteWords(at, w, SECTOR, new)
    BY <1>5, <2>1, <2>2, <2>3 DEF Erase
  <2>5. \A j \in 0 .. SECTOR - 1 : new[j] \in Word
    BY <2>3, AllAreWords
  <2>6. ASSUME FlashApart(banks), NEW j \in 0 .. SECTOR - 1, NEW b \in 1 .. Len(banks),
               InBank(banks, b, 4 * (w + j))
        PROVE  banks[b].bank_write = "flash"
    BY <2>1, <2>6, EraseStaysApart
  <2>7. SECTOR \in Nat \ {0}
    BY FlashAssumption
  <2>8. /\ status' \in {"running", "crashed"} /\ mbp' \in 0 .. End(banks)
        /\ DOMAIN memory' = 1 .. Len(banks)
        /\ \A b \in 1 .. Len(banks) :
             /\ memory'[b] \in [0 .. Words(banks[b]) - 1 -> Word]
             /\ (FlashApart(banks) /\ banks[b].bank_write # "flash") => memory'[b] = memory[b]
    BY <2>2, <2>4, <2>5, <2>6, <2>7, WriteWordsKeeps
  <2> QED
    BY <1>3, <2>8 DEF FlashKept
<1> QED
  BY <1>4, <1>5

LEMMA LockKeeps ==
  ASSUME BusInv, status = "running", NEW i \in 1 .. Len(banks), NEW a \in Nat, FlashWord(i, a),
         i \in 0 .. End(banks), NEW data, Lock(i, a, data)
  PROVE  FlashKept
<1>1. UNCHANGED <<memory, status>> /\ mbp' \in 0 .. End(banks) /\ Done({})
  BY DEF Lock
<1>2. FlashTyped /\ lock \subseteq 0 .. SECTORS - 1
  BY DEF BusInv, FlashTyped
<1>3. lock' \subseteq 0 .. SECTORS - 1
  <2>1. SECTOR_ADDR(a) \in 0 .. SECTORS - 1
    BY SectorOK DEF BusInv
  <2>2. lock' \subseteq lock \cup {SECTOR_ADDR(a)}
    <3>1. CASE data[0] = 1
      BY <3>1 DEF Lock, CONFIRM
    <3>2. CASE data[0] = CONFIRM
      BY <3>2 DEF Lock, CONFIRM
    <3>3. CASE data[0] # 1 /\ data[0] # CONFIRM
      BY <3>3 DEF Lock
    <3> QED
      BY <3>1, <3>2, <3>3
  <2> QED
    BY <1>2, <2>1, <2>2
<1>4. FlashTyped' /\ AskedInv'
  BY <1>1, <1>2, <1>3, DoneKeeps
<1> QED
  BY <1>1, <1>4, MemoryUntouched

LEMMA FlashStepKeeps ==
  ASSUME BusInv, status = "running", NEW i \in 1 .. Len(banks), NEW a \in Nat, FlashWord(i, a),
         i \in 0 .. End(banks), NEW data \in FlashData, WriteFlash(i, a, data)
  PROVE  FlashKept /\ BusInv'
<1>1. conf' = conf /\ big' = big /\ banks' = banks /\ flash_write_word(i, a, data)
  BY DEF WriteFlash
<1>2. pb \in Buffers /\ pb.loaded <= pb.count /\ pb.loaded \in Nat /\ pb.count \in Nat
  BY FlashAssumption DEF BusInv, FlashTyped, Buffers
<1>3. /\ data[0] \in Nat
      /\ (wsm_mode = WRITE_BUFFER /\ pb.loaded < pb.count) => data \in Word
      /\ wsm_mode = PROGRAM => data \in Word
  BY <1>2, FlashDataOK
<1>4. ASSUME init_wsm(data[0]) /\ mbp' = i /\ UNCHANGED <<memory, status>>
      PROVE  FlashKept
  BY <1>1, <1>4, CommandKeeps, MemoryUntouched
<1>5. ASSUME pb.count = 0 /\ GetCount(i, a, data)
      PROVE  FlashKept
  <2>1. UNCHANGED <<memory, status>> /\ mbp' = i
    BY <1>5 DEF GetCount
  <2> QED
    BY <1>1, <1>3, <1>5, <2>1, GetCountKeeps, MemoryUntouched
<1>6. ASSUME wsm_mode = WRITE_BUFFER /\ pb.loaded < pb.count /\ LoadData(i, a, data)
      PROVE  FlashKept
  <2>1. UNCHANGED <<memory, status>> /\ mbp' = i
    BY <1>6 DEF LoadData
  <2> QED
    BY <1>1, <1>3, <1>6, <2>1, LoadDataKeeps, MemoryUntouched
<1>7. ASSUME pb.count > 0 /\ pb.loaded = pb.count /\ ConfirmBuffer(i, data)
      PROVE  FlashKept
  BY <1>2, <1>7, ConfirmKeeps DEF FlashKept
<1>8. ASSUME wsm_mode = PROGRAM /\ Program(i, a, data)
      PROVE  FlashKept
  BY <1>3, <1>8, ProgramKeeps
<1>9. ASSUME Erase(i, a, data)
      PROVE  FlashKept
  BY <1>9, EraseKeeps
<1>10. ASSUME Lock(i, a, data)
      PROVE  FlashKept
  BY <1>10, LockKeeps
<1>11. FlashKept
  BY <1>1, <1>4, <1>5, <1>6, <1>7, <1>8, <1>9, <1>10 DEF flash_write_word
<1>12. Table' /\ StaticInv' /\ MemoryTyped'
  BY <1>1, <1>11 DEF BusInv, Table, StaticInv, MemoryTyped, FlashKept
<1> QED
  BY <1>1, <1>11, <1>12 DEF BusInv, FlashKept

-------------------------------------------------------------------------------
\* Every step.

LEMMA WriteMemoryKeeps ==
  ASSUME BusInv, status = "running", NEW i \in 1 .. Len(banks), NEW a \in Nat,
         i \in 0 .. End(banks), NEW n \in {1, 2, 4}, NEW v \in [0 .. n - 1 -> WriteBytes],
         WriteMemory(i, n, a, v)
  PROVE  StoredIn(memory', i, n, a, v) /\ BusInv'
<1>1. /\ conf' = conf /\ banks' = banks /\ big' = big /\ status' = status /\ mbp' = i
      /\ lock' = lock /\ err' = err /\ pb' = pb /\ asked' = asked
  BY DEF WriteMemory, flashVars
<1>2. Storable(i, n, a, v)
  BY WriteAssumption DEF Storable
<1>3. StoredIn(memory', i, n, a, v)
  <2>1. memory' = mem_write(memory, i, n, a, v)
    BY DEF WriteMemory
  <2> QED
    BY <1>2, <2>1, StoreKeeps
<1>4. DOMAIN memory' = 1 .. Len(banks)
      /\ \A j \in 1 .. Len(banks) : memory'[j] \in [0 .. Words(banks[j]) - 1 -> Word]
  BY <1>3, Zenon DEF StoredIn
<1>5. Table' /\ FlashTyped' /\ StaticInv' /\ MemoryTyped'
  BY <1>1, <1>4 DEF BusInv, Table, FlashTyped, StaticInv, MemoryTyped
<1>6. AskedInv'
  BY <1>1 DEF BusInv, AskedInv, FlashWord
<1> QED
  BY <1>1, <1>3, <1>5, <1>6 DEF BusInv

\* An access is one of these four.
LEMMA AccessIs ==
  ASSUME BusInv, status = "running", NEW a \in Addr, NEW i, i = bank_ptr(banks, mbp, a),
         bus_read(i, a) \/ bus_write(i, a)
  PROVE  /\ a \in Nat /\ i \in 0 .. End(banks)
         /\ \/ /\ mbp' = i /\ status' = "running"
               /\ UNCHANGED <<conf, big, banks, memory, flashVars, bytes>>
            \/ /\ i \in 1 .. Len(banks) /\ InBank(banks, i, a) /\ banks[i].bank_write = "ram"
               /\ \E n \in {1, 2, 4} : \E v \in [0 .. n - 1 -> WriteBytes] :
                    WriteMemory(i, n, a, v)
            \/ /\ i \in 1 .. Len(banks) /\ FlashWord(i, a)
               /\ \E data \in FlashData : WriteFlash(i, a, data)
            \/ /\ i \in 1 .. Len(banks) /\ banks[i].bank_write = "null"
               /\ mbp' = i /\ status' = "crashed"
               /\ UNCHANGED <<conf, big, banks, memory, flashVars>>
<1>1. a \in Nat
  BY TopAssumption DEF Addr
<1>2. i \in 0 .. End(banks)
  BY TableEntries, StaticInTable DEF BusInv, StaticInv
<1>3. InBank(banks, i, a) => i \in 1 .. Len(banks)
  BY DEF InBank
<1>4. CASE bus_read(i, a) \/ WriteNowhere(i, a)
  BY <1>1, <1>2, <1>4 DEF bus_read, WriteNowhere
<1>5. CASE bus_write(i, a) /\ ~WriteNowhere(i, a)
  BY <1>1, <1>2, <1>3, <1>5 DEF bus_write, WriteNull, FlashWord
<1> QED
  BY <1>4, <1>5

LEMMA NextKeeps == BusInv /\ [BusNext]_vars => BusInv'
<1> SUFFICES ASSUME BusInv, [BusNext]_vars PROVE BusInv'
  OBVIOUS
<1>1. CASE Configure
  BY <1>1, ConfigureKeeps
<1>2. CASE Reset
  BY <1>2, ResetKeeps
<1>3. ASSUME NEW a \in Addr, status = "running",
             NEW i, i = bank_ptr(banks, mbp, a), bus_read(i, a) \/ bus_write(i, a)
      PROVE  BusInv'
  <2>1. a \in Nat /\ i \in 0 .. End(banks)
    BY <1>3, AccessIs
  <2>2. CASE /\ mbp' = i /\ status' \in {"running", "crashed"}
             /\ UNCHANGED <<conf, big, banks, memory, flashVars>>
    BY <1>3, <2>1, <2>2, StaticMoves
  <2>3. ASSUME i \in 1 .. Len(banks), NEW n \in {1, 2, 4}, NEW v \in [0 .. n - 1 -> WriteBytes],
               WriteMemory(i, n, a, v)
        PROVE  BusInv'
    BY <1>3, <2>1, <2>3, WriteMemoryKeeps
  <2>4. ASSUME i \in 1 .. Len(banks), FlashWord(i, a), NEW data \in FlashData,
               WriteFlash(i, a, data)
        PROVE  BusInv'
    BY <1>3, <2>1, <2>4, FlashStepKeeps
  <2> QED
    BY <1>3, <2>2, <2>3, <2>4, AccessIs
<1>4. CASE UNCHANGED vars
  <2>1. /\ conf' = conf /\ big' = big /\ status' = status /\ banks' = banks /\ mbp' = mbp
        /\ memory' = memory /\ lock' = lock /\ err' = err /\ pb' = pb /\ asked' = asked
    BY <1>4 DEF vars, bankVars, flashVars
  <2>2. Table' /\ FlashTyped' /\ StaticInv' /\ MemoryTyped'
    BY <2>1 DEF BusInv, Table, FlashTyped, StaticInv, MemoryTyped
  <2>3. AskedInv'
    BY <2>1 DEF BusInv, AskedInv, FlashWord
  <2> QED
    BY <2>1, <2>2, <2>3 DEF BusInv
<1> QED
  BY <1>1, <1>2, <1>3, <1>4 DEF BusNext

LEMMA BusInvHolds == BusSpec => []BusInv
  BY BusInitOK, NextKeeps, PTL DEF BusSpec

LEMMA InvTypes ==
  ASSUME BusInv
  PROVE  BankTypeOK
<1>1. TableOK(banks) /\ DOMAIN banks = 1 .. Len(banks)
  BY TableEntries DEF BusInv
<1>2. End(banks) \in 1 .. Len(banks) + 1 /\ Len(banks) \in Nat
  BY <1>1, TableEnds DEF TableOK
<1>3. mbp \in 0 .. Len(banks) + 1
  BY <1>2 DEF BusInv, StaticInv
<1>4. pb.loaded <= pb.count /\ pb.count <= BUFFER
  BY FlashAssumption DEF BusInv, FlashTyped, Buffers
<1>5. Len(banks) <= Len(conf)
  BY DEF BusInv, Table
<1>6. status = "running" =>
        \A i \in DOMAIN banks : memory[i] \in [0 .. Words(banks[i]) - 1 -> Word]
  BY <1>1 DEF BusInv, MemoryTyped
<1> QED
  BY <1>1, <1>3, <1>4, <1>5, <1>6 DEF BankTypeOK, BusInv, FlashTyped

(***************************************************************************)
(* For every configuration, however its lines are ordered or left out, the *)
(* table, the memory behind it and the registers of the flash keep their   *)
(* types: the static of bank_ptr never leaves the table, no sector that    *)
(* the device does not have is ever locked, and the write buffer is never  *)
(* overrun.                                                                *)
(***************************************************************************)
THEOREM BusAlwaysTyped == BusSpec => []BankTypeOK
<1>1. BusInv => BankTypeOK
  BY InvTypes
<1> QED
  BY <1>1, BusInvHolds, PTL

(***************************************************************************)
(* However many accesses came before, and wherever they left the static of *)
(* bank_ptr, a lookup in a table of disjoint banks finds the bank that a   *)
(* search from the start finds, for every configuration, every number of   *)
(* banks and every address.                                                *)
(***************************************************************************)
THEOREM LookupsExact == BusSpec => []CacheExact
<1>1. BusInv => CacheExact
  BY TableEntries, StaticExact DEF BusInv
<1> QED
  BY <1>1, BusInvHolds, PTL

-------------------------------------------------------------------------------
\* What a step may do.

\* A lookup that finds nothing: no bank that a search reaches holds the address.
LEMMA LookupMisses ==
  ASSUME TableOK(banks), NEW i, NEW a, ~InBank(banks, bank_ptr(banks, i, a), a)
  PROVE  \A j \in 1 .. End(banks) - 1 : ~InBank(banks, j, a)
<1>1. bank_ptr(banks, i, a) = Search(banks, a)
  BY DEF bank_ptr
<1>2. Search(banks, a) = End(banks)
  BY <1>1, SearchEnds
<1> QED
  BY <1>2, SearchEnds

\* A word of a loop that is not there is a hole in the memory.
LEMMA HollowIsHole ==
  ASSUME TableOK(banks), NEW i \in 0 .. End(banks), NEW w \in Nat, NEW n \in Nat \ {0},
         NEW j \in 0 .. n - 1, Hollow(Walk(i, w, n)[j], w + j)
  PROVE  Hole(w + j)
<1>1. PICK at : at = Walk(i, w, n)
  OBVIOUS
<1>2. PICK b : b = at[j]
  OBVIOUS
<1>3. PICK v \in Nat : v = w + j
  OBVIOUS
<1> DEFINE held == {k \in 1 .. End(banks) - 1 : InBank(banks, k, 4 * v)}
<1>4. \E m : b = bank_ptr(banks, m, 4 * v)
  BY <1>1, <1>2, <1>3, WalkIs
<1>5. CASE ~InBank(banks, b, 4 * v)
  <2>1. held = {}
    BY <1>4, <1>5, LookupMisses
  <2> QED
    BY <1>3, <2>1 DEF Hole
<1>6. CASE InBank(banks, b, 4 * v)
  <2>1. banks[b].type = "io"
    BY <1>1, <1>2, <1>3, <1>6 DEF Hollow
  <2>2. b \in 0 .. End(banks)
    BY <1>1, <1>2, WalkInTable
  <2>3. /\ End(banks) \in 1 .. Len(banks) + 1 /\ Len(banks) \in Nat
        /\ End(banks) <= Len(banks) => banks[End(banks)].len = 0
    BY TableEnds DEF TableOK
  <2>4. b \in 1 .. Len(banks) /\ banks[b].addr <= 4 * v /\ 4 * v - banks[b].addr < banks[b].len
    BY <1>6 DEF InBank
  <2>5. b # End(banks)
    <3> SUFFICES ASSUME b = End(banks) PROVE FALSE
      OBVIOUS
    <3>1. banks[b].len = 0 /\ banks[b].addr \in Nat
      BY <2>3, <2>4 DEF TableOK
    <3> QED
      BY <2>4, <3>1
  <2>6. b \in held
    BY <1>6, <2>2, <2>3, <2>4, <2>5
  <2> QED
    BY <1>3, <2>1, <2>6 DEF Hole
<1> QED
  BY <1>5, <1>6

\* The two loops of the flash that can come to a hole.
CrashOfFlash ==
  \/ /\ wsm_mode = WRITE_BUFFER
     /\ \E w \in asked[1].w .. asked[1].w + BUFFER - 1 : Hole(w)
  \/ /\ wsm_mode = BLOCK_ERASE
     /\ \E i \in DOMAIN banks : \E s \in SectorsOf(banks[i]) \ lock :
          /\ banks[i].bank_write = "flash"
          /\ \E w \in s * SECTOR .. (s + 1) * SECTOR - 1 : Hole(w)

LEMMA CopyCrash ==
  ASSUME BusInv, status = "running", NEW i \in 0 .. End(banks), NEW data, pb.loaded > 0,
         ConfirmBuffer(i, data), status' = "crashed"
  PROVE  \E w \in asked[1].w .. asked[1].w + BUFFER - 1 : Hole(w)
<1>1. PICK s \in Nat : s = WORD_ADDR(pb.start)
  BY DEF WORD_ADDR, BusInv, FlashTyped, Buffers
<1>2. PICK at : at = Walk(i, s, BUFFER)
  OBVIOUS
<1>3. \E j \in DOMAIN at : Hollow(at[j], s + j)
  BY <1>1, <1>2 DEF ConfirmBuffer, WriteWords
<1>4. BUFFER \in Nat \ {0} /\ DOMAIN at = 0 .. BUFFER - 1
  BY <1>2, FlashAssumption, WalkIs
<1>5. PICK j \in 0 .. BUFFER - 1 : Hollow(at[j], s + j)
  BY <1>3, <1>4
<1>6. Hole(s + j)
  BY <1>2, <1>4, <1>5, TableEntries, HollowIsHole DEF BusInv
<1>7. asked[1].w = s
  BY <1>1 DEF BusInv, AskedInv
<1>8. s + j \in asked[1].w .. asked[1].w + BUFFER - 1
  BY <1>4, <1>7
<1> QED
  BY <1>6, <1>8

LEMMA EraseCrash ==
  ASSUME BusInv, status = "running", NEW i \in 1 .. Len(banks), i \in 0 .. End(banks),
         NEW a \in Nat, FlashWord(i, a), NEW data, Erase(i, a, data), status' = "crashed"
  PROVE  \E s \in SectorsOf(banks[i]) \ lock :
           \E w \in s * SECTOR .. (s + 1) * SECTOR - 1 : Hole(w)
<1>1. PICK w \in Nat : w = SectorStart(a)
  BY SectorBounds
<1>2. PICK at : at = Walk(i, w, SECTOR)
  OBVIOUS
<1>3. (\E j \in DOMAIN at : Hollow(at[j], w + j)) /\ ~ISLOCKED(a)
  BY <1>1, <1>2 DEF Erase, WriteWords
<1>4. SECTOR \in Nat \ {0} /\ DOMAIN at = 0 .. SECTOR - 1
  BY <1>2, FlashAssumption, WalkIs
<1>5. PICK j \in 0 .. SECTOR - 1 : Hollow(at[j], w + j)
  BY <1>3, <1>4
<1>6. Hole(w + j)
  BY <1>2, <1>4, <1>5, TableEntries, HollowIsHole DEF BusInv
<1>7. PICK s \in Nat : s = SECTOR_ADDR(a)
  BY SectorBounds
<1>8. /\ w = s * SECTOR /\ 4 * w <= a /\ a < 4 * (w + SECTOR)
      /\ s \in 0 .. SECTORS - 1
  BY <1>1, <1>7, SectorBounds, SectorOK DEF BusInv
<1>9. s \notin lock
  BY <1>3, <1>7 DEF ISLOCKED
<1>10. (s + 1) * SECTOR = w + SECTOR
  BY <1>4, <1>8
<1>11. s \in SectorsOf(banks[i])
  <2>1. banks[i].addr \in Nat /\ banks[i].len \in Nat
    BY TableEntries DEF BusInv, TableOK
  <2>2. banks[i].addr <= a /\ a - banks[i].addr < banks[i].len
    BY DEF FlashWord, InBank
  <2>3. 4 * SECTOR * s = 4 * w /\ 4 * SECTOR * (s + 1) = 4 * (w + SECTOR)
    <3>1. PICK q \in Nat : q = SECTOR
      BY <1>4
    <3>2. 4 * q * s = 4 * (s * q) /\ 4 * q * (s + 1) = 4 * (s * q + q)
      OBVIOUS
    <3> QED
      BY <1>8, <3>1, <3>2
  <2>4. 4 * w < banks[i].addr + banks[i].len /\ banks[i].addr < 4 * (w + SECTOR)
    BY <1>4, <1>8, <2>1, <2>2
  <2> QED
    BY <1>8, <2>3, <2>4 DEF SectorsOf
<1>12. w + j \in s * SECTOR .. (s + 1) * SECTOR - 1
  <2>1. w + j \in w .. (w + SECTOR) - 1
    BY <1>4
  <2> QED
    BY <1>8, <1>10, <2>1
<1> QED
  BY <1>6, <1>9, <1>11, <1>12

LEMMA FlashCrash ==
  ASSUME BusInv, status = "running", NEW i \in 1 .. Len(banks), i \in 0 .. End(banks),
         NEW a \in Nat, FlashWord(i, a), NEW data, flash_write_word(i, a, data),
         status' = "crashed"
  PROVE  CrashOfFlash
<1>1. \/ /\ wsm_mode = WRITE_BUFFER /\ pb.count > 0 /\ pb.loaded = pb.count
         /\ ConfirmBuffer(i, data)
      \/ wsm_mode = BLOCK_ERASE /\ Erase(i, a, data)
  BY DEF flash_write_word, GetCount, LoadData, Program, Lock
<1>2. CASE /\ wsm_mode = WRITE_BUFFER /\ pb.count > 0 /\ pb.loaded = pb.count
           /\ ConfirmBuffer(i, data)
  <2>1. \E w \in asked[1].w .. asked[1].w + BUFFER - 1 : Hole(w)
    BY <1>2, CopyCrash
  <2> QED
    BY <1>2, <2>1 DEF CrashOfFlash
<1>3. CASE wsm_mode = BLOCK_ERASE /\ Erase(i, a, data)
  <2>1. \E s \in SectorsOf(banks[i]) \ lock :
          \E w \in s * SECTOR .. (s + 1) * SECTOR - 1 : Hole(w)
    BY <1>3, EraseCrash
  <2>2. i \in DOMAIN banks /\ banks[i].bank_write = "flash"
    BY TableEntries DEF BusInv, FlashWord
  <2> QED
    BY <1>3, <2>1, <2>2 DEF CrashOfFlash
<1> QED
  BY <1>1, <1>2, <1>3

(***************************************************************************)
(* For every configuration and flash: the simulator dies of a memory       *)
(* access only where a bank has no map=, or when the copying loop of a     *)
(* confirmed flash buffer, or the loop that erases an unlocked sector of a *)
(* flash, comes to a word without a bank or to one of the devices.         *)
(***************************************************************************)
THEOREM CrashesExplained == BusSpec => CrashExplained
<1> DEFINE Explained ==
             (status = "running" /\ status' = "crashed") =>
               \/ \E i \in DOMAIN banks : banks[i].bank_write = "null"
               \/ CrashOfFlash
<1>1. BusInv /\ [BusNext]_vars => [Explained]_vars
  <2> SUFFICES ASSUME BusInv, BusNext, status = "running", status' = "crashed" PROVE Explained
    OBVIOUS
  <2>0. PICK a \in Addr : \E i : /\ i = bank_ptr(banks, mbp, a)
                                 /\ bus_read(i, a) \/ bus_write(i, a)
    BY DEF BusNext, Configure, parse_mem, Reset, mem_reset
  <2>1. PICK i : /\ i = bank_ptr(banks, mbp, a)
                 /\ bus_read(i, a) \/ bus_write(i, a)
    BY <2>0
  <2>2. DOMAIN banks = 1 .. Len(banks)
    BY TableEntries DEF BusInv
  <2>3. ASSUME i \in 1 .. Len(banks), FlashWord(i, a), NEW data, WriteFlash(i, a, data)
        PROVE  Explained
    <3>1. a \in Nat /\ i \in 0 .. End(banks)
      BY <2>1, AccessIs
    <3> QED
      BY <2>3, <3>1, FlashCrash DEF WriteFlash
  <2>4. ASSUME NEW n, NEW v, WriteMemory(i, n, a, v) PROVE FALSE
    BY <2>4 DEF WriteMemory
  <2> QED
    BY <2>1, <2>2, <2>3, <2>4, AccessIs
<1> QED
  BY <1>1, BusInvHolds, PTL DEF BusSpec, CrashExplained, CrashOfFlash

-------------------------------------------------------------------------------
\* Addresses: a word and the place of a byte in it.

LEMMA WordAndByte ==
  ASSUME NEW z \in Nat
  PROVE  z \div 4 \in Nat /\ z % 4 \in 0 .. 3 /\ z = 4 * (z \div 4) + (z % 4)
<1> QED
  OBVIOUS

LEMMA WordOf ==
  ASSUME NEW q \in Nat, NEW r \in 0 .. 3
  PROVE  (4 * q + r) \div 4 = q /\ (4 * q + r) % 4 = r
<1> QED
  OBVIOUS

-------------------------------------------------------------------------------
\* Read-only memory.

\* A word that is put together from bytes without a top bit.
LEMMA SwapSound ==
  ASSUME NEW p \in [1 .. 4 -> Byte], \A j \in 1 .. 4 : p[j] < 128,
         NEW isBig \in BOOLEAN, NEW r \in 0 .. 3
  PROVE  Swap(p, isBig)[IF isBig THEN 3 - r ELSE r] = p[r + 1]
<1>1. PICK pos \in 0 .. 3 : pos = IF isBig THEN 3 - r ELSE r
  OBVIOUS
<1>2. PICK S : S = SwapBytes(p, isBig, pos)
  OBVIOUS
<1>3. PICK x : x = Swap(p, isBig)[pos]
  OBVIOUS
<1>4. x \in S /\ (\A c \in S : c <= x) /\ S \subseteq Byte
  BY <1>2, <1>3, SwapByte
<1>5. ASSUME NEW k \in 0 .. 3
      PROVE  SignExtended(p[k + 1], IF isBig THEN 3 - k ELSE k)[pos] =
               IF k = r THEN p[r + 1] ELSE 0
  <2>1. PICK b \in Byte : b = p[k + 1] /\ b < 128
    <3>1. k + 1 \in 1 .. 4
      OBVIOUS
    <3> QED
      BY <3>1
  <2>2. PICK s \in 0 .. 3 : s = IF isBig THEN 3 - k ELSE k
    OBVIOUS
  <2>3. s = pos <=> k = r
    BY <1>1, <2>2
  <2>4. SignExtended(b, s)[pos] = IF pos < s THEN 0 ELSE IF pos = s \/ b >= 128 THEN b ELSE 0
    BY DEF SignExtended
  <2>5. SignExtended(b, s)[pos] = IF pos = s THEN b ELSE 0
    BY <2>1, <2>4 DEF Byte
  <2> QED
    BY <2>1, <2>2, <2>3, <2>5
<1>6. PICK y \in Byte : y = p[r + 1]
  <2>1. r + 1 \in 1 .. 4
    OBVIOUS
  <2> QED
    BY <2>1
<1>7. y \in S /\ \A c \in S : c = y \/ c = 0
  BY <1>2, <1>5, <1>6 DEF SwapBytes
<1>8. x = y
  BY <1>4, <1>7 DEF Byte
<1> QED
  BY <1>1, <1>3, <1>6, <1>8

\* Nothing is ever written to a bank whose handler is warn_write.
RomInv == (status = "running" /\ FlashApart(banks)) =>
            \A i \in 1 .. Len(banks) :
              banks[i].bank_write = "warn" => memory[i] = Loaded(banks[i])

\* Which banks an access leaves alone.
LEMMA AccessSpares ==
  ASSUME BusInv, FlashApart(banks), status = "running", status' = "running",
         NEW a \in Addr, NEW i, i = bank_ptr(banks, mbp, a), bus_read(i, a) \/ bus_write(i, a)
  PROVE  \A b \in 1 .. Len(banks) :
           banks[b].bank_write \notin {"ram", "flash"} => memory'[b] = memory[b]
<1>1. a \in Nat /\ i \in 0 .. End(banks)
  BY AccessIs
<1>2. CASE memory' = memory
  BY <1>2
<1>3. ASSUME i \in 1 .. Len(banks), banks[i].bank_write = "ram",
             NEW n \in {1, 2, 4}, NEW v \in [0 .. n - 1 -> WriteBytes], WriteMemory(i, n, a, v)
      PROVE  \A b \in 1 .. Len(banks) :
               banks[b].bank_write \notin {"ram", "flash"} => memory'[b] = memory[b]
  <2>1. StoredIn(memory', i, n, a, v)
    BY <1>1, <1>3, WriteMemoryKeeps
  <2>2. \A b \in 1 .. Len(banks) : b # i => memory'[b] = memory[b]
    BY <2>1, Zenon DEF StoredIn
  <2> QED
    BY <1>3, <2>2
<1>4. ASSUME i \in 1 .. Len(banks), FlashWord(i, a), NEW data \in FlashData,
             WriteFlash(i, a, data)
      PROVE  \A b \in 1 .. Len(banks) :
               banks[b].bank_write \notin {"ram", "flash"} => memory'[b] = memory[b]
  <2>1. FlashKept
    BY <1>1, <1>4, FlashStepKeeps
  <2> QED
    BY <2>1 DEF FlashKept
<1> QED
  BY <1>2, <1>3, <1>4, AccessIs

LEMMA RomStep == BusInv /\ RomInv /\ [BusNext]_vars => RomInv'
<1> SUFFICES ASSUME BusInv, RomInv, [BusNext]_vars, status' = "running", FlashApart(banks)',
                    NEW b, b \in (1 .. Len(banks))', (banks[b].bank_write = "warn")'
             PROVE  (memory[b] = Loaded(banks[b]))'
  BY DEF RomInv
<1>1. CASE Configure
  BY <1>1 DEF Configure, parse_mem
<1>2. CASE Reset
  <2>1. banks' = banks /\ big' = big /\ memory' = [i \in 1 .. Len(banks) |-> Loaded(banks[i])]
    BY <1>2 DEF Reset, mem_reset
  <2>2. Loaded(banks[b])' = Loaded(banks[b])
    BY <2>1 DEF Loaded
  <2> QED
    BY <2>1, <2>2
<1>3. ASSUME NEW a \in Addr, status = "running",
             NEW i, i = bank_ptr(banks, mbp, a), bus_read(i, a) \/ bus_write(i, a)
      PROVE  (memory[b] = Loaded(banks[b]))'
  <2>1. banks' = banks /\ big' = big
    BY <1>3 DEF bus_read, bus_write, WriteNowhere, WriteMemory, WriteFlash, WriteNull
  <2>2. memory'[b] = memory[b]
    BY <1>3, <2>1, AccessSpares
  <2>3. Loaded(banks[b])' = Loaded(banks[b])
    BY <2>1 DEF Loaded
  <2>4. memory[b] = Loaded(banks[b])
    BY <1>3, <2>1 DEF RomInv
  <2> QED
    BY <2>2, <2>3, <2>4
<1>4. CASE UNCHANGED vars
  <2>1. banks' = banks /\ big' = big /\ memory' = memory /\ status' = status
    BY <1>4 DEF vars, bankVars
  <2>2. Loaded(banks[b])' = Loaded(banks[b])
    BY <2>1 DEF Loaded
  <2> QED
    BY <2>1, <2>2 DEF RomInv
<1> QED
  BY <1>1, <1>2, <1>3, <1>4 DEF BusNext

LEMMA RomBytes ==
  ASSUME BusInv, RomInv
  PROVE  RomKeepsFile
<1> SUFFICES ASSUME status = "running", Aligned(banks), FlashApart(banks),
                    NEW i \in 1 .. Len(banks), RomLine(conf[i]), banks[i].type # "io",
                    \A k \in 1 .. Len(conf[i].file) : conf[i].file[k] < 128,
                    NEW k \in 1 .. Len(conf[i].file), NEW a, a = banks[i].addr + k - 1,
                    a \in Addr, FirstBank(a) = i, k <= banks[i].len
             PROVE  ByteAt(a) = conf[i].file[k]
  BY DEF RomKeepsFile
<1>1. /\ conf[i] \in Lines /\ FromLine(banks[i], conf[i])
      /\ SoFar(banks[i], conf[i], Len(conf[i].params))
  BY TableEntries DEF BusInv
<1>2. PICK file \in Seq(Byte) : file = conf[i].file
  BY <1>1 DEF Lines
<1>3. PICK x \in Nat, l \in Nat : x = banks[i].addr /\ l = banks[i].len /\ x % 4 = 0 /\ l % 4 = 0
  BY <1>1 DEF FromLine, Banks, Aligned
<1>4. banks[i].named /\ banks[i].file = file
  BY <1>1, <1>2, Zenon DEF SoFar, RomLine
<1>5. banks[i].bank_write = "warn"
  BY <1>1, Zenon DEF SoFar, RomLine
<1>6. memory[i] = Loaded(banks[i])
  BY <1>5 DEF RomInv
<1>7. Len(file) \in Nat /\ k \in 1 .. Len(file) /\ a = x + k - 1 /\ k <= l
  BY <1>2, <1>3, LenProperties
<1>8. PICK q \in Nat, r \in 0 .. 3 : /\ q = (k - 1) \div 4 /\ r = (k - 1) % 4 /\ k = 4 * q + r + 1
                                     /\ Index(i, a) = q /\ a % 4 = r
                                     /\ q \in 0 .. (l \div 4) - 1
  <2>1. PICK z \in Nat : z = k - 1
    BY <1>7
  <2>2. PICK q \in Nat, r \in 0 .. 3 : q = z \div 4 /\ r = z % 4 /\ z = 4 * q + r
    BY WordAndByte
  <2>3. Index(i, a) = q
    <3>1. a - x = z
      BY <1>7, <2>1
    <3> QED
      BY <1>3, <2>2, <3>1 DEF Index
  <2>4. PICK c \in Nat, d \in Nat : x = 4 * c /\ l = 4 * d /\ d = l \div 4
    <3>1. x = 4 * (x \div 4) + 0 /\ l = 4 * (l \div 4) + 0 /\ x \div 4 \in Nat /\ l \div 4 \in Nat
      BY <1>3, WordAndByte
    <3> QED
      BY <3>1
  <2>5. a % 4 = r
    <3>1. PICK e \in Nat : e = c + q
      OBVIOUS
    <3>2. a = x + z
      BY <1>7, <2>1
    <3>3. x = 4 * c /\ z = 4 * q + r
      BY <2>2, <2>4
    <3>4. a = 4 * e + r
      BY <3>1, <3>2, <3>3
    <3> QED
      BY <3>4, WordOf
  <2>6. q \in 0 .. d - 1
    <3>1. 4 * q + r < 4 * d
      BY <1>7, <2>1, <2>2, <2>4
    <3> QED
      BY <3>1
  <2>7. k = 4 * q + r + 1 /\ q = (k - 1) \div 4 /\ r = (k - 1) % 4
    BY <1>7, <2>1, <2>2
  <2> QED
    BY <2>3, <2>4, <2>5, <2>6, <2>7
<1>9. PICK p \in [1 .. 4 -> Byte] : p = FileBytes(file, q)
  BY FileBytesOK
<1>10. p[r + 1] = file[k] /\ \A j \in 1 .. 4 : p[j] < 128
  <2>1. \A j \in 1 .. 4 : p[j] = IF 4 * q + j <= Len(file) THEN file[4 * q + j] ELSE 0
    BY <1>9 DEF FileBytes
  <2>2. ASSUME NEW j \in 1 .. 4 PROVE p[j] < 128
    <3>1. CASE 4 * q + j <= Len(file)
      <4>1. 4 * q + j \in 1 .. Len(file)
        BY <1>7, <3>1
      <4>2. p[j] = file[4 * q + j]
        BY <2>1, <3>1, Zenon
      <4> QED
        BY <1>2, <4>1, <4>2
    <3>2. CASE ~(4 * q + j <= Len(file))
      <4>1. p[j] = 0
        BY <2>1, <3>2, Zenon
      <4> QED
        BY <4>1
    <3> QED
      BY <3>1, <3>2
  <2>3. PICK j \in 1 .. 4 : j = r + 1
    OBVIOUS
  <2>4. 4 * q + j = k /\ k <= Len(file)
    BY <1>7, <1>8, <2>3
  <2>5. p[r + 1] = file[k]
    BY <2>1, <2>3, <2>4
  <2> QED
    BY <2>2, <2>5
<1>11. big \in BOOLEAN
  BY DEF BusInv
<1>12. Loaded(banks[i])[q] = Swap(p, big)
  <2>1. Loaded(banks[i]) = [m \in 0 .. (l \div 4) - 1 |-> Swap(FileBytes(file, m), big)]
    BY <1>3, <1>4, LoadedIs DEF Words
  <2> QED
    BY <1>8, <1>9, <2>1
<1>13. Mapped(a)
  <2>1. x <= a /\ a - x < l
    BY <1>7
  <2> QED
    BY <1>3, <2>1 DEF Mapped, InBank
<1>14. ByteAt(a) = Swap(p, big)[IF big THEN 3 - r ELSE r]
  BY <1>6, <1>8, <1>12, <1>13 DEF ByteAt
<1> QED
  BY <1>2, <1>10, <1>11, <1>14, SwapSound

(***************************************************************************)
(* For every configuration: a bank that its line makes read-only holds the *)
(* bytes of its file, in either byte order, for as long as the machine     *)
(* runs.                                                                   *)
(***************************************************************************)
THEOREM RomAlwaysKept == BusSpec => []RomKeepsFile
<1>1. BusInit => RomInv
  BY DEF BusInit, RomInv
<1>2. BusInv /\ RomInv => RomKeepsFile
  BY RomBytes
<1> QED
  BY <1>1, <1>2, RomStep, BusInvHolds, PTL DEF BusSpec

-------------------------------------------------------------------------------
\* Memory as an array of bytes.

\* Where the byte of an address lies in its word.
Pos(a) == IF big THEN 3 - (a % 4) ELSE a % 4

\* The addresses of a word are in the same banks, at the same index.
LEMMA SameWord ==
  ASSUME Table, Aligned(banks), NEW a \in Nat, NEW b \in Nat, a \div 4 = b \div 4
  PROVE  /\ FirstBank(a) = FirstBank(b)
         /\ \A i : InBank(banks, i, a) <=> InBank(banks, i, b)
         /\ \A i \in 1 .. Len(banks) : Index(i, a) = Index(i, b)
<1>1. TableOK(banks)
  BY TableEntries
<1>2. PICK d \in Nat, x \in 0 .. 3, y \in 0 .. 3 : a = 4 * d + x /\ b = 4 * d + y
  <2>1. /\ a \div 4 \in Nat /\ a % 4 \in 0 .. 3 /\ a = 4 * (a \div 4) + (a % 4)
        /\ b % 4 \in 0 .. 3 /\ b = 4 * (a \div 4) + (b % 4)
    BY WordAndByte
  <2> QED
    BY <2>1
<1>3. ASSUME NEW i \in 1 .. Len(banks)
      PROVE  /\ InBank(banks, i, a) <=> InBank(banks, i, b)
             /\ Index(i, a) = Index(i, b)
  <2>1. PICK s \in Nat, l \in Nat : /\ s = banks[i].addr /\ l = banks[i].len
                                    /\ s % 4 = 0 /\ l % 4 = 0
    BY <1>1 DEF TableOK, Aligned
  <2>2. PICK c \in Nat, m \in Nat : s = 4 * c /\ l = 4 * m
    <3>1. s = 4 * (s \div 4) + 0 /\ l = 4 * (l \div 4) + 0 /\ s \div 4 \in Nat /\ l \div 4 \in Nat
      BY <2>1, WordAndByte
    <3> QED
      BY <3>1
  <2>3. (s <= a /\ a - s < l) <=> (s <= b /\ b - s < l)
    BY <1>2, <2>2
  <2>4. (a - s) \div 4 = (b - s) \div 4
    <3>1. PICK e \in Int : e = d - c
      OBVIOUS
    <3>2. a - s = 4 * e + x /\ b - s = 4 * e + y
      BY <1>2, <2>2, <3>1
    <3>3. (4 * e + x) \div 4 = e /\ (4 * e + y) \div 4 = e
      OBVIOUS
    <3> QED
      BY <3>2, <3>3
  <2> QED
    BY <2>1, <2>3, <2>4 DEF InBank, Index
<1>4. \A i : InBank(banks, i, a) <=> InBank(banks, i, b)
  BY <1>3 DEF InBank
<1>5. FirstBank(a) = FirstBank(b)
  <2>1. PICK e \in Nat : e = End(banks)
    BY <1>1, TableEnds DEF TableOK
  <2>2. PICK s : s = Search(banks, a)
    OBVIOUS
  <2>3. PICK t : t = Search(banks, b)
    OBVIOUS
  <2>4. /\ s \in 1 .. e /\ (s # e => InBank(banks, s, a))
        /\ \A j \in 1 .. s - 1 : ~InBank(banks, j, a)
    BY <1>1, <2>1, <2>2, SearchEnds
  <2>5. /\ t \in 1 .. e /\ (t # e => InBank(banks, t, b))
        /\ \A j \in 1 .. t - 1 : ~InBank(banks, j, b)
    BY <1>1, <2>1, <2>3, SearchEnds
  <2>6. s = t
    BY <1>4, <2>1, <2>4, <2>5
  <2> QED
    BY <2>2, <2>3, <2>6 DEF FirstBank
<1> QED
  BY <1>3, <1>4, <1>5

\* The cells of n bytes that a word is made of, in either byte order.
LEMMA CellInWord ==
  ASSUME NEW n \in {1, 2, 4}, NEW a \in Nat, NEW b \in Nat, a \div n = b \div n
  PROVE  a \div 4 = b \div 4
<1>1. CASE n = 1
  <2>1. a \div 1 = a /\ b \div 1 = b
    OBVIOUS
  <2> QED
    BY <1>1, <2>1
<1>2. CASE n = 2
  <2>1. a \div 4 = (a \div 2) \div 2 /\ b \div 4 = (b \div 2) \div 2
    OBVIOUS
  <2> QED
    BY <1>2, <2>1
<1>3. CASE n = 4
  BY <1>3
<1> QED
  BY <1>1, <1>2, <1>3

\* A byte of the word is in the cell of an access exactly if a store puts one of its
\* bytes there, and which one.
LEMMA StoredWhere ==
  ASSUME NEW n \in {1, 2, 4}, NEW a \in Nat, NEW b \in Nat, a \div 4 = b \div 4,
         big \in BOOLEAN
  PROVE  /\ Pos(b) \in 0 .. 3
         /\ a \div n = b \div n <=> Pos(b) \in Shift(n, a) .. Shift(n, a) + n - 1
         /\ a \div n = b \div n =>
              Pos(b) - Shift(n, a) = IF big THEN n - 1 - (b % n) ELSE b % n
<1>1. PICK d \in Nat, x \in 0 .. 3, y \in 0 .. 3 :
        a = 4 * d + x /\ b = 4 * d + y /\ x = a % 4 /\ y = b % 4
  <2>1. /\ a \div 4 \in Nat /\ a % 4 \in 0 .. 3 /\ a = 4 * (a \div 4) + (a % 4)
        /\ b % 4 \in 0 .. 3 /\ b = 4 * (a \div 4) + (b % 4)
    BY WordAndByte
  <2> QED
    BY <2>1
<1>2. Pos(b) = IF big THEN 3 - y ELSE y
  BY <1>1 DEF Pos
<1>3. CASE n = 1
  <2>1. Shift(n, a) = IF big THEN 3 - x ELSE x
    BY <1>1, <1>3 DEF Shift
  <2>2. a \div n = a /\ b \div n = b /\ b % n = 0
    BY <1>3
  <2> QED
    BY <1>1, <1>2, <1>3, <2>1, <2>2
<1>4. CASE n = 2
  <2>1. PICK u \in {0, 1}, z \in {0, 1}, w \in {0, 1}, f \in {0, 1} :
          x = 2 * u + z /\ y = 2 * w + f
    <3>1. x \in {0, 1, 2, 3} /\ y \in {0, 1, 2, 3}
      OBVIOUS
    <3>2. \A q \in {0, 1, 2, 3} : \E g, h \in {0, 1} : q = 2 * g + h
      OBVIOUS
    <3> QED
      BY <3>1, <3>2
  <2>2. a = 2 * (2 * d + u) + z /\ b = 2 * (2 * d + w) + f
    BY <1>1, <2>1
  <2>3. a % 2 = z /\ a \div 2 = 2 * d + u /\ b % 2 = f /\ b \div 2 = 2 * d + w
    BY <2>2
  <2>4. Shift(n, a) = IF big THEN 2 - x + z ELSE x - z
    BY <1>1, <1>4, <2>3 DEF Shift
  <2>5. Shift(n, a) = IF big THEN 2 - 2 * u ELSE 2 * u
    BY <2>1, <2>4
  <2>6. a \div n = b \div n <=> u = w
    BY <1>4, <2>3
  <2> QED
    BY <1>2, <1>4, <2>1, <2>3, <2>5, <2>6
<1>5. CASE n = 4
  <2>1. Shift(n, a) = 0
    BY <1>5 DEF Shift
  <2> QED
    BY <1>1, <1>2, <1>5, <2>1
<1> QED
  BY <1>3, <1>4, <1>5

\* The address of the k-th byte of an access.
CellAddr(n, a, k) == (a - (a % n)) + (IF big THEN n - 1 - k ELSE k)

\* It is in the word of the access, at the place that the access reads.
ReadAt(n, a, k, b) == b \in Nat /\ a \div 4 = b \div 4 /\ Pos(b) = Shift(n, a) + k

LEMMA ReadFrom ==
  ASSUME big \in BOOLEAN
  PROVE  \A n \in {1, 2, 4} : \A a \in Nat : \A k \in 0 .. n - 1 :
           ReadAt(n, a, k, CellAddr(n, a, k))
<1> SUFFICES ASSUME NEW n \in {1, 2, 4}, NEW a \in Nat, NEW k \in 0 .. n - 1,
                    NEW b, b = CellAddr(n, a, k)
             PROVE  b \in Nat /\ a \div 4 = b \div 4 /\ Pos(b) = Shift(n, a) + k
  BY Zenon DEF ReadAt
<1>1. PICK q \in Nat : q = a \div n /\ a - (a % n) = n * q
  <2>1. CASE n = 1
    <3>1. a \div 1 = a /\ a % 1 = 0
      OBVIOUS
    <3> QED
      BY <2>1, <3>1
  <2>2. CASE n = 2
    <3>1. a \div 2 \in Nat /\ a - (a % 2) = 2 * (a \div 2)
      OBVIOUS
    <3> QED
      BY <2>2, <3>1
  <2>3. CASE n = 4
    <3>1. a \div 4 \in Nat /\ a - (a % 4) = 4 * (a \div 4)
      OBVIOUS
    <3> QED
      BY <2>3, <3>1
  <2> QED
    BY <2>1, <2>2, <2>3
<1>2. PICK r \in Nat : r \in 0 .. n - 1 /\ r = IF big THEN n - 1 - k ELSE k
  <2>1. n - 1 \in Nat /\ k \in Nat /\ k <= n - 1
    OBVIOUS
  <2>2. CASE big
    <3>1. PICK r \in Nat : r = n - 1 - k
      BY <2>1
    <3>2. r \in 0 .. n - 1
      BY <2>1, <3>1
    <3> QED
      BY <2>2, <3>1, <3>2
  <2>3. CASE ~big
    BY <2>1, <2>3
  <2> QED
    BY <2>2, <2>3
<1>3. b = n * q + r /\ b \in Nat
  BY <1>1, <1>2 DEF CellAddr
<1>4. b \div n = q /\ b % n = r
  <2>1. CASE n = 1
    BY <1>2, <1>3, <2>1
  <2>2. CASE n = 2
    BY <1>2, <1>3, <2>2
  <2>3. CASE n = 4
    BY <1>2, <1>3, <2>3
  <2> QED
    BY <2>1, <2>2, <2>3
<1>5. a \div n = b \div n
  BY <1>1, <1>4
<1>6. a \div 4 = b \div 4
  BY <1>3, <1>5, CellInWord
<1>7. PICK c \in 0 .. 3, s \in Int : c = Pos(b) /\ s = Shift(n, a)
  <2>1. Shift(n, a) \in Int
    BY ShiftInWord
  <2>2. Pos(b) \in 0 .. 3
    BY <1>3, <1>6, StoredWhere
  <2> QED
    BY <2>1, <2>2
<1>8. c - s = IF big THEN n - 1 - r ELSE r
  BY <1>3, <1>4, <1>5, <1>6, <1>7, StoredWhere
<1>9. (IF big THEN n - 1 - r ELSE r) = k
  <2>1. n \in Int /\ k \in Int
    OBVIOUS
  <2> QED
    BY <1>2, <2>1
<1>10. c = s + k
  BY <1>8, <1>9
<1> QED
  BY <1>3, <1>6, <1>7, <1>10

\* The banks as a board has them.
Layout == Disjoint(banks) /\ Aligned(banks) /\ FlashApart(banks)

\* The bytes a program knows are those in memory, outside flash and devices.
Ordinary(a) == Mapped(a) /\ banks[FirstBank(a)].type \notin {"flash", "io"}
BytesInv == (status = "running" /\ Layout) =>
              \A a \in Addr : Ordinary(a) => bytes[a] = ByteAt(a)

LEMMA ByteAtIs ==
  ASSUME NEW a, Mapped(a), banks[FirstBank(a)].type # "io"
  PROVE  /\ ByteAt(a) = memory[FirstBank(a)][Index(FirstBank(a), a)][Pos(a)]
         /\ FirstBank(a) \in 1 .. Len(banks) /\ InBank(banks, FirstBank(a), a)
<1> QED
  BY DEF ByteAt, Mapped, Pos, InBank

LEMMA FoundFirst ==
  ASSUME BusInv, status = "running", Disjoint(banks), NEW a \in Addr,
         InBank(banks, bank_ptr(banks, mbp, a), a)
  PROVE  bank_ptr(banks, mbp, a) = FirstBank(a)
<1>1. CacheExact
  BY TableEntries, StaticExact DEF BusInv
<1> QED
  BY <1>1 DEF CacheExact

\* The index of a mapped address is in its bank's memory.
LEMMA IndexInBank ==
  ASSUME Table, Aligned(banks), NEW i \in 1 .. Len(banks), NEW a \in Nat, InBank(banks, i, a),
         banks[i].type # "io"
  PROVE  Index(i, a) \in 0 .. Words(banks[i]) - 1
<1>1. PICK x \in Nat, l \in Nat : x = banks[i].addr /\ l = banks[i].len /\ l % 4 = 0
  BY TableEntries DEF TableOK, Aligned
<1>2. PICK z \in Nat : z = a - x /\ z < l
  BY <1>1 DEF InBank
<1>3. PICK m \in Nat : l = 4 * m /\ m = l \div 4
  BY <1>1, WordAndByte
<1>4. z \div 4 \in 0 .. m - 1
  BY <1>2, <1>3
<1> QED
  BY <1>1, <1>2, <1>3, <1>4 DEF Index, Words

\* A store, seen as bytes.
LEMMA StoreAsBytes ==
  ASSUME BusInv, BytesInv, status = "running", Layout, NEW a \in Addr, NEW i \in 1 .. Len(banks),
         i = bank_ptr(banks, mbp, a), InBank(banks, i, a), banks[i].bank_write = "ram",
         NEW n \in {1, 2, 4}, NEW v \in [0 .. n - 1 -> WriteBytes], WriteMemory(i, n, a, v),
         NEW b \in Addr, Ordinary(b)
  PROVE  bytes'[b] = memory'[FirstBank(b)][Index(FirstBank(b), b)][Pos(b)]
<1>1. a \in Nat /\ b \in Nat /\ big \in BOOLEAN /\ Table /\ Aligned(banks) /\ Disjoint(banks)
  BY TopAssumption DEF Addr, BusInv, Layout
<1>2. i = FirstBank(a) /\ i \in 0 .. End(banks)
  BY FoundFirst, StaticInTable, TableEntries DEF Layout, BusInv, StaticInv
<1>3. PICK j \in 1 .. Len(banks) : j = FirstBank(b) /\ InBank(banks, j, b)
  BY ByteAtIs DEF Ordinary
<1>4. PICK k : k = Index(j, b)
  OBVIOUS
<1>5. k \in 0 .. Words(banks[j]) - 1
  BY <1>1, <1>3, <1>4, IndexInBank DEF Ordinary
<1>6. bytes[b] = memory[j][k][Pos(b)]
  BY <1>3, <1>4, ByteAtIs DEF BytesInv, Ordinary
<1>7. StoredIn(memory', i, n, a, v)
  BY <1>1, <1>2, WriteMemoryKeeps
<1>8. /\ \A l \in 1 .. Len(banks) : l # i => memory'[l] = memory[l]
      /\ \A l \in 0 .. Words(banks[i]) - 1 :
           memory'[i][l] = IF l = Index(i, a) THEN Stored(memory[i][l], n, a, v)
                           ELSE memory[i][l]
  BY <1>7, Zenon DEF StoredIn
<1>9. bytes'[b] = IF b \div n # a \div n THEN bytes[b]
                  ELSE v[IF big THEN n - 1 - (b % n) ELSE b % n]
  BY DEF WriteMemory, Put
<1>10. CASE a \div 4 = b \div 4
  <2>1. i = j /\ k = Index(i, a)
    BY <1>1, <1>2, <1>3, <1>4, <1>10, SameWord
  <2>2. memory'[i][k] = Stored(memory[i][k], n, a, v)
    BY <1>5, <1>8, <2>1
  <2>3. PICK s \in Int, p \in 0 .. 3 : s = Shift(n, a) /\ p = Pos(b)
    <3>1. Shift(n, a) \in Int
      BY <1>1, ShiftInWord
    <3>2. Pos(b) \in 0 .. 3
      BY <1>1, <1>10, StoredWhere
    <3> QED
      BY <3>1, <3>2
  <2>4. /\ a \div n = b \div n <=> p \in s .. s + n - 1
        /\ a \div n = b \div n => p - s = IF big THEN n - 1 - (b % n) ELSE b % n
    BY <1>1, <1>10, <2>3, StoredWhere
  <2>5. memory'[i][k][p] = IF p \in s .. s + n - 1 THEN v[p - s] ELSE memory[i][k][p]
    BY <2>2, <2>3 DEF Stored
  <2>6. CASE a \div n = b \div n
    <3>1. memory'[i][k][p] = v[p - s]
      BY <2>4, <2>5, <2>6
    <3>2. bytes'[b] = v[p - s]
      BY <1>9, <2>4, <2>6
    <3> QED
      BY <1>3, <1>4, <2>1, <2>3, <3>1, <3>2
  <2>7. CASE a \div n # b \div n
    <3>1. memory'[i][k][p] = memory[i][k][p]
      BY <2>4, <2>5, <2>7
    <3> QED
      BY <1>3, <1>4, <1>6, <1>9, <2>1, <2>3, <2>7, <3>1
  <2> QED
    BY <2>6, <2>7
<1>11. CASE a \div 4 # b \div 4
  <2>1. a \div n # b \div n
    BY <1>1, <1>11, CellInWord
  <2>2. j = i => k # Index(i, a)
    <3> SUFFICES ASSUME j = i, k = Index(i, a) PROVE FALSE
      OBVIOUS
    <3>1. PICK x \in Nat : x = banks[i].addr /\ x <= a /\ x <= b /\ x % 4 = 0
      BY <1>1, <1>3, TableEntries DEF TableOK, Aligned, InBank
    <3>2. PICK c \in Nat : x = 4 * c
      BY <3>1, WordAndByte
    <3>3. (a - x) \div 4 = (b - x) \div 4
      BY <1>4, <3>1 DEF Index
    <3>4. a \div 4 = b \div 4
      BY <1>1, <3>1, <3>2, <3>3
    <3> QED
      BY <1>11, <3>4
  <2>3. memory'[j][k] = memory[j][k]
    BY <1>5, <1>8, <2>2
  <2> QED
    BY <1>3, <1>4, <1>6, <1>9, <2>1, <2>3
<1> QED
  BY <1>10, <1>11

LEMMA BytesStep == BusInv /\ BytesInv /\ [BusNext]_vars => BytesInv'
<1> SUFFICES ASSUME BusInv, BytesInv, [BusNext]_vars, status' = "running", Layout',
                    NEW b \in Addr, Ordinary(b)'
             PROVE  bytes'[b] = ByteAt(b)'
  BY DEF BytesInv, Addr
<1>1. CASE Configure
  BY <1>1 DEF Configure, parse_mem
<1>2. CASE Reset
  BY <1>2 DEF Reset
<1>3. ASSUME banks' = banks, big' = big, status = "running"
      PROVE  /\ Layout /\ Ordinary(b) /\ Pos(b)' = Pos(b) /\ FirstBank(b)' = FirstBank(b)
             /\ bytes[b] = ByteAt(b)
             /\ ByteAt(b) = memory[FirstBank(b)][Index(FirstBank(b), b)][Pos(b)]
             /\ ByteAt(b)' = memory'[FirstBank(b)][Index(FirstBank(b), b)][Pos(b)]
  <2>1. Layout /\ FirstBank(b)' = FirstBank(b) /\ Pos(b)' = Pos(b)
    BY <1>3 DEF Layout, Disjoint, Aligned, FlashApart, FirstBank, Pos
  <2>2. Ordinary(b) /\ Mapped(b) /\ Mapped(b)'
    BY <1>3, <2>1 DEF Ordinary, Mapped
  <2>3. bytes[b] = ByteAt(b)
    BY <1>3, <2>1, <2>2 DEF BytesInv
  <2>4. ByteAt(b) = memory[FirstBank(b)][Index(FirstBank(b), b)][Pos(b)]
    BY <2>2, ByteAtIs DEF Ordinary
  <2>5. ByteAt(b)' = memory'[FirstBank(b)][Index(FirstBank(b), b)][Pos(b)]
    BY <1>3, <2>1, <2>2 DEF ByteAt, Index, Pos, Ordinary
  <2> QED
    BY <2>1, <2>2, <2>3, <2>4, <2>5
<1>4. CASE memory' = memory /\ bytes' = bytes /\ banks' = banks /\ big' = big /\ status = "running"
  BY <1>3, <1>4
<1>5. ASSUME NEW a \in Addr, status = "running",
             NEW i, i = bank_ptr(banks, mbp, a), bus_read(i, a) \/ bus_write(i, a)
      PROVE  bytes'[b] = ByteAt(b)'
  <2>1. banks' = banks /\ big' = big
    BY <1>5 DEF bus_read, bus_write, WriteNowhere, WriteMemory, WriteFlash, WriteNull
  <2>2. a \in Nat /\ i \in 0 .. End(banks)
    BY <1>5, AccessIs
  <2>3. /\ Layout /\ Ordinary(b) /\ bytes[b] = ByteAt(b)
        /\ ByteAt(b) = memory[FirstBank(b)][Index(FirstBank(b), b)][Pos(b)]
        /\ ByteAt(b)' = memory'[FirstBank(b)][Index(FirstBank(b), b)][Pos(b)]
    BY <1>3, <1>5, <2>1
  <2>4. CASE memory' = memory /\ bytes' = bytes
    BY <2>3, <2>4
  <2>5. ASSUME i \in 1 .. Len(banks), InBank(banks, i, a), banks[i].bank_write = "ram",
               NEW n \in {1, 2, 4}, NEW v \in [0 .. n - 1 -> WriteBytes], WriteMemory(i, n, a, v)
        PROVE  bytes'[b] = ByteAt(b)'
    BY <1>5, <2>3, <2>5, StoreAsBytes
  <2>6. ASSUME i \in 1 .. Len(banks), FlashWord(i, a), NEW data \in FlashData,
               WriteFlash(i, a, data)
        PROVE  bytes'[b] = ByteAt(b)'
    <3>1. FlashKept /\ bytes' = bytes
      BY <1>5, <2>2, <2>6, FlashStepKeeps DEF WriteFlash
    <3>2. PICK j \in 1 .. Len(banks) : j = FirstBank(b) /\ banks[j].type # "flash"
      BY <2>3, ByteAtIs DEF Ordinary
    <3>3. banks[j].bank_write # "flash"
      BY <3>2, TableEntries DEF BusInv, FromLine
    <3>4. memory'[j] = memory[j]
      BY <2>3, <3>1, <3>3 DEF FlashKept, Layout
    <3> QED
      BY <2>3, <3>1, <3>2, <3>4
  <2>7. ASSUME status' = "crashed" PROVE FALSE
    BY <2>7
  <2> QED
    BY <1>5, <2>4, <2>5, <2>6, <2>7, AccessIs
<1>6. CASE UNCHANGED vars
  BY <1>4, <1>6 DEF vars, bankVars
<1> QED
  BY <1>1, <1>2, <1>5, <1>6 DEF BusNext

\* A word is read whole from the flash as from memory.
LEMMA WordReadWhole ==
  ASSUME BusInv, status = "running", read_mode = READ_ARRAY, NEW n \in {1, 2, 4}, NEW a \in Nat,
         NEW i, i = bank_ptr(banks, mbp, a), NEW k \in 0 .. n - 1
  PROVE  Value(n, a)[k] = memory[i][Index(i, a)][Shift(n, a) + k]
<1>1. PICK w : w = memory[i][Index(i, a)]
  OBVIOUS
<1>2. PICK s \in 0 .. 4 - n : s = Shift(n, a)
  BY ShiftInWord DEF BusInv
<1>3. s + k \in 0 .. 3
  <2>1. n \in Nat
    OBVIOUS
  <2> QED
    BY <2>1
<1>4. CASE banks[i].bank_read # "flash"
  <2>1. Value(n, a) = mem_read(i, n, a)
    BY <1>4 DEF Value
  <2>2. mem_read(i, n, a) = [m \in 0 .. n - 1 |-> w[s + m]]
    BY <1>1, <1>2 DEF mem_read, Part
  <2> QED
    BY <1>1, <1>2, <2>1, <2>2
<1>5. CASE banks[i].bank_read = "flash"
  <2>1. Value(n, a) = flash_read(i, n, a)
    BY <1>5 DEF Value
  <2>2. flash_read_word(i, a) = mem_read(i, 4, a)
    BY DEF flash_read_word, READ_ARRAY, READ_ID, READ_STATUS, READ_QUERY
  <2>3. \A m \in 0 .. 3 : mem_read(i, 4, a)[m] = w[m]
    <3>1. Shift(4, a) = 0
      BY DEF Shift
    <3>2. mem_read(i, 4, a) = [m \in 0 .. 4 - 1 |-> w[0 + m]]
      BY <1>1, <3>1 DEF mem_read, Part
    <3>3. \A m \in 0 .. 3 : m \in 0 .. 4 - 1 /\ 0 + m = m
      OBVIOUS
    <3> QED
      BY <3>2, <3>3
  <2>4. flash_read(i, n, a) = [m \in 0 .. n - 1 |-> mem_read(i, 4, a)[s + m]]
    BY <1>2, <2>2 DEF flash_read, Part
  <2>5. Value(n, a)[k] = mem_read(i, 4, a)[s + k]
    BY <2>1, <2>4
  <2>6. mem_read(i, 4, a)[s + k] = w[s + k]
    BY <1>3, <2>3
  <2> QED
    BY <1>1, <1>2, <2>5, <2>6
<1> QED
  BY <1>4, <1>5

\* Both kinds of read return a function on the bytes of the access.
LEMMA ValueIs ==
  ASSUME NEW n, NEW a
  PROVE  Value(n, a) = [k \in 0 .. n - 1 |-> Value(n, a)[k]]
<1>1. PICK i : i = bank_ptr(banks, mbp, a)
  OBVIOUS
<1>2. \A w : Part(w, n, a) = [k \in 0 .. n - 1 |-> Part(w, n, a)[k]]
  BY DEF Part
<1>3. CASE banks[i].bank_read # "flash"
  <2>1. PICK w : Value(n, a) = Part(w, n, a)
    BY <1>1, <1>3 DEF Value, mem_read
  <2> QED
    BY <1>2, <2>1
<1>4. CASE banks[i].bank_read = "flash"
  <2>1. PICK w : Value(n, a) = Part(w, n, a)
    BY <1>1, <1>4 DEF Value, flash_read
  <2> QED
    BY <1>2, <2>1
<1> QED
  BY <1>3, <1>4

LEMMA ReadsAreBytes ==
  ASSUME BusInv, BytesInv
  PROVE  ReadsLastWritten
<1> SUFFICES ASSUME status = "running", read_mode = READ_ARRAY, Layout,
                    NEW a \in Addr, NEW n \in {1, 2, 4}, Answers(a)
             PROVE  Value(n, a) = [k \in 0 .. n - 1 |-> Now(CellAddr(n, a, k))]
  BY DEF ReadsLastWritten, Layout, CellAddr
<1>1. a \in Nat /\ big \in BOOLEAN /\ Table /\ Aligned(banks)
  BY TopAssumption DEF Addr, BusInv, Layout
<1>2. PICK i : i = bank_ptr(banks, mbp, a)
  OBVIOUS
<1>3. InBank(banks, i, a) /\ i = FirstBank(a) /\ i \in 1 .. Len(banks)
  BY <1>2, FoundFirst DEF Answers, Found, Layout, InBank
<1>0. banks[i].type # "io"
  <2>1. banks[i].bank_read \in {"ram", "flash"}
    BY <1>2 DEF Answers
  <2>2. FromLine(banks[i], conf[i])
    BY <1>3, TableEntries DEF BusInv
  <2> QED
    BY <2>1, <2>2 DEF FromLine
<1>4. ASSUME NEW k \in 0 .. n - 1
      PROVE  Value(n, a)[k] = Now(CellAddr(n, a, k))
  <2>1. PICK b : b = CellAddr(n, a, k)
    OBVIOUS
  <2>2. b \in Nat /\ a \div 4 = b \div 4 /\ Pos(b) = Shift(n, a) + k
    <3>1. ReadAt(n, a, k, b)
      BY <1>1, <2>1, ReadFrom
    <3> QED
      BY <3>1 DEF ReadAt
  <2>3. b \in Addr
    <3>1. Top \in Nat /\ Top = 4 * (Top \div 4) + 3 /\ a <= Top
      BY TopAssumption, WordAndByte DEF Addr
    <3>2. b <= Top
      BY <1>1, <2>2, <3>1
    <3> QED
      BY <2>2, <3>1, <3>2 DEF Addr
  <2>4. FirstBank(b) = i /\ InBank(banks, i, b) /\ Index(i, b) = Index(i, a)
    BY <1>1, <1>3, <2>2, SameWord
  <2>5. Mapped(b)
    BY <2>4 DEF Mapped
  <2>6. ByteAt(b) = memory[i][Index(i, a)][Shift(n, a) + k]
    BY <1>0, <2>2, <2>4, <2>5, ByteAtIs
  <2>7. Now(b) = ByteAt(b)
    <3>1. CASE banks[FirstBank(b)].type = "flash"
      BY <3>1 DEF Now
    <3>2. CASE banks[FirstBank(b)].type # "flash"
      BY <1>0, <2>3, <2>4, <2>5, <3>2 DEF Now, BytesInv, Ordinary
    <3> QED
      BY <3>1, <3>2
  <2>8. Value(n, a)[k] = memory[i][Index(i, a)][Shift(n, a) + k]
    BY <1>1, <1>2, WordReadWhole
  <2> QED
    BY <2>1, <2>6, <2>7, <2>8
<1> QED
  BY <1>4, ValueIs

(***************************************************************************)
(* For every configuration that is laid out as a board is, in either byte  *)
(* order: after any sequence of accesses of any size, a read returns the   *)
(* bytes that were written last at the addresses of its cell.              *)
(***************************************************************************)
THEOREM ReadsAlwaysLastWritten == BusSpec => []ReadsLastWritten
<1>1. BusInit => BytesInv
  BY DEF BusInit, BytesInv
<1>2. BusInv /\ BytesInv => ReadsLastWritten
  BY ReadsAreBytes
<1> QED
  BY <1>1, <1>2, BytesStep, BusInvHolds, PTL DEF BusSpec

-------------------------------------------------------------------------------
\* Division, for the sectors and the slots of the buffer.

LEMMA QuotientUnique ==
  ASSUME NEW x \in Nat, NEW s \in Nat \ {0}, NEW q \in Nat, NEW d \in Nat,
         s * q <= x, x < s * q + s, s * d <= x, x < s * d + s
  PROVE  d = q
<1>1. ASSUME q < d PROVE FALSE
  <2>1. s * (q + 1) <= s * d
    BY <1>1
  <2> QED
    BY <2>1
<1>2. ASSUME d < q PROVE FALSE
  <2>1. s * (d + 1) <= s * q
    BY <1>2
  <2> QED
    BY <2>1
<1> QED
  BY <1>1, <1>2

\* The sector of an address is that of its word.
LEMMA SectorOfWord ==
  ASSUME NEW a \in Nat
  PROVE  WORD_ADDR(a) \in Nat /\ WORD_ADDR(a) \div SECTOR = SECTOR_ADDR(a)
<1>1. PICK s \in Nat \ {0} : s = SECTOR
  BY FlashAssumption
<1>2. PICK d \in Nat : d = a \div (4 * s) /\ (4 * s) * d <= a /\ a < (4 * s) * d + (4 * s)
  <2>1. 4 * s \in Nat \ {0}
    OBVIOUS
  <2> QED
    BY <2>1, DivMod
<1>3. PICK x \in Nat : x = a \div 4 /\ 4 * x <= a /\ a < 4 * x + 4
  OBVIOUS
<1>4. s * d <= x /\ x < s * d + s
  <2>1. PICK p \in Nat : p = s * d
    OBVIOUS
  <2>2. 4 * p <= a /\ a < 4 * p + 4 * s
    BY <1>2, <2>1
  <2> QED
    BY <1>3, <2>1, <2>2
<1>5. PICK q \in Nat : q = x \div s /\ s * q <= x /\ x < s * q + s
  BY DivMod
<1>6. q = d
  BY <1>4, <1>5, QuotientUnique
<1> QED
  BY <1>1, <1>2, <1>3, <1>5, <1>6 DEF WORD_ADDR, SECTOR_ADDR

\* Words within a buffer's length of each other have slots of their own.
LEMMA SlotUnique ==
  ASSUME NEW n \in Nat \ {0}, NEW s \in Nat, NEW x \in Nat, NEW y \in Nat,
         s <= x, x < s + n, s <= y, y < s + n, x % n = y % n
  PROVE  x = y
<1>1. PICK p \in Nat, r \in Nat : r = x % n /\ x = n * p + r
  <2>1. PICK d \in Nat : d = x \div n /\ x % n \in 0 .. n - 1 /\ x % n = x - n * d
    BY DivMod
  <2>2. PICK m \in Nat, r \in Nat : m = n * d /\ r = x % n /\ r = x - m
    BY <2>1
  <2>3. x = m + r
    BY <2>2
  <2> QED
    BY <2>2, <2>3
<1>2. PICK q \in Nat : y = n * q + r
  <2>1. PICK d \in Nat : d = y \div n /\ y % n = y - n * d
    BY DivMod
  <2>2. PICK m \in Nat : m = n * d /\ r = y - m
    BY <1>1, <2>1
  <2>3. y = m + r
    BY <2>2
  <2> QED
    BY <2>2, <2>3
<1>3. ASSUME p < q PROVE FALSE
  <2>1. n * (p + 1) <= n * q
    BY <1>3
  <2> QED
    BY <1>1, <1>2, <2>1
<1>4. ASSUME q < p PROVE FALSE
  <2>1. n * (q + 1) <= n * p
    BY <1>4
  <2> QED
    BY <1>1, <1>2, <2>1
<1>5. p = q
  BY <1>3, <1>4
<1> QED
  BY <1>1, <1>2, <1>5

-------------------------------------------------------------------------------
\* What is in the write buffer.

\* Nothing was loaded into a slot, or the last word that was is still there.
SlotOK(s) ==
  \/ pb.buf[s] = All(255) /\ \A t \in 1 .. Len(asked) : asked[t].w % BUFFER # s
  \/ \E t \in 1 .. Len(asked) :
       /\ asked[t].w % BUFFER = s /\ pb.buf[s] = asked[t].data
       /\ \A u \in t + 1 .. Len(asked) : asked[u].w % BUFFER # s

\* All words of the buffer are of the sector that the count was given for.
BufferInv == /\ \A t \in 1 .. Len(asked) : asked[t].w \div SECTOR = SECTOR_ADDR(pb.latch)
             /\ \A s \in 0 .. BUFFER - 1 : SlotOK(s)

LEMMA EmptyBufferInv ==
  ASSUME pb = EmptyBuffer, asked = <<>>
  PROVE  BufferInv
<1>1. 1 .. Len(asked) = {}
  OBVIOUS
<1>2. \A s \in 0 .. BUFFER - 1 : pb.buf[s] = All(255)
  BY DEF EmptyBuffer
<1> QED
  BY <1>1, <1>2 DEF BufferInv, SlotOK

LEMMA LoadDataSlots ==
  ASSUME BusInv, BufferInv, NEW i, NEW a \in Nat, NEW data, LoadData(i, a, data),
         ~Done({SetLb, ClearLb})
  PROVE  BufferInv'
<1>1. PICK w \in Nat : w = WORD_ADDR(a) /\ w \div SECTOR = SECTOR_ADDR(a)
  BY SectorOfWord
<1>2. PICK slot : slot = w % BUFFER
  OBVIOUS
<1>3. /\ SECTOR_ADDR(a) = SECTOR_ADDR(pb.latch)
      /\ pb' = [pb EXCEPT !.start = IF pb.loaded = 0 THEN a ELSE @,
                          !.buf[slot] = data, !.loaded = @ + 1]
      /\ asked' = Append(asked, [w |-> w, data |-> data])
  BY <1>1, <1>2 DEF LoadData
<1>4. pb \in Buffers /\ pb.buf \in [0 .. BUFFER - 1 -> Word] /\ BUFFER \in Nat \ {0}
  BY FlashAssumption DEF BusInv, FlashTyped, Buffers
<1>5. slot \in 0 .. BUFFER - 1
  BY <1>2, <1>4
<1>6. pb'.latch = pb.latch /\ pb'.buf = [pb.buf EXCEPT ![slot] = data]
  BY <1>3, <1>4 DEF Buffers
<1>7. pb'.buf[slot] = data /\ \A s \in 0 .. BUFFER - 1 : s # slot => pb'.buf[s] = pb.buf[s]
  BY <1>4, <1>5, <1>6
<1>0. PICK n \in Nat : n = Len(asked)
  BY LenProperties DEF BusInv, AskedInv
<1>8. PICK q : n = Len(asked) /\ q = asked'
  BY <1>0
<1>9. /\ Len(q) = n + 1 /\ q[n + 1].w = w /\ q[n + 1].data = data
      /\ \A t \in 1 .. n : q[t] = asked[t]
  <2>1. PICK r : r = [w |-> w, data |-> data]
    OBVIOUS
  <2>2. r.w = w /\ r.data = data
    BY <2>1
  <2>3. q = Append(asked, r) /\ asked \in Seq([w : Nat, data : Word])
    BY <1>3, <1>8, <2>1 DEF BusInv, AskedInv
  <2>4. Len(q) = n + 1 /\ q[n + 1] = r /\ \A t \in 1 .. n : q[t] = asked[t]
    BY <1>8, <2>3
  <2> QED
    BY <2>2, <2>4
<1>10. ASSUME NEW t \in 1 .. n + 1 PROVE q[t].w \div SECTOR = SECTOR_ADDR(pb.latch)
  <2>1. CASE t = n + 1
    BY <1>1, <1>3, <1>9, <2>1
  <2>2. CASE t # n + 1
    <3>1. t \in 1 .. n
      BY <2>2
    <3> QED
      BY <1>8, <1>9, <3>1 DEF BufferInv
  <2> QED
    BY <2>1, <2>2
<1>11. ASSUME NEW s \in 0 .. BUFFER - 1
       PROVE  \/ /\ pb'.buf[s] = All(255)
                 /\ \A t \in 1 .. n + 1 : q[t].w % BUFFER # s
              \/ \E t \in 1 .. n + 1 :
                   /\ q[t].w % BUFFER = s /\ pb'.buf[s] = q[t].data
                   /\ \A u \in t + 1 .. n + 1 : q[u].w % BUFFER # s
  <2>1. CASE s = slot
    <3>1. /\ n + 1 \in 1 .. n + 1 /\ q[n + 1].w % BUFFER = s /\ pb'.buf[s] = q[n + 1].data
          /\ (n + 1) + 1 .. n + 1 = {}
      BY <1>2, <1>7, <1>9, <2>1
    <3> QED
      BY <3>1
  <2>2. CASE s # slot
    <3>1. pb'.buf[s] = pb.buf[s] /\ q[n + 1].w % BUFFER # s
      BY <1>2, <1>7, <1>9, <2>2
    <3>2. SlotOK(s)
      BY DEF BufferInv
    <3>3. \A t \in 1 .. n + 1 : t \in 1 .. n \/ t = n + 1
      OBVIOUS
    <3>4. CASE pb.buf[s] = All(255) /\ \A t \in 1 .. n : asked[t].w % BUFFER # s
      BY <1>9, <3>1, <3>3, <3>4
    <3>5. ASSUME NEW t \in 1 .. n, asked[t].w % BUFFER = s, pb.buf[s] = asked[t].data,
                 \A u \in t + 1 .. n : asked[u].w % BUFFER # s
          PROVE  \E v \in 1 .. n + 1 :
                   /\ q[v].w % BUFFER = s /\ pb'.buf[s] = q[v].data
                   /\ \A u \in v + 1 .. n + 1 : q[u].w % BUFFER # s
      <4>1. t \in 1 .. n + 1 /\ q[t] = asked[t]
        BY <1>9
      <4>2. ASSUME NEW u \in t + 1 .. n + 1 PROVE q[u].w % BUFFER # s
        <5>1. CASE u = n + 1
          BY <3>1, <5>1
        <5>2. CASE u # n + 1
          <6>1. u \in t + 1 .. n /\ u \in 1 .. n
            BY <5>2
          <6> QED
            BY <1>9, <3>5, <6>1
        <5> QED
          BY <5>1, <5>2
      <4> QED
        BY <3>1, <3>5, <4>1, <4>2
    <3> QED
      BY <1>8, <3>2, <3>4, <3>5 DEF SlotOK
  <2> QED
    BY <2>1, <2>2
<1>12. \A s \in 0 .. BUFFER - 1 : SlotOK(s)'
  BY <1>8, <1>9, <1>11 DEF SlotOK
<1>13. (\A t \in 1 .. Len(asked) : asked[t].w \div SECTOR = SECTOR_ADDR(pb.latch))'
  BY <1>6, <1>8, <1>9, <1>10
<1> QED
  BY <1>12, <1>13 DEF BufferInv

-------------------------------------------------------------------------------
\* The words of the flash.

Cells == 0 .. (SECTOR * SECTORS) - 1

\* The bank of the whole device has exactly the words of the device.
LEMMA FlashShape ==
  ASSUME BusInv, status = "running", WholeFlash(banks)
  PROVE  /\ memory[1] \in [Cells -> Word] /\ FlashWords = memory[1]
         /\ DOMAIN memory = 1 .. Len(banks) /\ 1 \in 1 .. Len(banks)
         /\ SECTOR * SECTORS \in Nat
         /\ banks[1].addr = 0 /\ banks[1].len = 4 * (SECTOR * SECTORS)
         /\ banks[1].bank_write = "flash" /\ 0 .. Words(banks[1]) - 1 = Cells
<1>1. PICK s \in Nat, t \in Nat, m \in Nat : s = SECTOR /\ t = SECTORS /\ m = s * t
  BY FlashAssumption
<1>2. 1 \in 1 .. Len(banks) /\ banks[1].addr = 0 /\ banks[1].len = 4 * s * t
  BY <1>1 DEF WholeFlash
<1>3. 4 * s * t = 4 * m
  BY <1>1
<1>4. (4 * m) \div 4 = m
  OBVIOUS
<1>0. Words(banks[1]) = m
  <2>1. banks[1].type = "flash"
    BY <1>2, TableEntries DEF BusInv, FromLine, WholeFlash
  <2> QED
    BY <1>2, <1>3, <1>4, <2>1 DEF Words
<1>5. memory[1] \in [0 .. m - 1 -> Word] /\ DOMAIN memory = 1 .. Len(banks)
  BY <1>0, <1>2 DEF BusInv, MemoryTyped
<1>6. PICK S : S = 0 .. m - 1
  OBVIOUS
<1>7. [k \in S |-> memory[1][k]] = memory[1]
  BY <1>5, <1>6
<1>8. FlashWords = memory[1]
  BY <1>1, <1>6, <1>7 DEF FlashWords
<1>9. banks[1].bank_write = "flash"
  BY DEF WholeFlash
<1> QED
  BY <1>0, <1>1, <1>2, <1>3, <1>5, <1>8, <1>9 DEF Cells

\* The address of a word, and the word of an address.
LEMMA WordInFlash ==
  ASSUME BusInv, status = "running", WholeFlash(banks), NEW w \in Nat
  PROVE  /\ Index(1, 4 * w) = w
         /\ InBank(banks, 1, 4 * w) = (w \in Cells)
<1>1. PICK m \in Nat : m = SECTOR * SECTORS
  BY FlashShape
<1>2. 1 \in 1 .. Len(banks) /\ banks[1].addr = 0 /\ banks[1].len = 4 * m
  BY <1>1, FlashShape
<1>3. Index(1, 4 * w) = w
  BY <1>2 DEF Index
<1>4. InBank(banks, 1, 4 * w) <=> 4 * w < 4 * m
  BY <1>2 DEF InBank
<1>5. w \in Cells <=> w < m
  BY <1>1 DEF Cells
<1>6. 4 * w < 4 * m <=> w < m
  OBVIOUS
<1>7. InBank(banks, 1, 4 * w) \in BOOLEAN
  BY DEF InBank
<1>8. InBank(banks, 1, 4 * w) <=> w \in Cells
  BY <1>4, <1>5, <1>6
<1> QED
  BY <1>3, <1>7, <1>8

LEMMA AndKeeps ==
  ASSUME NEW v \in Word
  PROVE  And(v, All(255)) = v
<1>1. v \in [0 .. 3 -> Byte]
  BY DEF Word, Cell
<1>2. \A i \in 0 .. 3 : v[i] \in Byte /\ All(255)[i] = 255
  BY <1>1 DEF All
<1>3. \A i \in 0 .. 3 : (IF v[i] < All(255)[i] THEN v[i] ELSE All(255)[i]) = v[i]
  BY <1>2 DEF Byte
<1> QED
  BY <1>1, <1>3 DEF And

LEMMA AndTwice ==
  ASSUME NEW v \in Word, NEW w \in Word
  PROVE  And(v, And(v, w)) = And(v, w)
<1>1. v \in [0 .. 3 -> Byte] /\ w \in [0 .. 3 -> Byte]
  BY DEF Word, Cell
<1>2. PICK x : x = And(v, w)
  OBVIOUS
<1>3. /\ x = [i \in 0 .. 3 |-> IF v[i] < w[i] THEN v[i] ELSE w[i]]
      /\ And(v, x) = [i \in 0 .. 3 |-> IF v[i] < x[i] THEN v[i] ELSE x[i]]
  BY <1>1, <1>2 DEF And
<1>4. \A i \in 0 .. 3 : v[i] \in Nat /\ w[i] \in Nat
  BY <1>1 DEF Byte
<1>5. ASSUME NEW i \in 0 .. 3 PROVE (IF v[i] < x[i] THEN v[i] ELSE x[i]) = x[i]
  <2>1. x[i] = IF v[i] < w[i] THEN v[i] ELSE w[i]
    BY <1>3
  <2> QED
    BY <1>4, <2>1
<1>6. DOMAIN x = 0 .. 3 /\ x = [i \in 0 .. 3 |-> x[i]]
  BY <1>3
<1>7. And(v, x) = x
  BY <1>3, <1>5, <1>6
<1> QED
  BY <1>2, <1>7

\* The words the copying loop passes.
Window == asked[1].w .. asked[1].w + BUFFER - 1

LEMMA WindowIs ==
  ASSUME BusInv, pb.loaded > 0
  PROVE  /\ asked[1].w \in Nat /\ BUFFER \in Nat \ {0} /\ Len(asked) \in Nat
         /\ DOMAIN asked = 1 .. Len(asked) /\ asked[1].w = WORD_ADDR(pb.start)
         /\ \A t \in 1 .. Len(asked) : asked[t].w \in Nat
<1>1. BUFFER \in Nat \ {0}
  BY FlashAssumption
<1>2. Len(asked) \in Nat /\ DOMAIN asked = 1 .. Len(asked)
  BY LenProperties DEF BusInv, AskedInv
<1>3. \A t \in 1 .. Len(asked) : asked[t].w \in Nat
  <2>1. PICK R : R = [w : Nat, data : Word]
    OBVIOUS
  <2>2. asked \in Seq(R) /\ \A r \in R : r.w \in Nat
    BY <2>1 DEF BusInv, AskedInv
  <2>3. \A t \in 1 .. Len(asked) : asked[t] \in R
    BY <2>2
  <2> QED
    BY <2>2, <2>3
<1>4. Len(asked) = pb.loaded /\ asked[1].w = WORD_ADDR(pb.start)
  BY DEF BusInv, AskedInv
<1> QED
  BY <1>1, <1>2, <1>3, <1>4

\* What the loads ask of a word is what its slot of the buffer does to it.
LEMMA ProgrammedIs ==
  ASSUME BusInv, BufferInv, InWindow, pb.loaded > 0, NEW k \in Cells, Cells = DOMAIN FlashWords,
         FlashWords[k] \in Word, k \in Nat
  PROVE  Programmed[k] = IF k \in Window THEN And(FlashWords[k], pb.buf[k % BUFFER])
                         ELSE FlashWords[k]
<1> DEFINE mine == {t \in DOMAIN asked : asked[t].w = k}
           last == CHOOSE t \in mine : \A u \in mine : u <= t
<1>1. Programmed[k] = IF mine = {} THEN FlashWords[k] ELSE And(FlashWords[k], asked[last].data)
  BY DEF Programmed
<1>2. PICK s \in Nat, n \in Nat \ {0} : s = asked[1].w /\ n = BUFFER
  BY WindowIs
<1>3. Window = s .. s + n - 1
  BY <1>2 DEF Window
<1>4. \A t \in mine : t \in 1 .. Len(asked) /\ asked[t].w = k
  BY WindowIs
<1>5. \A t \in 1 .. Len(asked) : asked[t].w \in Window /\ asked[t].w \in Nat
  BY WindowIs DEF InWindow, Window
<1>6. CASE k \notin Window
  <2>1. mine = {}
    BY <1>4, <1>5, <1>6
  <2> QED
    BY <1>1, <1>6, <2>1
<1>7. ASSUME k \in Window, \A t \in 1 .. Len(asked) : asked[t].w % BUFFER # k % BUFFER,
             pb.buf[k % BUFFER] = All(255)
      PROVE  Programmed[k] = And(FlashWords[k], pb.buf[k % BUFFER])
  <2>1. mine = {}
    BY <1>4, <1>7
  <2> QED
    BY <1>1, <1>7, <2>1, AndKeeps
<1>8. ASSUME k \in Window, NEW t \in 1 .. Len(asked), asked[t].w % BUFFER = k % BUFFER,
             pb.buf[k % BUFFER] = asked[t].data,
             \A u \in t + 1 .. Len(asked) : asked[u].w % BUFFER # k % BUFFER
      PROVE  Programmed[k] = And(FlashWords[k], pb.buf[k % BUFFER])
  <2>1. asked[t].w = k
    <3>1. PICK x \in Nat : x = asked[t].w /\ x \in s .. s + n - 1 /\ x % n = k % n
      BY <1>2, <1>3, <1>5, <1>8
    <3>2. s <= x /\ x < s + n /\ s <= k /\ k < s + n
      BY <1>3, <1>8, <3>1
    <3> QED
      BY <3>1, <3>2, SlotUnique
  <2>2. t \in mine
    BY <2>1, WindowIs
  <2>3. \A u \in mine : u <= t
    BY <1>4, <1>8, WindowIs
  <2>4. last = t
    <3>1. \A u \in mine : u \in Nat
      BY <1>4, WindowIs
    <3>2. PICK S : S = mine
      OBVIOUS
    <3>3. PICK l : l = CHOOSE v \in S : \A u \in S : u <= v
      OBVIOUS
    <3>4. l \in S /\ \A u \in S : u <= l
      BY <2>2, <2>3, <3>2, <3>3
    <3>5. l = t
      BY <2>2, <2>3, <3>1, <3>2, <3>4
    <3> QED
      BY <3>2, <3>3, <3>5
  <2> QED
    BY <1>1, <1>8, <2>2, <2>4
<1>9. k % BUFFER \in 0 .. BUFFER - 1
  BY WindowIs
<1>10. SlotOK(k % BUFFER)
  BY <1>9 DEF BufferInv
<1> QED
  BY <1>6, <1>7, <1>8, <1>10 DEF SlotOK

\* The end of a command leaves an empty buffer.
LEMMA DoneEmpties ==
  ASSUME NEW bits, Done(bits)
  PROVE  BufferInv'
<1>1. (pb = EmptyBuffer /\ asked = <<>> => BufferInv)'
  BY EmptyBufferInv, PTL
<1>2. pb' = EmptyBuffer /\ asked' = <<>> /\ EmptyBuffer' = EmptyBuffer
  BY DEF Done, EmptyBuffer, All
<1> QED
  BY <1>1, <1>2

LEMMA GetCountSlots ==
  ASSUME BusInv, BufferInv, NEW i, NEW a, NEW data, pb.count = 0, GetCount(i, a, data)
  PROVE  BufferInv'
<1>1. CASE Done({SetLb, ClearLb})
  BY <1>1, DoneEmpties
<1>2. CASE ~Done({SetLb, ClearLb})
  <2>1. PICK c : pb' = [pb EXCEPT !.count = c, !.latch = a] /\ asked' = asked
    BY <1>2 DEF GetCount
  <2>2. pb \in Buffers /\ Len(asked) = 0
    BY DEF BusInv, FlashTyped, AskedInv, Buffers
  <2>3. pb'.buf = pb.buf
    BY <2>1, <2>2 DEF Buffers
  <2>4. 1 .. Len(asked) = {}
    BY <2>2
  <2> QED
    BY <2>1, <2>3, <2>4 DEF BufferInv, SlotOK
<1> QED
  BY <1>1, <1>2

LEMMA BufferStep == BusInv /\ BufferInv /\ [BusNext]_vars => BufferInv'
<1> SUFFICES ASSUME BusInv, BufferInv, [BusNext]_vars PROVE BufferInv'
  OBVIOUS
<1>1. CASE pb' = pb /\ asked' = asked
  BY <1>1 DEF BufferInv, SlotOK, SECTOR_ADDR
<1>2. ASSUME NEW i, NEW a \in Addr, NEW data, flash_write_word(i, a, data) PROVE BufferInv'
  <2>1. a \in Nat
    BY TopAssumption DEF Addr
  <2>2. CASE init_wsm(data[0])
    BY <1>1, <2>2 DEF init_wsm
  <2>3. CASE pb.count = 0 /\ GetCount(i, a, data)
    BY <2>3, GetCountSlots
  <2>4. CASE LoadData(i, a, data)
    BY <2>1, <2>4, DoneEmpties, LoadDataSlots
  <2>5. CASE \E bits : Done(bits)
    BY <2>5, DoneEmpties
  <2> QED
    BY <1>2, <2>2, <2>3, <2>4, <2>5
       DEF flash_write_word, ConfirmBuffer, Program, Erase, Lock
<1>3. CASE ~(pb' = pb /\ asked' = asked)
  <2>1. ~UNCHANGED flashVars
    BY <1>3 DEF flashVars
  <2>0. PICK a \in Addr : \E i : bus_write(i, a)
    BY <2>1 DEF BusNext, Configure, Reset, bus_read, vars
  <2>2. PICK i : bus_write(i, a)
    BY <2>0
  <2>3. PICK data : flash_write_word(i, a, data)
    BY <2>1, <2>2 DEF bus_write, WriteNowhere, WriteMemory, WriteNull, WriteFlash
  <2> QED
    BY <1>2, <2>3
<1> QED
  BY <1>1, <1>3

-------------------------------------------------------------------------------
\* The words of the flash, step by step.

\* In a flash that is the whole device a loop stays in its bank up to its end.
LEMMA WalkInFlash ==
  ASSUME BusInv, status = "running", WholeFlash(banks), NEW w \in Nat, NEW n \in Nat \ {0},
         NEW at, at = Walk(1, w, n)
  PROVE  \A j \in 0 .. n - 1 : w + j \in Cells => at[j] = 1
<1> DEFINE Bad == {j \in 0 .. n - 1 : w + j \in Cells /\ at[j] # 1}
<1>1. ASSUME Bad # {} PROVE FALSE
  <2>1. PICK j \in Bad : \A k \in Bad : j <= k
    <3>1. Bad \subseteq Nat
      OBVIOUS
    <3> HIDE DEF Bad
    <3> QED
      BY <1>1, <3>1, LeastPosition
  <2>2. j \in 0 .. n - 1 /\ w + j \in Cells /\ at[j] # 1 /\ w + j \in Nat
    BY <2>1
  <2>3. PICK m : m = IF j = 0 THEN 1 ELSE at[j - 1]
    OBVIOUS
  <2>4. m = 1
    <3>1. CASE j = 0
      BY <2>3, <3>1
    <3>2. CASE j # 0
      <4>1. j - 1 \in 0 .. n - 1 /\ ~(j <= j - 1)
        BY <2>2, <3>2
      <4>2. w + (j - 1) \in Cells
        <5>1. PICK q \in Nat : q = SECTOR * SECTORS
          BY FlashShape
        <5> QED
          BY <2>2, <4>1, <5>1 DEF Cells
      <4>3. j - 1 \notin Bad
        <5> HIDE DEF Bad
        <5> QED
          BY <2>1, <4>1
      <4> QED
        BY <2>3, <3>2, <4>1, <4>2, <4>3
    <3> QED
      BY <3>1, <3>2
  <2>5. at[j] = bank_ptr(banks, 1, 4 * (w + j))
    BY <2>2, <2>3, <2>4, WalkIs
  <2>6. InBank(banks, 1, 4 * (w + j))
    BY <2>2, WordInFlash
  <2> QED
    BY <2>2, <2>5, <2>6 DEF bank_ptr
<1> QED
  BY <1>1

\* What it writes there.
LEMMA LoopWord ==
  ASSUME BusInv, status = "running", WholeFlash(banks), NEW w \in Nat, NEW n \in Nat \ {0},
         NEW at, at = Walk(1, w, n), NEW new, WriteWords(at, w, n, new), status' = "running",
         NEW k \in Cells
  PROVE  /\ memory'[1][k] = IF k \in w .. w + n - 1 THEN new[k - w] ELSE memory[1][k]
         /\ \A j \in 0 .. n - 1 : w + j = k => at[j] = 1
<1> DEFINE here == {j \in DOMAIN at : at[j] = 1 /\ Index(1, 4 * (w + j)) = k}
<1>1. memory' = Overwritten(at, w, new)
  BY DEF WriteWords
<1>2. memory[1] \in [Cells -> Word] /\ 1 \in DOMAIN memory /\ k \in Nat
  BY FlashShape DEF Cells
<1>3. memory'[1][k] = IF here = {} THEN memory[1][k] ELSE new[CHOOSE j \in here : TRUE]
  <2> DEFINE New(b, l) ==
               LET mine == {j \in DOMAIN at : at[j] = b /\ Index(b, 4 * (w + j)) = l}
               IN IF mine = {} THEN memory[b][l] ELSE new[CHOOSE j \in mine : TRUE]
  <2>1. memory' = [b \in DOMAIN memory |-> [l \in DOMAIN memory[b] |-> New(b, l)]]
    BY <1>1, Zenon DEF Overwritten
  <2>2. New(1, k) = IF here = {} THEN memory[1][k] ELSE new[CHOOSE j \in here : TRUE]
    OBVIOUS
  <2> HIDE DEF New
  <2>3. memory'[1][k] = New(1, k)
    BY <1>2, <2>1
  <2> HIDE DEF here
  <2> QED
    BY <2>2, <2>3
<1>4. DOMAIN at = 0 .. n - 1
  BY WalkIs
<1>5. ASSUME NEW j \in here PROVE j \in 0 .. n - 1 /\ j = k - w /\ k \in w .. w + n - 1
  <2>1. j \in 0 .. n - 1 /\ w + j \in Nat /\ Index(1, 4 * (w + j)) = k
    BY <1>4, <1>5
  <2>2. w + j = k
    BY <2>1, WordInFlash
  <2> QED
    BY <2>1, <2>2
<1>6. ASSUME NEW j \in 0 .. n - 1, w + j = k PROVE at[j] = 1 /\ j \in here
  <2>1. at[j] = 1
    BY <1>6, WalkInFlash
  <2>2. Index(1, 4 * (w + j)) = k
    BY <1>2, <1>6, WordInFlash
  <2> QED
    BY <1>4, <2>1, <2>2
<1> HIDE DEF here
<1>7. CASE k \in w .. w + n - 1
  <2>1. k - w \in 0 .. n - 1 /\ w + (k - w) = k
    BY <1>2, <1>7
  <2>2. k - w \in here
    BY <1>6, <2>1
  <2>3. (CHOOSE j \in here : TRUE) \in here
    BY <2>2
  <2>4. (CHOOSE j \in here : TRUE) = k - w
    BY <1>5, <2>3
  <2> QED
    BY <1>3, <1>6, <1>7, <2>2, <2>4
<1>8. CASE k \notin w .. w + n - 1
  BY <1>3, <1>5, <1>6, <1>8
<1> QED
  BY <1>7, <1>8

LEMMA CopyWord ==
  ASSUME BusInv, status = "running", WholeFlash(banks), pb.loaded > 0, NEW data,
         ConfirmBuffer(1, data), data[0] = CONFIRM, ~ISLOCKED(pb.latch), status' = "running",
         NEW k \in Cells
  PROVE  memory'[1][k] = IF k \in Window THEN And(memory[1][k], pb.buf[k % BUFFER])
                         ELSE memory[1][k]
<1>1. PICK s \in Nat, n \in Nat \ {0} : /\ s = asked[1].w /\ n = BUFFER
                                       /\ s = WORD_ADDR(pb.start)
  BY WindowIs
<1>2. PICK at : at = Walk(1, s, n)
  OBVIOUS
<1>3. PICK new : new = [j \in 0 .. n - 1 |-> Copy(at[j], s + j)]
  OBVIOUS
<1>4. WriteWords(at, s, n, new)
  BY <1>1, <1>2, <1>3 DEF ConfirmBuffer
<1>5. /\ memory'[1][k] = IF k \in s .. s + n - 1 THEN new[k - s] ELSE memory[1][k]
      /\ \A j \in 0 .. n - 1 : s + j = k => at[j] = 1
  BY <1>2, <1>4, LoopWord
<1>6. Window = s .. s + n - 1 /\ k \in Nat
  BY <1>1 DEF Window, Cells
<1>7. CASE k \in Window
  <2>1. PICK j \in 0 .. n - 1 : j = k - s /\ s + j = k
    BY <1>6, <1>7
  <2>2. new[j] = Copy(1, k)
    BY <1>3, <1>5, <2>1
  <2>3. memory[1][k] \in Word /\ Index(1, 4 * k) = k
    BY <1>6, FlashShape, WordInFlash
  <2>4. mem_read(1, 4, 4 * k) = memory[1][k]
    <3>1. 4 * k \in Nat
      BY <1>6
    <3>2. mem_read(1, 4, 4 * k) = memory[1][Index(1, 4 * k)]
      BY <2>3, <3>1, ReadIsWord
    <3> QED
      BY <2>3, <3>2
  <2> QED
    BY <1>5, <1>6, <1>7, <2>1, <2>2, <2>4 DEF Copy
<1>8. CASE k \notin Window
  BY <1>5, <1>6, <1>8
<1> QED
  BY <1>7, <1>8

\* What the property says of a step, about the words m of the flash after it.
NoLock(m) == \A k \in Cells : k \div SECTOR \in lock => m[k] = memory[1][k]
WordsAsAsked(m) ==
  /\ \/ m = FlashWords
     \/ wsm_mode = WRITE_BUFFER /\ m = Programmed
     \/ /\ wsm_mode = PROGRAM
        /\ \E k \in Cells : /\ \A j \in Cells \ {k} : m[j] = FlashWords[j]
                            /\ m[k] = And(FlashWords[k], m[k])
     \/ \E s \in (0 .. SECTORS - 1) \ lock : wsm_mode = BLOCK_ERASE /\ m = Erased(s)
  /\ NoLock(m)
  /\ (wsm_mode = WRITE_BUFFER /\ wsm_mode' = READY /\ err' = {}) => m = Programmed

LEMMA CopyAsAsked ==
  ASSUME BusInv, BufferInv, status = "running", WholeFlash(banks), InWindow,
         wsm_mode = WRITE_BUFFER, pb.loaded > 0, NEW data, ConfirmBuffer(1, data),
         status' = "running", memory'[1] \in [Cells -> Word]
  PROVE  WordsAsAsked(memory'[1])
<1>1. memory[1] \in [Cells -> Word] /\ FlashWords = memory[1]
  BY FlashShape
<1>2. CASE data[0] = CONFIRM /\ ~ISLOCKED(pb.latch)
  <2>1. Programmed = [k \in Cells |-> Programmed[k]]
    BY <1>1 DEF Programmed
  <2>2. ASSUME NEW k \in Cells PROVE memory'[1][k] = Programmed[k]
    <3>1. memory'[1][k] = IF k \in Window THEN And(memory[1][k], pb.buf[k % BUFFER])
                          ELSE memory[1][k]
      BY <1>2, CopyWord
    <3>2. FlashWords[k] \in Word /\ Cells = DOMAIN FlashWords
      BY <1>1
    <3>3. k \in Nat
      BY FlashShape DEF Cells
    <3>4. Programmed[k] = IF k \in Window THEN And(FlashWords[k], pb.buf[k % BUFFER])
                          ELSE FlashWords[k]
      BY <3>2, <3>3, ProgrammedIs
    <3> QED
      BY <1>1, <3>1, <3>4
  <2>3. memory'[1] = [k \in Cells |-> memory'[1][k]]
    OBVIOUS
  <2>4. memory'[1] = Programmed
    BY <2>1, <2>2, <2>3
  <2>5. ASSUME NEW k \in Cells, k \div SECTOR \in lock PROVE Programmed[k] = memory[1][k]
    <3>1. DOMAIN asked = 1 .. Len(asked)
      BY WindowIs
    <3>2. {t \in DOMAIN asked : asked[t].w = k} = {}
      BY <1>2, <2>5, <3>1 DEF BufferInv, ISLOCKED
    <3> QED
      BY <1>1, <3>2 DEF Programmed
  <2>6. NoLock(memory'[1])
    BY <2>4, <2>5 DEF NoLock
  <2> QED
    BY <2>4, <2>6 DEF WordsAsAsked
<1>3. CASE ~(data[0] = CONFIRM /\ ~ISLOCKED(pb.latch))
  <2>1. memory' = memory /\ (Done({SetLb, ClearLb}) \/ Done({SetLb, Protection}))
    BY <1>3 DEF ConfirmBuffer
  <2>2. err' # {}
    BY <2>1 DEF Done
  <2> QED
    BY <1>1, <2>1, <2>2 DEF WordsAsAsked, NoLock
<1> QED
  BY <1>2, <1>3

LEMMA ProgramAsAsked ==
  ASSUME BusInv, status = "running", WholeFlash(banks), NEW a \in Nat, FlashWord(1, a),
         wsm_mode = PROGRAM, NEW data \in Word, Program(1, a, data)
  PROVE  WordsAsAsked(memory'[1])
<1>1. memory[1] \in [Cells -> Word] /\ FlashWords = memory[1] /\ 1 \in 1 .. Len(banks)
  BY FlashShape
<1>2. PROGRAM # WRITE_BUFFER
  BY DEF PROGRAM, WRITE_BUFFER
<1>3. CASE ISLOCKED(a)
  <2>1. memory' = memory
    BY <1>3 DEF Program
  <2> QED
    BY <1>1, <1>2, <2>1 DEF WordsAsAsked, NoLock
<1>4. CASE ~ISLOCKED(a)
  <2>1. PICK w \in Nat : w = WORD_ADDR(a) /\ w \div SECTOR = SECTOR_ADDR(a)
    BY SectorOfWord
  <2>2. a = 4 * w
    BY <2>1 DEF WORD_ADDR, FlashWord
  <2>3. w \in Cells /\ Index(1, a) = w
    <3>1. InBank(banks, 1, 4 * w) /\ Index(1, 4 * w) = w /\ w \in Cells
      BY <2>2, WordInFlash DEF FlashWord
    <3> QED
      BY <2>2, <3>1
  <2>4. PICK x \in Word : x = memory[1][w]
    BY <1>1, <2>3
  <2>5. PICK v : v = And(mem_read(1, 4, a), data)
    OBVIOUS
  <2>6. Shift(4, a) = 0
    BY DEF Shift
  <2>7. mem_read(1, 4, a) = x
    BY <2>3, <2>4, ReadIsWord
  <2>8. v \in Word /\ v = And(x, data)
    BY <2>5, <2>7, AndIsWord
  <2>9. Storable(1, 4, a, v)
    BY <2>8 DEF Storable, Word, Cell
  <2>10. memory' = mem_write(memory, 1, 4, a, v)
    BY <1>4, <2>5 DEF Program
  <2>11. StoredIn(memory', 1, 4, a, v)
    BY <1>1, <2>9, <2>10, StoreKeeps
  <2>12. Stored(x, 4, a, v) = v
    <3>1. Stored(x, 4, a, v) = [k \in 0 .. 3 |-> IF k \in 0 .. 0 + 4 - 1 THEN v[k - 0] ELSE x[k]]
      BY <2>6 DEF Stored
    <3>2. \A k \in 0 .. 3 : k \in 0 .. 0 + 4 - 1 /\ k - 0 = k
      OBVIOUS
    <3>3. v = [k \in 0 .. 3 |-> v[k]]
      BY <2>8 DEF Word, Cell
    <3> QED
      BY <3>1, <3>2, <3>3
  <2>13. Cells = 0 .. Words(banks[1]) - 1
    BY FlashShape
  <2>14. \A k \in Cells : memory'[1][k] = IF k = w THEN Stored(memory[1][k], 4, a, v)
                                          ELSE memory[1][k]
    BY <2>3, <2>11, <2>13, Zenon DEF StoredIn
  <2>15. memory'[1][w] = v /\ \A k \in Cells \ {w} : memory'[1][k] = memory[1][k]
    BY <2>3, <2>4, <2>12, <2>14
  <2>16. v = And(x, v)
    BY <2>8, AndTwice
  <2>17. NoLock(memory'[1])
    BY <1>4, <2>1, <2>15 DEF NoLock, ISLOCKED
  <2> QED
    BY <1>1, <1>2, <2>3, <2>4, <2>15, <2>16, <2>17 DEF WordsAsAsked
<1> QED
  BY <1>3, <1>4

LEMMA EraseAsAsked ==
  ASSUME BusInv, status = "running", WholeFlash(banks), NEW a \in Nat, FlashWord(1, a),
         wsm_mode = BLOCK_ERASE, NEW data, Erase(1, a, data), status' = "running",
         memory'[1] \in [Cells -> Word]
  PROVE  WordsAsAsked(memory'[1])
<1>1. memory[1] \in [Cells -> Word] /\ FlashWords = memory[1] /\ 1 \in 1 .. Len(banks)
      /\ 1 \in DOMAIN memory
  BY FlashShape
<1>2. BLOCK_ERASE # WRITE_BUFFER
  BY DEF BLOCK_ERASE, WRITE_BUFFER
<1>3. CASE memory' = memory
  BY <1>1, <1>2, <1>3 DEF WordsAsAsked, NoLock
<1>4. CASE memory' # memory
  <2>1. PICK s : s = SECTOR_ADDR(a)
    OBVIOUS
  <2>2. s \in (0 .. SECTORS - 1) \ lock
    <3>1. s \in 0 .. SECTORS - 1
      BY <1>1, <2>1, SectorOK DEF BusInv
    <3>2. s \notin lock
      BY <1>4, <2>1 DEF Erase, ISLOCKED
    <3> QED
      BY <3>1, <3>2
  <2>3. PICK w \in Nat : w = SectorStart(a) /\ w = s * SECTOR /\ s \in Nat
    BY <2>1, SectorBounds
  <2>7. PICK n \in Nat \ {0} : n = SECTOR
    BY FlashAssumption
  <2>8. WriteWords(Walk(1, w, n), w, n, [j \in 0 .. n - 1 |-> All(255)])
    BY <1>4, <2>3, <2>7 DEF Erase
  <2>9. ASSUME NEW k \in Cells
        PROVE  memory'[1][k] = IF k \div SECTOR = s THEN All(255) ELSE memory[1][k]
    <3>1. memory'[1][k] = IF k \in w .. w + n - 1 THEN [j \in 0 .. n - 1 |-> All(255)][k - w]
                          ELSE memory[1][k]
      BY <2>8, LoopWord
    <3>2. k \in Nat
      BY FlashShape DEF Cells
    <3>3. k \in w .. w + n - 1 => k - w \in 0 .. n - 1
      BY <3>2
    <3>4. k \in w .. w + n - 1 <=> k \div n = s
      <4>1. PICK d \in Nat : d = k \div n /\ n * d <= k /\ k < n * d + n
        BY <3>2, DivMod
      <4>2. n * s = w
        BY <2>3, <2>7
      <4>3. ASSUME k \in w .. w + n - 1 PROVE d = s
        <5>1. n * s <= k /\ k < n * s + n
          BY <3>2, <4>2, <4>3
        <5> QED
          BY <2>3, <3>2, <4>1, <5>1, QuotientUnique
      <4>4. ASSUME d = s PROVE k \in w .. w + n - 1
        BY <3>2, <4>1, <4>2, <4>4
      <4> QED
        BY <4>1, <4>3, <4>4
    <3> QED
      BY <2>7, <3>1, <3>3, <3>4
  <2>4. memory'[1] = [k \in Cells |-> IF k \div SECTOR = s THEN All(255) ELSE memory[1][k]]
    BY <2>9
  <2>5. memory'[1] = Erased(s)
    BY <1>1, <2>4 DEF Erased
  <2>6. NoLock(memory'[1])
    BY <2>2, <2>4 DEF NoLock
  <2> QED
    BY <1>2, <2>2, <2>5, <2>6 DEF WordsAsAsked
<1> QED
  BY <1>3, <1>4

LEMMA FlashStepAsAsked ==
  ASSUME BusInv, BufferInv, status = "running", WholeFlash(banks), InWindow,
         NEW a \in Nat, NEW i \in 1 .. Len(banks), i \in 0 .. End(banks), FlashWord(i, a),
         NEW data \in FlashData, WriteFlash(i, a, data), status' = "running"
  PROVE  WordsAsAsked(memory'[1])
<1>1. i = 1
  <2>1. i \in 2 .. Len(banks) \/ i = 1
    OBVIOUS
  <2> QED
    BY <2>1 DEF WholeFlash, FlashWord
<1>2. memory[1] \in [Cells -> Word] /\ FlashWords = memory[1]
  BY FlashShape
<1>3. memory'[1] \in [Cells -> Word]
  <2>1. FlashKept
    BY FlashStepKeeps
  <2>2. 1 \in 1 .. Len(banks) /\ 0 .. Words(banks[1]) - 1 = Cells
    BY FlashShape
  <2> QED
    BY <2>1, <2>2 DEF FlashKept
<1>4. pb.loaded \in Nat /\ pb.count \in Nat /\ pb.loaded <= pb.count
  BY FlashAssumption DEF BusInv, FlashTyped, Buffers
<1>5. ASSUME memory' = memory, ~(wsm_mode = WRITE_BUFFER /\ wsm_mode' = READY /\ err' = {})
      PROVE  WordsAsAsked(memory'[1])
  BY <1>2, <1>5 DEF WordsAsAsked, NoLock
<1>6. /\ READY # WRITE_BUFFER /\ LOCK_ACCESS # WRITE_BUFFER
  BY DEF READY, WRITE_BUFFER, LOCK_ACCESS
<1>7. CASE wsm_mode = READY /\ UNCHANGED memory
  BY <1>5, <1>6, <1>7
<1>8. CASE wsm_mode = WRITE_BUFFER /\ (GetCount(i, a, data) \/ LoadData(i, a, data))
  <2>1. memory' = memory /\ (Done({SetLb, ClearLb}) \/ wsm_mode' = wsm_mode)
    BY <1>8 DEF GetCount, LoadData
  <2>2. Done({SetLb, ClearLb}) => err' # {}
    BY DEF Done
  <2> QED
    BY <1>5, <1>6, <1>8, <2>1, <2>2
<1>9. CASE /\ wsm_mode = WRITE_BUFFER /\ pb.count > 0 /\ pb.loaded = pb.count
           /\ ConfirmBuffer(i, data)
  BY <1>1, <1>3, <1>4, <1>9, CopyAsAsked
<1>10. CASE wsm_mode = PROGRAM /\ Program(i, a, data)
  <2>1. data \in Word
    BY <1>10, FlashDataOK DEF BusInv, FlashTyped
  <2> QED
    BY <1>1, <1>10, <2>1, ProgramAsAsked
<1>11. CASE wsm_mode = BLOCK_ERASE /\ Erase(i, a, data)
  BY <1>1, <1>3, <1>11, EraseAsAsked
<1>12. CASE wsm_mode = LOCK_ACCESS /\ Lock(i, a, data)
  BY <1>5, <1>6, <1>12 DEF Lock
<1> QED
  BY <1>7, <1>8, <1>9, <1>10, <1>11, <1>12 DEF WriteFlash, flash_write_word

(***************************************************************************)
(* For every size of the device and of its buffer: while the loads lie     *)
(* within a buffer's length, the words of the flash change only as the     *)
(* commands ask, never in a locked sector, and a buffer that was taken     *)
(* with a clean status has been programmed word for word.                  *)
(***************************************************************************)
THEOREM FlashAlwaysAsAsked == BusSpec => FlashAsAsked
<1> DEFINE Asked ==
       (status = "running" /\ WholeFlash(banks) /\ status' = "running" /\ InWindow) =>
       /\ \/ FlashWords' = FlashWords
          \/ wsm_mode = WRITE_BUFFER /\ FlashWords' = Programmed
          \/ /\ wsm_mode = PROGRAM
             /\ \E k \in DOMAIN FlashWords :
                  /\ \A j \in DOMAIN FlashWords \ {k} : FlashWords'[j] = FlashWords[j]
                  /\ FlashWords'[k] = And(FlashWords[k], FlashWords'[k])
          \/ \E s \in (0 .. SECTORS - 1) \ lock :
               wsm_mode = BLOCK_ERASE /\ FlashWords' = Erased(s)
       /\ \A k \in DOMAIN FlashWords :
            k \div SECTOR \in lock => FlashWords'[k] = FlashWords[k]
       /\ (wsm_mode = WRITE_BUFFER /\ wsm_mode' = READY /\ err' = {}) =>
            FlashWords' = Programmed
<1>1. BusInit => BufferInv
  BY EmptyBufferInv DEF BusInit, FlashInit
<1>2. BusInv /\ BufferInv /\ BusInv' /\ [BusNext]_vars => [Asked]_vars
  <2> SUFFICES ASSUME BusInv, BufferInv, BusInv', BusNext, status = "running",
                      WholeFlash(banks), status' = "running", InWindow
               PROVE  Asked
    OBVIOUS
  <2>0. PICK a \in Addr : \E i : /\ i = bank_ptr(banks, mbp, a)
                                 /\ bus_read(i, a) \/ bus_write(i, a)
    BY DEF BusNext, Configure, parse_mem, Reset, mem_reset
  <2>1. PICK i : /\ i = bank_ptr(banks, mbp, a)
                 /\ bus_read(i, a) \/ bus_write(i, a)
    BY <2>0
  <2>2. memory[1] \in [Cells -> Word] /\ FlashWords = memory[1]
    BY FlashShape
  <2>3. ASSUME memory'[1] = memory[1], wsm_mode' = wsm_mode PROVE WordsAsAsked(memory'[1])
    BY <2>2, <2>3 DEF WordsAsAsked, NoLock, READY, WRITE_BUFFER
  <2>4. ASSUME i \in 1 .. Len(banks), banks[i].bank_write = "ram", a \in Nat,
               i \in 0 .. End(banks), NEW n \in {1, 2, 4},
               NEW v \in [0 .. n - 1 -> WriteBytes], WriteMemory(i, n, a, v)
        PROVE  WordsAsAsked(memory'[1])
    <3>1. StoredIn(memory', i, n, a, v)
      BY <2>4, WriteMemoryKeeps
    <3>2. i # 1 /\ 1 \in 1 .. Len(banks)
      BY <2>4, FlashShape
    <3>3. memory'[1] = memory[1]
      BY <3>1, <3>2, Zenon DEF StoredIn
    <3>4. wsm_mode' = wsm_mode
      BY <2>4 DEF WriteMemory, flashVars
    <3> QED
      BY <2>3, <3>3, <3>4
  <2>5. ASSUME i \in 1 .. Len(banks), FlashWord(i, a), a \in Nat, i \in 0 .. End(banks),
               NEW data \in FlashData, WriteFlash(i, a, data)
        PROVE  WordsAsAsked(memory'[1])
    BY <2>5, FlashStepAsAsked
  <2>6. WordsAsAsked(memory'[1])
    BY <2>1, <2>3, <2>4, <2>5, AccessIs DEF flashVars
  <2>7. FlashWords' = memory'[1]
    <3>1. banks' = banks
      BY <2>1 DEF bus_read, bus_write, WriteNowhere, WriteMemory, WriteFlash, WriteNull
    <3>2. (BusInv /\ status = "running" /\ WholeFlash(banks) => FlashWords = memory[1])'
      BY FlashShape, PTL
    <3>3. WholeFlash(banks)'
      BY <3>1 DEF WholeFlash
    <3> QED
      BY <3>2, <3>3
  <2> QED
    BY <2>2, <2>6, <2>7, Zenon DEF WordsAsAsked, NoLock
<1> QED
  BY <1>1, <1>2, BufferStep, BusInvHolds, PTL DEF BusSpec, FlashAsAsked
===============================================================================
