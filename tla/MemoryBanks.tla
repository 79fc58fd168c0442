----------------------------- MODULE MemoryBanks -----------------------------
(***************************************************************************)
(* The table of memory banks (memory/bank_ops.c), how skyeye.conf fills it *)
(* (memory/parse_mem.c) and the memory behind it (memory/ram.c).           *)
(*                                                                         *)
(* A word is the function from the significance of its four bytes, 0 the   *)
(* lowest, to their values; a memory access moves the bytes 0 .. n-1.  The *)
(* byte values are 0, 1 and 255, on which the bitwise "and" is the smaller *)
(* and the bitwise "or" the larger value.  A line of the configuration has *)
(* the values of its parameters and params, the order they stand in.       *)
(***************************************************************************)
EXTENDS Integers, Sequences

CONSTANTS Confs,       \* the configurations: the mem_bank lines and the byte order
          Top          \* the highest address that is accessed

VARIABLES conf,        \* the lines of skyeye.conf, never changes
          big,         \* arch_instance->big_endian, never changes
          status,      \* "config", "running", "exited" or "crashed"
          banks,       \* global_memmap.mem_banks[0 .. current_num - 1]
          start,       \* skyeye_config.start_address
          mbp,         \* the static pointer of bank_ptr: 0 is NULL
          memory       \* global_memory.rom, by bank

bankVars == <<conf, big, status, banks, start, mbp, memory>>

Addr == 0 .. Top
Byte == {0, 1, 255}
Cell(n) == [0 .. n - 1 -> Byte]
Word == Cell(4)
And(v, w) == [i \in DOMAIN v |-> IF v[i] < w[i] THEN v[i] ELSE w[i]]
All(b) == [i \in 0 .. 3 |-> b]

\* The last access is to a whole word.
ASSUME TopAssumption == Top \in Nat /\ Top % 4 = 3

\* A mem_bank line of skyeye.conf: its parameters in the order they stand in, and
\* the values they have.
Lines == [params : Seq(STRING), map : {"ram", "flash", "io"}, addr : Nat, size : Nat,
          file : Seq(Byte)]

ASSUME ConfAssumption == \A c \in Confs : c[1] \in Seq(Lines) /\ c[2] \in BOOLEAN

\* mem_banks starts as zeroes; the entry of length 0 ends the table.
NoBank == [addr |-> 0, len |-> 0, bank_read |-> "null", bank_write |-> "null",
           type |-> "none", named |-> FALSE, file |-> <<>>]

----------------------------------------------------------------------------
\* The index of the entry at which the search ends: the first one of length 0.
End(t) == CHOOSE e \in 1 .. Len(t) + 1 :
            /\ e <= Len(t) => t[e].len = 0
            /\ \A i \in 1 .. e - 1 : t[i].len # 0

InBank(t, i, a) == /\ i \in 1 .. Len(t)
                   /\ t[i].addr <= a
                   /\ a - t[i].addr < t[i].len

\* The loop of bank_ptr: the first bank that holds a, else the end of the table.
Search(t, a) ==
  LET end == End(t)
  IN CHOOSE i \in 1 .. end : /\ i # end => InBank(t, i, a)
                             /\ \A j \in 1 .. i - 1 : ~InBank(t, j, a)

\* Mutant: the remembered bank is taken without a look at its length.
bank_ptrNoLen(t, m, a) ==
  IF m \in 1 .. Len(t) /\ t[m].addr <= a THEN m ELSE Search(t, a)

\* bank_ptr(a) when its static is m: the static afterwards.  The result is the
\* bank it then points at, NULL unless that bank holds a.
bank_ptr(t, m, a) == IF InBank(t, m, a) THEN m ELSE Search(t, a)

Found(t, m, a) == InBank(t, bank_ptr(t, m, a), a)

----------------------------------------------------------------------------
\* Mutant: type=R only changes the type.
ParamTypeOnly(mb, p, line) ==
  CASE p = "map" -> [mb EXCEPT !.bank_read = line.map, !.bank_write = line.map,
                               !.type = line.map]
    [] p = "type" -> [mb EXCEPT !.type = IF mb.type = "ram" THEN "rom" ELSE mb.type]
    [] p = "addr" -> [mb EXCEPT !.addr = line.addr]
    [] p = "size" -> [mb EXCEPT !.len = line.size]
    [] p = "file" -> [mb EXCEPT !.named = TRUE, !.file = line.file]
    [] OTHER -> mb

\* One parameter of a line.  map=M, map=F and map=I install the handlers of their
\* kind, here named after it; type=R installs warn_write over whatever is there.
Param(mb, p, line) ==
  CASE p = "map" -> [mb EXCEPT !.bank_read = line.map, !.bank_write = line.map,
                               !.type = line.map]
    [] p = "type" -> [mb EXCEPT !.type = IF mb.type = "ram" THEN "rom" ELSE mb.type,
                                !.bank_write = "warn"]
    [] p = "addr" -> [mb EXCEPT !.addr = line.addr]
    [] p = "size" -> [mb EXCEPT !.len = line.size]
    [] p = "file" -> [mb EXCEPT !.named = TRUE, !.file = line.file]
    [] OTHER -> mb

\* The entry after the first i parameters, taken in the order they stand in.
Parsed(line) ==
  LET mb[i \in 0 .. Len(line.params)] ==
        IF i = 0 THEN NoBank ELSE Param(mb[i - 1], line.params[i], line)
  IN mb

parse_mem ==
  /\ status = "config"
  /\ Len(banks) < Len(conf)
  /\ LET line == conf[Len(banks) + 1]
         mb == Parsed(line)
         boots == {i \in 1 .. Len(line.params) : line.params[i] = "boot"}
     IN /\ banks' = Append(banks, mb[Len(line.params)])
        /\ start' = IF boots = {} THEN start ELSE mb[CHOOSE i \in boots : TRUE].addr
  /\ UNCHANGED <<conf, big, status, mbp, memory>>

\* What p[i] becomes as a char that is converted to uint32_t and shifted to
\* significance s: the byte itself, its sign above it.
SignExtended(b, s) == [i \in 0 .. 3 |-> IF i < s THEN 0
                                        ELSE IF i = s \/ b >= 128 THEN b ELSE 0]

\* The four bytes p[0 .. 3] put together to a word by "or".
Swap(p, isBig) ==
  LET Part(k) == SignExtended(p[k + 1], IF isBig THEN 3 - k ELSE k)
  IN [i \in 0 .. 3 |-> LET bytes == {Part(k)[i] : k \in 0 .. 3}
                       IN CHOOSE b \in bytes : \A c \in bytes : c <= b]

\* The words of memory that a bank has; the devices behind a bank with map=I have
\* none.
Words(mb) == IF mb.type = "io" THEN 0 ELSE mb.len \div 4

\* The memory of a bank after mem_reset: zeroes, then the file, word by word.
Loaded(mb) ==
  [k \in 0 .. Words(mb) - 1 |->
     LET p == [j \in 1 .. 4 |-> IF 4 * k + j <= Len(mb.file)
                                THEN mb.file[4 * k + j] ELSE 0]
     IN IF mb.named THEN Swap(p, big) ELSE All(0)]

\* A file that cannot be opened or of which nothing is read, because it is empty or
\* the bank has no length, ends the simulator.
LoadFails(mb) == mb.type # "io" /\ mb.named /\ (mb.file = <<>> \/ mb.len = 0)

mem_reset ==
  /\ status = "config"
  /\ Len(banks) = Len(conf)
  /\ IF \E i \in 1 .. Len(banks) : LoadFails(banks[i])
     THEN status' = "exited" /\ UNCHANGED memory
     ELSE /\ status' = "running"
          /\ memory' = [i \in 1 .. Len(banks) |-> Loaded(banks[i])]
  /\ UNCHANGED <<conf, big, banks, start, mbp>>

----------------------------------------------------------------------------
\* Where the n bytes of an access to a lie in their word.
Shift(n, a) == CASE n = 1 -> IF big THEN 3 - (a % 4) ELSE a % 4
                 [] n = 2 -> IF big THEN 2 - (a % 4) + (a % 2) ELSE (a % 4) - (a % 2)
                 [] n = 4 -> 0

Index(i, a) == (a - banks[i].addr) \div 4

\* The n bytes that an access to a takes from a word.
Part(w, n, a) == [k \in 0 .. n - 1 |-> w[Shift(n, a) + k]]

\* mem_read in bank i.
mem_read(i, n, a) == Part(memory[i][Index(i, a)], n, a)

\* Mutant: a halfword is put where its address says on a little-endian machine.
StoredLittle(w, n, a, v) ==
  LET s == IF n = 2 THEN (a % 4) - (a % 2) ELSE Shift(n, a)
  IN [k \in 0 .. 3 |-> IF k \in s .. s + n - 1 THEN v[k - s] ELSE w[k]]

\* The word with the n bytes v of an access to a put into it.
Stored(w, n, a, v) ==
  LET s == Shift(n, a)
  IN [k \in 0 .. 3 |-> IF k \in s .. s + n - 1 THEN v[k - s] ELSE w[k]]

\* mem_write in bank i of the memories m.
mem_write(m, i, n, a, v) ==
  [m EXCEPT ![i][Index(i, a)] = Stored(@, n, a, v)]
=============================================================================
