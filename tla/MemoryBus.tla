------------------------------ MODULE MemoryBus ------------------------------
(***************************************************************************)
(* The bus of the simulated machine: bus_read and bus_write find the bank  *)
(* of an address and call its handler, that of RAM, of read-only memory or *)
(* of a NOR flash.  The machine is configured and reset first.             *)
(*                                                                         *)
(* An access that finds no bank only prints a message.  A write to a bank  *)
(* without map= calls a null pointer; a read of it prints the message.  An *)
(* access to a bank with map=I goes to the devices, not modelled here.     *)
(***************************************************************************)
EXTENDS NorFlash

CONSTANT WriteBytes    \* bound: the bytes a program writes to memory

ASSUME WriteAssumption == WriteBytes \subseteq Byte

VARIABLE bytes         \* history: the byte at every address outside the flash, as a
                       \* program knows it

vars == <<bankVars, flashVars, bytes>>

\* The first bank in the table that holds a, which alone decides what a is.
FirstBank(a) == Search(banks, a)
Mapped(a) == InBank(banks, FirstBank(a), a)

\* The byte that lies at an address: what the words mean to a program.
ByteAt(a) == LET i == FirstBank(a)
                 w == memory[i][Index(i, a)]
             IN IF Mapped(a) /\ banks[i].type # "io"
                THEN w[IF big THEN 3 - (a % 4) ELSE a % 4] ELSE 0

BusInit == /\ \E c \in Confs : conf = c[1] /\ big = c[2]
           /\ status = "config"
           /\ banks = <<>>
           /\ start = 0
           /\ mbp = 0
           /\ memory = <<>>
           /\ bytes = [a \in Addr |-> 0]
           /\ FlashInit

\* skyeye.conf is read, then the memory is set up.
Configure == /\ parse_mem
             /\ UNCHANGED <<flashVars, bytes>>

Reset == /\ mem_reset
         /\ bytes' = IF status' = "running" THEN [a \in Addr |-> ByteAt(a)'] ELSE bytes
         /\ UNCHANGED flashVars

\* What bus_read stores at *value for a read of n bytes, if memory or a flash
\* answers.
Value(n, a) == LET i == bank_ptr(banks, mbp, a)
               IN IF banks[i].bank_read = "flash" THEN flash_read(i, n, a)
                  ELSE mem_read(i, n, a)

Answers(a) == /\ Found(banks, mbp, a)
              /\ banks[bank_ptr(banks, mbp, a)].bank_read \in {"ram", "flash"}

\* i is the entry that bank_ptr leaves its static at; it holds a unless none does.
bus_read(i, a) == /\ mbp' = i
                  /\ UNCHANGED <<conf, big, status, banks, start, memory, flashVars, bytes>>

\* The reference for a store of n bytes v at a: those of the aligned cell.
Put(n, a, v) == [b \in Addr |-> IF b \div n # a \div n THEN bytes[b]
                                ELSE v[IF big THEN n - 1 - (b % n) ELSE b % n]]

\* A write that finds no bank, a read-only one or a device, or that a flash refuses:
\* a byte or a halfword.
WriteNowhere(i, a) ==
  /\ InBank(banks, i, a) => banks[i].bank_write \in {"warn", "flash", "io"}
  /\ mbp' = i
  /\ UNCHANGED <<conf, big, status, banks, start, memory, flashVars, bytes>>

WriteMemory(i, n, a, v) ==
  /\ memory' = mem_write(memory, i, n, a, v)
  /\ bytes' = Put(n, a, v)
  /\ mbp' = i
  /\ UNCHANGED <<conf, big, status, banks, start, flashVars>>

WriteFlash(i, a, data) == /\ flash_write_word(i, a, data)
                          /\ UNCHANGED <<conf, big, banks, start, bytes>>

WriteNull(i, a) ==
  /\ mbp' = i
  /\ status' = "crashed"
  /\ UNCHANGED <<conf, big, banks, start, memory, flashVars, bytes>>

\* The handler of the bank that holds a.
bus_write(i, a) ==
  \/ WriteNowhere(i, a)
  \/ /\ InBank(banks, i, a)
     /\ \/ /\ banks[i].bank_write = "ram"
           /\ \E n \in {1, 2, 4} : \E v \in [0 .. n - 1 -> WriteBytes] :
                WriteMemory(i, n, a, v)
        \/ /\ banks[i].bank_write = "flash"
           /\ a % 4 = 0
           /\ \E data \in FlashData : WriteFlash(i, a, data)
        \/ banks[i].bank_write = "null" /\ WriteNull(i, a)

BusNext == \/ Configure
           \/ Reset
           \/ /\ status = "running"
              /\ \E a \in Addr : \E i \in {bank_ptr(banks, mbp, a)} :
                   bus_read(i, a) \/ bus_write(i, a)

BusSpec == BusInit /\ [][BusNext]_vars

----------------------------------------------------------------------------
\* A table of banks: addresses and lengths are 32-bit words without a sign.
TableOK(t) == /\ Len(t) \in Nat
              /\ \A i \in 1 .. Len(t) : t[i].addr \in Nat /\ t[i].len \in Nat

BankTypeOK ==
  /\ TableOK(banks)
  /\ status \in {"config", "running", "exited", "crashed"}
  /\ Len(banks) <= Len(conf)
  /\ mbp \in 0 .. Len(banks) + 1
  /\ status = "running" =>
       \A i \in DOMAIN banks : memory[i] \in [0 .. Words(banks[i]) - 1 -> Word]
  /\ lock \subseteq 0 .. SECTORS - 1
  /\ err \subseteq {SetLb, ClearLb, Protection}
  /\ pb.loaded <= pb.count /\ pb.count <= BUFFER

\* No address is in two banks that a search reaches.
Disjoint(t) == \A i, j \in 1 .. End(t) - 1 :
                 \/ i = j
                 \/ t[i].addr + t[i].len <= t[j].addr
                 \/ t[j].addr + t[j].len <= t[i].addr

(* bank_ptr remembers the last bank in a static variable, which points at the
   end of the table after a miss (bank_ops.c:12).  Whatever was looked up
   before, a lookup finds the bank that a search from the start of the table
   finds, and finds none where the search finds none. *)
CacheExact ==
  (status = "running" /\ Disjoint(banks)) =>
    \A a \in Addr : LET i == bank_ptr(banks, mbp, a)
                        first == FirstBank(a)
                    IN /\ InBank(banks, i, a) = InBank(banks, first, a)
                       /\ InBank(banks, i, a) => i = first

\* The byte a program expects at an address; in the flash, what it holds.
Now(a) == IF banks[FirstBank(a)].type = "flash" THEN ByteAt(a) ELSE bytes[a]

\* Banks of whole words.
Aligned(t) == \A i \in 1 .. Len(t) : t[i].addr % 4 = 0 /\ t[i].len % 4 = 0

\* No other bank lies in a sector that a flash lies in, which its erase would reach,
\* or within a buffer's length behind it, which a buffered write whose words are not
\* in order would reach.
FlashApart(t) ==
  \A i, j \in 1 .. Len(t) :
    (t[i].bank_write = "flash" /\ t[j].bank_write # "flash") =>
      \/ t[j].addr + t[j].len <= 4 * SectorStart(t[i].addr)
      \/ /\ t[i].addr + t[i].len + 4 * BUFFER <= t[j].addr
         /\ 4 * (SectorStart(t[i].addr + t[i].len - 1) + SECTOR) <= t[j].addr

(* A program sees an array of bytes: whatever was written in bytes, halfwords
   and words, on a big- or a little-endian machine, at whatever address in the
   cell, every read that is answered from memory returns the bytes written last
   at the addresses of its cell; read-only banks keep theirs (ram.c:33-132).
   The banks must be laid out as a board has them, which the code does not test:
   without overlap, in whole words, and none in a sector of a flash or close
   behind it. *)
ReadsLastWritten ==
  (/\ status = "running" /\ read_mode = READ_ARRAY
   /\ Disjoint(banks) /\ Aligned(banks) /\ FlashApart(banks)) =>
    \A a \in Addr, n \in {1, 2, 4} :
      Answers(a) => Value(n, a) = [k \in 0 .. n - 1 |->
                      Now((a - (a % n)) + (IF big THEN n - 1 - k ELSE k))]

\* A line names a file, and says type=R and no map= behind it.
RomLine(line) ==
  /\ \E i \in 1 .. Len(line.params) : line.params[i] = "file"
  /\ \E i \in 1 .. Len(line.params) :
       /\ line.params[i] = "type"
       /\ \A j \in i .. Len(line.params) : line.params[j] # "map"

(* A bank whose line says type=R behind map= (parse_mem.c:77) holds the bytes of
   its file for as long as the machine runs, whatever is written to it: provided
   that no byte of the file has its top bit set, since the loader (ram.c:208)
   puts words together from signed characters, and that the bank is a whole
   number of words, has memory, and does not lie in a sector of a flash
   (dev_flash_intel.c:466) or close behind it. *)
RomKeepsFile ==
  (status = "running" /\ Aligned(banks) /\ FlashApart(banks)) =>
    \A i \in 1 .. Len(banks) :
      LET line == conf[i]
          sound == \A k \in 1 .. Len(line.file) : line.file[k] < 128
      IN (RomLine(line) /\ sound /\ banks[i].type # "io") =>
           \A k \in 1 .. Len(line.file) :
             LET a == banks[i].addr + k - 1
             IN a \in Addr /\ FirstBank(a) = i /\ k <= banks[i].len =>
                  ByteAt(a) = line.file[k]

\* The words loaded lie within the buffer's length of the first one.
InWindow == \A t \in 1 .. Len(asked) : asked[t].w \in asked[1].w .. asked[1].w + BUFFER - 1

\* The sectors a bank lies in.
SectorsOf(mb) == {s \in 0 .. SECTORS - 1 :
                    4 * SECTOR * s < mb.addr + mb.len /\ mb.addr < 4 * SECTOR * (s + 1)}

\* A word that no bank holds, or that the devices do.
Hole(w) == LET held == {i \in 1 .. End(banks) - 1 : InBank(banks, i, 4 * w)}
           IN held = {} \/ \E i \in held : banks[i].type = "io"

(* The simulator dies of a memory access in three ways only: a write to a bank
   without map= calls a null pointer (bank_ops.c:60); the copying loop of a
   buffered write, which always runs over a whole buffer (dev_flash_intel.c:376),
   or the loop that erases an unlocked sector of a flash (dev_flash_intel.c:466)
   comes to a word that no bank holds or whose bank has map=I. *)
CrashExplained ==
  [][(status = "running" /\ status' = "crashed") =>
        \/ \E i \in DOMAIN banks : banks[i].bank_write = "null"
        \/ /\ wsm_mode = WRITE_BUFFER
           /\ \E w \in asked[1].w .. asked[1].w + BUFFER - 1 : Hole(w)
        \/ /\ wsm_mode = BLOCK_ERASE
           /\ \E i \in DOMAIN banks : \E s \in SectorsOf(banks[i]) \ lock :
                /\ banks[i].bank_write = "flash"
                /\ \E w \in s * SECTOR .. (s + 1) * SECTOR - 1 : Hole(w)]_vars

FlashWords == [k \in 0 .. (SECTOR * SECTORS) - 1 |-> memory[1][k]]

\* Every word loaded is programmed at its own address, the last one of an address
\* in place of the ones before.
Programmed ==
  [k \in DOMAIN FlashWords |->
     LET mine == {t \in DOMAIN asked : asked[t].w = k}
         last == CHOOSE t \in mine : \A u \in mine : u <= t
     IN IF mine = {} THEN FlashWords[k] ELSE And(FlashWords[k], asked[last].data)]

Erased(s) == [k \in DOMAIN FlashWords |-> IF k \div SECTOR = s THEN All(255)
                                          ELSE FlashWords[k]]

\* The first bank is the whole device, and no other bank is a flash.
WholeFlash(t) == /\ 1 \in 1 .. Len(t)
                 /\ t[1].bank_write = "flash"
                 /\ t[1].addr = 0 /\ t[1].len = 4 * SECTOR * SECTORS
                 /\ \A i \in 2 .. Len(t) : t[i].bank_write # "flash"

(* The words of the flash change in three ways only, none of them in a locked
   sector: a confirmed buffer programs each loaded word at its own address, a
   word is programmed, clearing bits, or one sector is erased.  A buffer that
   was taken with a clean status has been programmed.  The loads must lie within
   a buffer's length of the first one: the code does not test that, and a word
   loaded below the first goes a buffer's length above its address, into the
   next sector even if that is locked. *)
FlashAsAsked ==
  [][(status = "running" /\ WholeFlash(banks) /\ status' = "running" /\ InWindow) =>
       /\ \/ FlashWords' = FlashWords
          \/ wsm_mode = WRITE_BUFFER /\ FlashWords' = Programmed
          \/ /\ wsm_mode = PROGRAM
             /\ \E k \in DOMAIN FlashWords :
                  /\ \A j \in DOMAIN FlashWords \ {k} : FlashWords'[j] = FlashWords[j]
                  /\ FlashWords'[k] = And(FlashWords[k], FlashWords'[k])
          \/ \E s \in (0 .. SECTORS - 1) \ lock :
               wsm_mode = BLOCK_ERASE /\ FlashWords' = Erased(s)
       /\ \A k \in DOMAIN FlashWords :
            k \div SECTOR \in lock => FlashWords'[k] = FlashWords[k]
       /\ (wsm_mode = WRITE_BUFFER /\ wsm_mode' = READY /\ err' = {}) =>
            FlashWords' = Programmed]_vars

\* Configurations, as sys.conf writes them, and the unfortunate ones.
Line(order, map, addr, size, file) ==
  [params |-> order, map |-> map, addr |-> addr, size |-> size, file |-> file]
=============================================================================
