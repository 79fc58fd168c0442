------------------------------- MODULE NorFlash -------------------------------
(***************************************************************************)
(* The Intel 28F128J3A NOR flash (device/flash/dev_flash_intel.c) behind a *)
(* bank with map=F (memory/flash.c).  The device keeps the state of its    *)
(* write state machine; the words themselves are the bank's memory, which  *)
(* it reaches through mem_read and mem_write and so through bank_ptr.      *)
(*                                                                         *)
(* The busy flags are set and cleared within one call, so nothing is ever  *)
(* suspended and SUSPEND and RESUME have no effect, and vpen is 1 for      *)
(* good: the tests of these are left out.  The buffer is dead outside      *)
(* WRITE_BUFFER: the command that enters the state resets it, and it is    *)
(* kept at that value here.  The lock bits are indexed with the address    *)
(* itself, so the flash is at address 0.                                   *)
(***************************************************************************)
EXTENDS MemoryBanks

CONSTANTS SECTOR,      \* words of a sector (65536)
          SECTORS,     \* sectors of the device (128)
          BUFFER       \* INTEL_WRITEBUFFER_SIZE (16)

VARIABLES wsm_mode,    \* the state of the write state machine
          read_mode,   \* what a read returns
          lock,        \* the set of the sectors whose lock bit is 1
          err,         \* the error bits that are 1
          pb,          \* the write buffer: count, loaded, latch, start, buf
          asked        \* history: the words loaded since the last command

flashVars == <<wsm_mode, read_mode, lock, err, pb, asked>>

ASSUME FlashAssumption == {SECTOR, SECTORS, BUFFER} \subseteq Nat \ {0}

\* A bank with map=F lies within the device.
ASSUME DeviceAssumption ==
  \A c \in Confs : \A i \in 1 .. Len(c[1]) :
    c[1][i].map = "flash" => c[1][i].addr + c[1][i].size <= 4 * SECTOR * SECTORS

\* Commands, as the low byte of the word that is written.
READ_ARRAY == 255
READ_ID == 144
READ_STATUS == 112
CLEAR_STATUS == 80
READ_QUERY == 152
WRITE_BUFFER == 232
PROGRAM == 64          \* and its alias 16
BLOCK_ERASE == 32
LOCK_ACCESS == 96
CONFIRM == 208
READY == 0
Commands == {READ_ARRAY, READ_ID, READ_STATUS, CLEAR_STATUS, READ_QUERY, WRITE_BUFFER,
             PROGRAM, BLOCK_ERASE, LOCK_ACCESS, CONFIRM}

SetLb == 16
ClearLb == 32
Protection == 2

\* The word a command or a count is sent in.
Low(b) == [i \in 0 .. 3 |-> IF i = 0 THEN b ELSE 0]

WORD_ADDR(a) == a \div 4
SECTOR_ADDR(a) == a \div (4 * SECTOR)
ISLOCKED(a) == SECTOR_ADDR(a) \in lock

EmptyBuffer == [count |-> 0, loaded |-> 0, latch |-> 0, start |-> 0,
                buf |-> [k \in 0 .. BUFFER - 1 |-> All(255)]]

\* flash_intel_setup and flash_intel_reset.
FlashInit == /\ wsm_mode = READY
             /\ read_mode = READ_ARRAY
             /\ lock = {}
             /\ err = {}
             /\ pb = EmptyBuffer
             /\ asked = <<>>

----------------------------------------------------------------------------
BOTHCHIP(b) == [i \in 0 .. 3 |-> IF i % 2 = 0 THEN b ELSE 0]

\* The bits of err and the ready bit, put together.
StatusByte == 128 + (IF SetLb \in err THEN SetLb ELSE 0)
                  + (IF ClearLb \in err THEN ClearLb ELSE 0)
                  + (IF Protection \in err THEN Protection ELSE 0)

\* The start of the query table; the entries from 3 to 15 are 0.
Query(k) == BOTHCHIP(CASE k = 0 -> 137 [] k = 1 -> 24 [] k = 2 -> 1 [] OTHER -> 0)

\* flash_intel_read_word in bank i.  The test for the lock bit comes after one
\* that covers even and odd word addresses, and is never reached.
flash_read_word(i, a) ==
  CASE read_mode = READ_ARRAY -> mem_read(i, 4, a)
    [] read_mode = READ_ID -> BOTHCHIP(IF WORD_ADDR(a) % 2 = 0 THEN 137 ELSE 24)
    [] read_mode = READ_STATUS -> BOTHCHIP(StatusByte)
    [] read_mode = READ_QUERY -> Query(WORD_ADDR(a))

\* flash_intel_read_byte, _halfword and _word.
flash_read(i, n, a) == Part(flash_read_word(i, a), n, a)

----------------------------------------------------------------------------
\* A word written while the state machine is ready.
init_wsm(cmd) ==
  /\ wsm_mode' = IF cmd \in {WRITE_BUFFER, PROGRAM, BLOCK_ERASE, LOCK_ACCESS}
                 THEN cmd ELSE READY
  /\ read_mode' = CASE cmd \in {READ_ARRAY, READ_ID, READ_STATUS, READ_QUERY} -> cmd
                    [] cmd = CLEAR_STATUS -> READ_ARRAY
                    [] cmd = WRITE_BUFFER -> READ_STATUS
                    [] OTHER -> read_mode
  /\ err' = IF cmd = CLEAR_STATUS THEN {} ELSE err
  /\ UNCHANGED <<lock, pb, asked>>

\* The end of a command: back to READY, with these error bits set in addition.
Done(bits) == /\ wsm_mode' = READY
              /\ err' = err \cup bits
              /\ pb' = EmptyBuffer
              /\ asked' = <<>>

\* Mutant: the count is not compared with the size of the buffer.
GetCountAny(i, a, data) ==
  /\ pb' = [pb EXCEPT !.count = data[0] + 1, !.latch = a]
  /\ mbp' = i
  /\ UNCHANGED <<wsm_mode, err, asked, memory, status, read_mode, lock>>

\* Step 1 of a buffered write.  The last address is computed in bytes.
GetCount(i, a, data) ==
  LET count == data[0] + 1
  IN /\ IF \/ count > BUFFER
           \/ SECTOR_ADDR(a) # SECTOR_ADDR(a + count - 1)
        THEN Done({SetLb, ClearLb})
        ELSE /\ pb' = [pb EXCEPT !.count = count, !.latch = a]
             /\ UNCHANGED <<wsm_mode, err, asked>>
     /\ mbp' = i
     /\ UNCHANGED <<memory, status, read_mode, lock>>

\* Step 2: one word of data.
LoadData(i, a, data) ==
  /\ IF SECTOR_ADDR(a) # SECTOR_ADDR(pb.latch)
     THEN Done({SetLb, ClearLb})
     ELSE /\ pb' = [pb EXCEPT !.start = IF pb.loaded = 0 THEN a ELSE @,
                              !.buf[WORD_ADDR(a) % BUFFER] = data,
                              !.loaded = @ + 1]
          /\ asked' = Append(asked, [w |-> WORD_ADDR(a), data |-> data])
          /\ UNCHANGED <<wsm_mode, err>>
  /\ mbp' = i
  /\ UNCHANGED <<memory, status, read_mode, lock>>

\* The banks that bank_ptr finds for n words from word w on, one after the other,
\* when its static is i.
Walk(i, w, n) ==
  LET at[j \in 0 .. n - 1] == bank_ptr(banks, IF j = 0 THEN i ELSE at[j - 1], 4 * (w + j))
  IN at

\* A word that no bank holds, or one whose memory is not there.
Hollow(b, w) == ~InBank(banks, b, 4 * w) \/ banks[b].type = "io"

\* The memory with words new from word w on, in the banks that at says.
Overwritten(at, w, new) ==
  [b \in DOMAIN memory |-> [k \in DOMAIN memory[b] |->
     LET here == {j \in DOMAIN at : at[j] = b /\ Index(b, 4 * (w + j)) = k}
     IN IF here = {} THEN memory[b][k] ELSE new[CHOOSE j \in here : TRUE]]]

\* A loop of mem_write over the n words from w on: a word that is not there is a
\* NULL pointer.
WriteWords(at, w, n, new) ==
  /\ IF \E j \in DOMAIN at : Hollow(at[j], w + j)
     THEN status' = "crashed" /\ UNCHANGED memory
     ELSE memory' = Overwritten(at, w, new) /\ UNCHANGED status
  /\ mbp' = at[n - 1]

\* Mutant: the buffer is taken from its first entry on.
CopyFromFirst(b, w) == And(mem_read(b, 4, 4 * w), pb.buf[w - WORD_ADDR(pb.start)])

\* What the copying loop makes of word w, in bank b.
Copy(b, w) == And(mem_read(b, 4, 4 * w), pb.buf[w % BUFFER])

\* Step 3: the buffer goes to the flash, all its BUFFER words from the first
\* loaded address on.
ConfirmBuffer(i, data) ==
  IF data[0] # CONFIRM
  THEN /\ Done({SetLb, ClearLb})
       /\ mbp' = i
       /\ UNCHANGED <<memory, status, read_mode, lock>>
  ELSE IF ISLOCKED(pb.latch)
  THEN /\ Done({SetLb, Protection})
       /\ mbp' = i
       /\ read_mode' = READ_STATUS
       /\ UNCHANGED <<memory, status, lock>>
  ELSE LET w == WORD_ADDR(pb.start)
           at == Walk(i, w, BUFFER)
       IN /\ WriteWords(at, w, BUFFER, [j \in 0 .. BUFFER - 1 |-> Copy(at[j], w + j)])
          /\ Done({})
          /\ read_mode' = READ_STATUS
          /\ UNCHANGED lock

\* The word of a PROGRAM command, in bank i.
Program(i, a, data) ==
  /\ IF ISLOCKED(a)
     THEN Done({SetLb, Protection}) /\ UNCHANGED memory
     ELSE /\ memory' = mem_write(memory, i, 4, a, And(mem_read(i, 4, a), data))
          /\ Done({})
  /\ read_mode' = READ_STATUS
  /\ mbp' = i
  /\ UNCHANGED <<status, lock>>

\* Mutant: the address is not rounded down to its sector.
SectorStartAnywhere(a) == WORD_ADDR(a)

\* The first word of the sector of a, erase_latch_addr.
SectorStart(a) == SECTOR_ADDR(a) * SECTOR

\* The confirmation of a BLOCK_ERASE: every word of the sector of a is written, also
\* those that are not in bank i.
Erase(i, a, data) ==
  /\ IF data[0] # CONFIRM
     THEN Done({}) /\ mbp' = i /\ UNCHANGED <<memory, status, read_mode>>
     ELSE /\ read_mode' = READ_STATUS
          /\ IF ISLOCKED(a)
             THEN /\ Done({ClearLb, Protection})
                  /\ mbp' = i
                  /\ UNCHANGED <<memory, status>>
             ELSE /\ LET w == SectorStart(a)
                     IN WriteWords(Walk(i, w, SECTOR), w, SECTOR,
                                   [j \in 0 .. SECTOR - 1 |-> All(255)])
                  /\ Done({})
  /\ UNCHANGED lock

\* The second word of a LOCK_ACCESS.
Lock(i, a, data) ==
  /\ lock' = CASE data[0] = 1 -> lock \cup {SECTOR_ADDR(a)}
               [] data[0] = CONFIRM -> {}
               [] OTHER -> lock
  /\ read_mode' = IF data[0] \in {1, CONFIRM} THEN READ_STATUS ELSE read_mode
  /\ Done({})
  /\ mbp' = i
  /\ UNCHANGED <<memory, status>>

\* flash_intel_write_word, in bank i, which bank_ptr has just found.
flash_write_word(i, a, data) ==
  \/ wsm_mode = READY /\ init_wsm(data[0]) /\ mbp' = i /\ UNCHANGED <<memory, status>>
  \/ wsm_mode = WRITE_BUFFER /\ pb.count = 0 /\ GetCount(i, a, data)
  \/ wsm_mode = WRITE_BUFFER /\ pb.loaded < pb.count /\ LoadData(i, a, data)
  \/ /\ wsm_mode = WRITE_BUFFER /\ pb.count > 0 /\ pb.loaded = pb.count
     /\ ConfirmBuffer(i, data)
  \/ wsm_mode = PROGRAM /\ Program(i, a, data)
  \/ wsm_mode = BLOCK_ERASE /\ Erase(i, a, data)
  \/ wsm_mode = LOCK_ACCESS /\ Lock(i, a, data)

\* The words a program writes: in every state those it tells apart, a wrong one
\* included.
FlashData == CASE wsm_mode = READY -> {Low(c) : c \in Commands \cup {0}}
               [] wsm_mode = WRITE_BUFFER /\ pb.count = 0 -> {Low(c) : c \in 0 .. BUFFER}
               [] wsm_mode = WRITE_BUFFER /\ pb.loaded = pb.count -> {Low(0), Low(CONFIRM)}
               [] wsm_mode \in {WRITE_BUFFER, PROGRAM} -> {All(0), All(255)}
               [] OTHER -> {Low(0), Low(1), Low(CONFIRM)}
=============================================================================
