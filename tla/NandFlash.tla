------------------------------- MODULE NandFlash -------------------------------
(***************************************************************************)
(* The small-block NAND flash of the S3C2410 boards: the chip with its     *)
(* command, address and data cycles (device/nandflash/                     *)
(* nandflash_smallblock.c) behind the controller's registers               *)
(* (dev_nandflash_s3c2410.c), which the emulated program accesses in any   *)
(* order.  The dump file survives everything.                              *)
(*                                                                         *)
(* The file has two builds: one maps the dump and programs it by AND, the  *)
(* other (MinGW, POSIX_SHARE_MEMORY_BROKEN) reads a page into a buffer and *)
(* overwrites whole pages.  mapped chooses one for good in Init.           *)
(*                                                                         *)
(* Every controller access leaves the pins ALE, CLE, WE and RE as it found *)
(* them and nothing drives WP, so of the pins only CE is state; a chip     *)
(* whose CE is high latches nothing, like one behind a disabled controller. *)
(***************************************************************************)
EXTENDS Integers, Sequences

CONSTANTS PAGESIZE,    \* bytes of a page without its spare area (512)
          OOBSIZE,     \* bytes of the spare area (16)
          PAGENUM,     \* pages per erase block (32)
          BLOCKNUM,    \* blocks (4096)
          Data,        \* bound: bytes the program writes to NFDATA, all bits alike
          Column, Row, \* bound: bytes it writes to NFADDR, first and second cycle
          MaxAddress, MaxOffset, \* bounds of address and pageoffset
          MaxStores    \* bound: how often the dump changes

\* The commands, as the bytes they are: a byte may reach the wrong latch.
READ0 == 0
READ1 == 1
PAGEPROG == 16
READOOB == 80
ERASE1 == 96
STATUS == 112
SEQIN == 128
READID == 144
ERASE2 == 208
RESET == 255
Commands == {READ0, READ1, PAGEPROG, READOOB, ERASE1, STATUS, SEQIN, READID, ERASE2, RESET}
Reads == {READ0, READ1, READOOB}
Unknown == 2  \* stands for every byte that is no command

PageDump == PAGESIZE + OOBSIZE
EraseSize == PageDump * PAGENUM
DeviceSize == EraseSize * BLOCKNUM
Cells == 0 .. DeviceSize - 1
Columns == 0 .. PageDump - 1
Byte == 0 .. 255

ASSUME NandConstants ==
  /\ PAGESIZE \in Nat \ {0} /\ PAGESIZE % 2 = 0 /\ OOBSIZE \in Nat \ {0}
  /\ PAGENUM \in Nat \ {0} /\ BLOCKNUM \in Nat \ {0}
  /\ Data \subseteq {0, 255} /\ Column \subseteq Byte /\ Row \subseteq Byte
  /\ MaxAddress \in Nat /\ MaxOffset \in Nat /\ MaxStores \in Nat

VARIABLES mapped,     \* the build
          flash,      \* the dump
          selected,   \* NFCONF enables the controller and CE is low
          iostatus, cmd, cmdstatus, address, pageoffset, IOPIN,
          writebuffer, readbuffer,
          overrun,    \* memory outside of a buffer was written: no more promises
          req,        \* the request as the program stated it, for the properties
          stores      \* how often the dump changed

latch == <<iostatus, cmd, cmdstatus, address, pageoffset>>
buffers == <<writebuffer, readbuffer>>
vars == <<mapped, flash, selected, latch, IOPIN, buffers, overrun, req, stores>>

Blank == [i \in Columns |-> 255]
PageOf(a) == a \div PageDump
InPage(a, p) == PageOf(a) = p
-------------------------------------------------------------------------------
(***************************************************************************)
(* What the program asks for, read off its accesses alone: an operation is *)
(* a read with a pointer command and four address cycles; a pointer        *)
(* command, SEQIN, four address cycles, data that stay in the page and     *)
(* PAGEPROG; or ERASE1, three address cycles and ERASE2.  Anything else    *)
(* is no request until the next pointer command or ERASE1.                 *)
(***************************************************************************)
NoRequest == [op |-> "none", col |-> 0, row |-> 0, cycles |-> 0, data |-> <<>>]
Area == [c \in Reads |-> CASE c = READ0 -> 0 [] c = READ1 -> PAGESIZE \div 2
                           [] c = READOOB -> PAGESIZE]

Complete == req.cycles = 4
AskCommand(b) ==
  CASE b \in Reads  -> [NoRequest EXCEPT !.op = "read", !.col = Area[b]]
    [] b = ERASE1   -> [NoRequest EXCEPT !.op = "erase", !.cycles = 1]
    [] b = SEQIN /\ req.op = "read" /\ req.cycles = 0
                    -> [req EXCEPT !.op = "program"]
    [] OTHER        -> NoRequest

AskAddress(b) ==
  LET r == CASE req.cycles = 0 -> [req EXCEPT !.col = @ + b, !.cycles = 1]
             [] req.cycles = 1 -> [req EXCEPT !.row = b, !.cycles = 2]
             [] OTHER          -> [req EXCEPT !.cycles = @ + 1]
  IN  IF \/ req.op = "none" \/ Complete
         \/ r.col \notin Columns \/ r.row >= PAGENUM * BLOCKNUM
        THEN NoRequest ELSE r

AskData(b) ==
  IF req.op = "program" /\ Complete /\ req.col + Len(req.data) < PageDump
    THEN [req EXCEPT !.data = Append(@, b)] ELSE NoRequest

\* The byte a data read asks for, when it does.
Asked == req.row * PageDump + req.col + Len(req.data)
Reading == req.op = "read" /\ Complete /\ req.col + Len(req.data) < PageDump
AskRead == IF Reading THEN [req EXCEPT !.data = Append(@, 0)] ELSE NoRequest
-------------------------------------------------------------------------------
\* nandflash_sb_setup and poweron, nandflash_s3c2410_setup.  A new dump is
\* blank; one of an earlier session holds what that session left, here one
\* byte all over.
Init ==
  /\ mapped \in BOOLEAN
  /\ \E b \in {255} \cup Data : flash = [a \in Cells |-> b]
  /\ selected = FALSE
  /\ iostatus = "NONE" /\ cmd = READ0 /\ cmdstatus = "NOSTATUS"
  /\ address = 0 /\ pageoffset = 0 /\ IOPIN = 0
  /\ writebuffer = Blank /\ readbuffer = Blank
  /\ overrun = FALSE /\ req = NoRequest /\ stores = 0

\* Outside of the device a mapped dump is outside of memory; a file grows.
Store(base, bytes) ==
  /\ flash' = [a \in Cells |-> IF a - base \in DOMAIN bytes THEN bytes[a - base]
                                                           ELSE flash[a]]
  /\ overrun' = (mapped /\ base >= DeviceSize)

ErasedBlock == [i \in 0 .. EraseSize - 1 |-> 255]

\* Mutant: the block is not aligned, the erase starts at the page addressed.
doeraseFromPage ==
  /\ Store(address, ErasedBlock)
  /\ readbuffer' = IF mapped THEN readbuffer ELSE Blank

\* nandflash_sb_doerase
doerase ==
  /\ Store(address - (address % EraseSize), ErasedBlock)
  /\ readbuffer' = IF mapped THEN readbuffer ELSE Blank

\* Of bytes with all bits alike.
And(a, b) == IF a = 255 /\ b = 255 THEN 255 ELSE 0

\* nandflash_sb_finishwrite
finishwrite ==
  LET base == address - (address % PageDump)
      old == [i \in Columns |-> IF base + i \in Cells THEN flash[base + i] ELSE 255]
  IN  Store(base, [i \in Columns |-> IF mapped THEN And(old[i], writebuffer[i])
                                               ELSE writebuffer[i]])

\* Mutant: the test of the page end comes too late by one.
dodatawriteLate(b) ==
  /\ pageoffset < MaxOffset
  /\ writebuffer' = IF pageoffset + 1 \in Columns THEN [writebuffer EXCEPT ![pageoffset + 1] = b]
                                                  ELSE writebuffer
  /\ overrun' = (pageoffset + 1 \notin Columns)
  /\ pageoffset' = pageoffset + 1
  /\ UNCHANGED <<flash, iostatus, cmd, cmdstatus, address, readbuffer>>

\* nandflash_sb_dodatawrite: a byte behind the buffer is reported and stored.
dodatawrite(b) ==
  /\ pageoffset < MaxOffset
  /\ writebuffer' = IF pageoffset \in Columns THEN [writebuffer EXCEPT ![pageoffset] = b]
                                              ELSE writebuffer
  /\ overrun' = (pageoffset \notin Columns)
  /\ pageoffset' = pageoffset + 1
  /\ UNCHANGED <<flash, iostatus, cmd, cmdstatus, address, readbuffer>>
-------------------------------------------------------------------------------
Begin(c, status, offset) ==
  /\ cmd' = c /\ cmdstatus' = status
  /\ address' = 0 /\ pageoffset' = offset /\ iostatus' = "ADDR"
  /\ UNCHANGED <<flash, readbuffer, overrun>>

\* nandflash_sb_reset.  NF_NOSTATUS, the value cmd is given, is READ0.
reset ==
  /\ iostatus' = "NONE" /\ cmd' = READ0 /\ cmdstatus' = "NOSTATUS"
  /\ pageoffset' = 0 /\ writebuffer' = Blank
  /\ UNCHANGED <<flash, address, readbuffer, overrun>>

\* The second command of an erase.  NAND_CMD_NONE, -1, is RESET in a byte.
Erase ==
  /\ IF cmd = ERASE1 /\ cmdstatus = "addr_finish"
       THEN doerase ELSE UNCHANGED <<flash, readbuffer, overrun>>
  /\ iostatus' = "CMD" /\ cmd' = RESET
  /\ UNCHANGED <<cmdstatus, address, pageoffset, writebuffer>>

Program ==
  /\ IF cmd = SEQIN /\ cmdstatus = "addr_finish"
       THEN finishwrite /\ cmd' = PAGEPROG ELSE UNCHANGED <<flash, overrun, cmd>>
  /\ iostatus' = "CMD"
  /\ UNCHANGED <<cmdstatus, address, pageoffset, buffers>>

\* nandflash_sb_docmd; PAGEPROG, ERASE2 and unknown bytes leave the chip
\* expecting a command, whatever is written next.
docmd(b) ==
  \/ b \in Reads /\ Begin(b, "addr_1st", Area[b]) /\ UNCHANGED writebuffer
  \/ b = SEQIN /\ Begin(b, "addr_1st", pageoffset) /\ writebuffer' = Blank
  \/ b = ERASE1 /\ Begin(b, "addr_2nd", 0) /\ UNCHANGED writebuffer
  \/ b = READID /\ Begin(b, "addr_4th", 0) /\ UNCHANGED writebuffer
  \/ b = RESET /\ reset
  \/ b = ERASE2 /\ Erase
  \/ b = PAGEPROG /\ Program
  \/ /\ b = STATUS
     /\ cmd' = STATUS /\ cmdstatus' = "status" /\ iostatus' = "STATUSREAD"
     /\ UNCHANGED <<flash, overrun, address, pageoffset, buffers>>
  \/ /\ b \notin Commands
     /\ iostatus' = "CMD"
     /\ UNCHANGED <<flash, overrun, cmd, cmdstatus, address, pageoffset, buffers>>

\* What the fourth address cycle starts.
AddressDone ==
  \/ cmd \in Reads /\ iostatus' = "DATAREAD" /\ UNCHANGED cmdstatus
  \/ cmd = SEQIN /\ iostatus' = "DATAWRITE" /\ cmdstatus' = "addr_finish"
  \/ cmd = READID /\ iostatus' = "IDREAD" /\ cmdstatus' = "readID_1st"
  \/ cmd = ERASE1 /\ iostatus' = "CMD" /\ cmdstatus' = "addr_finish"
  \/ cmd \notin Reads \cup {SEQIN, READID, ERASE1}
       /\ iostatus' = "ADDR" /\ UNCHANGED cmdstatus

\* Mutant: the command for the spare area is forgotten.
LoadWithoutSpare ==
  IF ~mapped /\ cmd \in {READ0, READ1} /\ address' < DeviceSize
    THEN readbuffer' = [i \in Columns |-> flash[PageOf(address') * PageDump + i]]
    ELSE UNCHANGED readbuffer

\* The other build loads the page a read starts in.
Load ==
  IF ~mapped /\ cmd \in Reads /\ address' < DeviceSize
    THEN readbuffer' = [i \in Columns |-> flash[PageOf(address') * PageDump + i]]
    ELSE UNCHANGED readbuffer

\* nandflash_sb_doaddr.  The third and fourth cycles carry the high bits of
\* the row; the rows of the model need none, and the bytes are zero.
doaddr(b) ==
  /\ UNCHANGED <<flash, overrun, cmd, writebuffer>>
  /\ \/ /\ cmdstatus = "addr_1st"
        /\ pageoffset + b <= MaxOffset
        /\ address' = 0 /\ pageoffset' = pageoffset + b
        /\ cmdstatus' = "addr_2nd" /\ iostatus' = "ADDR"
        /\ UNCHANGED readbuffer
     \/ /\ cmdstatus = "addr_2nd"
        /\ address' = b * PAGESIZE
        /\ cmdstatus' = "addr_3rd" /\ iostatus' = "ADDR"
        /\ UNCHANGED <<pageoffset, readbuffer>>
     \/ /\ cmdstatus = "addr_3rd"
        /\ cmdstatus' = "addr_4th" /\ iostatus' = "ADDR"
        /\ UNCHANGED <<address, pageoffset, readbuffer>>
     \/ /\ cmdstatus = "addr_4th"
        /\ address' = (address \div PAGESIZE) * PageDump + pageoffset
        /\ address' <= MaxAddress
        /\ AddressDone
        /\ Load
        /\ UNCHANGED pageoffset
     \/ /\ cmdstatus \notin {"addr_1st", "addr_2nd", "addr_3rd", "addr_4th"}
        /\ iostatus' = "ADDR"
        /\ UNCHANGED <<cmdstatus, address, pageoffset, readbuffer>>

\* nandflash_sb_doread: the page buffer is not loaded again at a page end.
doread ==
  \/ /\ address < DeviceSize
     /\ IOPIN' = IF mapped THEN flash[address] ELSE readbuffer[address % PageDump]
     /\ address' = address + 1 +
          (IF (address + 1) % PageDump = 0 /\ cmd = READOOB THEN PAGESIZE ELSE 0)
  \/ address >= DeviceSize /\ UNCHANGED <<IOPIN, address>>

\* nandflash_sb_doreadid: four bytes, one after the other.
NextId == [readID_1st |-> "readID_2nd", readID_2nd |-> "readID_3rd",
           readID_3rd |-> "readID_4th", readID_4th |-> "NOSTATUS"]
ID == [readID_1st |-> 236, readID_2nd |-> 118, readID_3rd |-> 165, readID_4th |-> 192]

doreadid ==
  /\ IOPIN' = ID[cmdstatus]
  /\ cmdstatus' = NextId[cmdstatus]
  /\ iostatus' = IF cmdstatus = "readID_4th" THEN "NONE" ELSE iostatus
-------------------------------------------------------------------------------
\* The controller's registers.  A chip that is not enabled latches nothing.

Latches == selected /\ ~overrun

\* nandflash_sb_setCE: raising the pin ends a read.
setCE(state) ==
  /\ iostatus' = IF state = "HIGH" /\ iostatus = "DATAREAD" THEN "NONE" ELSE iostatus
  /\ req' = IF state = "HIGH" /\ req.op = "read" THEN NoRequest ELSE req
  /\ UNCHANGED <<mapped, flash, cmd, cmdstatus, address, pageoffset, IOPIN, buffers, overrun>>

\* A controller that is not enabled pulls CE down and passes nothing on.
WriteNFCONF(enable, nFCE) ==
  /\ ~overrun
  /\ selected' = (enable /\ ~nFCE)
  /\ setCE(IF nFCE /\ enable THEN "HIGH" ELSE "LOW")

\* nandflash_s3c2410_reset, from io_reset when a debugger connects: the chip
\* itself is not reset.
Reset == ~overrun /\ selected' = FALSE /\ setCE("HIGH")

WriteNFCMD(b) ==
  /\ Latches
  /\ docmd(b)
  /\ IOPIN' = IF b = RESET THEN 0 ELSE b
  /\ req' = AskCommand(b)
  /\ UNCHANGED <<mapped, selected>>

WriteNFADDR(b) ==
  /\ Latches
  /\ doaddr(b)
  /\ IOPIN' = b
  /\ req' = AskAddress(b)
  /\ UNCHANGED <<mapped, selected>>

\* The rising edge of WE latches the byte as the state says.
WriteNFDATA(b) ==
  /\ Latches
  /\ \/ iostatus = "CMD" /\ docmd(b)
     \/ iostatus = "ADDR" /\ doaddr(b)
     \/ iostatus = "DATAWRITE" /\ dodatawrite(b)
     \/ /\ iostatus \notin {"CMD", "ADDR", "DATAWRITE"}
        /\ UNCHANGED <<flash, latch, buffers, overrun>>
  /\ IOPIN' = IF iostatus = "CMD" /\ b = RESET THEN 0 ELSE b
  /\ req' = AskData(b)
  /\ UNCHANGED <<mapped, selected>>

\* The falling edge of RE fetches a byte, or leaves the pins alone.
ReadNFDATA ==
  /\ Latches
  /\ \/ iostatus = "DATAREAD" /\ doread /\ UNCHANGED <<iostatus, cmdstatus>>
     \/ iostatus = "IDREAD" /\ doreadid /\ UNCHANGED address
     \/ /\ iostatus = "STATUSREAD"
        /\ IOPIN' = 192 /\ iostatus' = "NONE" /\ UNCHANGED <<cmdstatus, address>>
     \/ /\ iostatus \notin {"DATAREAD", "IDREAD", "STATUSREAD"}
        /\ UNCHANGED <<IOPIN, iostatus, cmdstatus, address>>
  /\ req' = AskRead
  /\ UNCHANGED <<mapped, flash, selected, cmd, pageoffset, buffers, overrun>>

AddressBytes == IF cmdstatus = "addr_1st" THEN Column
                ELSE IF cmdstatus = "addr_2nd" THEN Row ELSE {0}

Access ==
  \/ \E enable, nFCE \in BOOLEAN : WriteNFCONF(enable, nFCE)
  \/ \E b \in Commands \cup {Unknown} : WriteNFCMD(b)
  \/ \E b \in AddressBytes : WriteNFADDR(b)
  \/ \E b \in IF iostatus = "ADDR" THEN Data \cap AddressBytes ELSE Data : WriteNFDATA(b)
  \/ ReadNFDATA
  \/ Reset

Next ==
  /\ Access
  /\ stores' = IF flash' = flash THEN stores ELSE stores + 1
  /\ stores' <= MaxStores

Spec == Init /\ [][Next]_vars
-------------------------------------------------------------------------------
(***************************************************************************)
(* Whatever was done to the chip before, a request that is well formed is  *)
(* carried out to the byte: ERASE2 blanks the block asked for, PAGEPROG    *)
(* puts the data into the page and column asked for when that page is      *)
(* blank, and every other cell stays; in both builds.  (Without a pointer  *)
(* command SEQIN adds its column to where the last program ended, and over *)
(* a page that is not blank the builds differ.)                            *)
(***************************************************************************)
Erased ==
  [a \in Cells |-> IF a \div EraseSize = req.row \div PAGENUM THEN 255 ELSE flash[a]]

PageBlank == \A a \in Cells : InPage(a, req.row) => flash[a] = 255

Programmed ==
  [a \in Cells |->
     LET i == a - (req.row * PageDump + req.col) + 1
     IN  IF i \in DOMAIN req.data THEN req.data[i] ELSE flash[a]]

StoresAsAsked ==
  [][ /\ req.op = "program" /\ Complete /\ PageBlank /\ WriteNFCMD(PAGEPROG)
           => flash' = Programmed
      /\ req.op = "erase" /\ Complete /\ WriteNFCMD(ERASE2) => flash' = Erased
    ]_vars

(***************************************************************************)
(* A read that stays in the page it was asked to start in returns the      *)
(* bytes of the dump, in both builds: the page buffer is never older than  *)
(* the last program or erase.                                              *)
(***************************************************************************)
ReadsAsAsked == [][Reading /\ ReadNFDATA => IOPIN' = flash[Asked]]_vars

(***************************************************************************)
(* No byte of a request that stays in its page is stored outside of the    *)
(* page buffer or of the dump.                                             *)
(***************************************************************************)
RequestsStayInside ==
  [][ overrun' =>
        /\ req'.op = "none"
        /\ req.op = "none" \/ ~Complete \/ ~\E b \in {PAGEPROG, ERASE2} : WriteNFCMD(b)
    ]_vars
===============================================================================
