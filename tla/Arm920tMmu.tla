------------------------------ MODULE Arm920tMmu ------------------------------
(***************************************************************************)
(* The memory management unit of the ARM920T (arch_arm/common/mmu/         *)
(* arm920t_mmu.c): two TLBs (tlb.c), two write-back caches searched by     *)
(* virtual address (cache.c) and a write buffer (wb.c) between the         *)
(* program's accesses and the memory.                                      *)
(*                                                                         *)
(* A page has one cache line, of WORDS words, and a cache one set: lines   *)
(* of other sets never meet.  Accesses are of words and addresses are      *)
(* those after mmu_pid_va_map.  The translation table is the function that *)
(* its walk computes; domain_access_control is set up once, so an entry    *)
(* has the access to its domain in it.  The write buffer is always enabled *)
(* while the MMU is: arm920t_mmu_mcr sets its bit.                         *)
(***************************************************************************)
EXTENDS Integers, Sequences

CONSTANTS Page,          \* the virtual pages, and the physical ones with memory
          FlushPage,     \* a page of 0xe0000000 .. 0xe7ffffff, which has no memory
          WORDS,         \* words of a line (8)
          I_WAY, D_WAY,  \* lines of a set (64)
          TLBS,          \* entries of a TLB (64)
          WBS,           \* entries of the write buffer (8)
          Controls,      \* the values the program gives to the control register
          Entries,       \* the entries the program puts into its table, by virtual page
          Stores         \* bound: the stores it makes: virtual page, word and value

ASSUME MmuConstants == /\ {WORDS, I_WAY, D_WAY, TLBS, WBS} \subseteq Nat \ {0}
                       /\ 0 \in Page /\ FlushPage \notin Page

VARIABLES control,       \* the bits of CP15 register 1: "M" the MMU, "C" the D cache
          table,         \* the translation table, by virtual page
          itlb, dtlb, icache, dcache,
          wb,            \* the write buffer, the oldest entry first
          memory,        \* physical memory, by page and word
          view,          \* history: the word last stored at a physical address
          spoiled        \* history: words that the I cache has or had other data for,
                         \* which it writes back

vars == <<control, table, itlb, dtlb, icache, dcache, wb, memory, view, spoiled>>

Word == 0 .. WORDS - 1
Half(k) == IF k < WORDS \div 2 THEN "first" ELSE "last"
Zeroes == [k \in Word |-> 0]

\* A descriptor of kind 0, and an entry of the TLB with mapping TLB_INVALID.
NoEntry == [mapped |-> FALSE, pa |-> 0, c |-> FALSE, b |-> FALSE, ap |-> 0, access |-> 0]
Entry == [mapped : BOOLEAN, pa : Page \cup {FlushPage}, c : BOOLEAN, b : BOOLEAN,
          ap : 0 .. 3, access : 0 .. 3]
NoLine == [valid |-> FALSE, va |-> 0, pa |-> 0, dirty |-> {}, data |-> Zeroes]

\* The program maps pages to its memory or to the flush page, and stores to its pages.
ASSUME ProgramConstants ==
  /\ Entries \in [Page -> SUBSET Entry]
  /\ \A s \in Stores : s.va \in Page /\ s.k \in Word

NotInTlb == [va |-> 0, e |-> NoEntry]
EmptyTlb == [entrys |-> [i \in 0 .. TLBS - 1 |-> NotInTlb], cycle |-> 0]
EmptyCache(way) == [lines |-> [i \in 0 .. way - 1 |-> NoLine], cycle |-> 0]

\* mmu_reset.
Init ==
  /\ control = {}
  /\ table = [va \in Page |-> NoEntry]
  /\ itlb = EmptyTlb /\ dtlb = EmptyTlb
  /\ icache = EmptyCache(I_WAY) /\ dcache = EmptyCache(D_WAY)
  /\ wb = <<>>
  /\ memory = [p \in Page |-> Zeroes]
  /\ view = memory
  /\ spoiled = {}
-------------------------------------------------------------------------------
\* tlb.c

First(S) == CHOOSE i \in S : \A j \in S : i <= j
Last(S) == CHOOSE i \in S : \A j \in S : j <= i

\* The replacement counter after i.
Round(i, array) == IF i + 1 \in DOMAIN array THEN i + 1 ELSE 0

mmu_tlb_search(tlb, va) ==
  {i \in DOMAIN tlb.entrys : tlb.entrys[i].e.mapped /\ tlb.entrys[i].va = va}

\* The entry for va, NoEntry when its descriptor is a fault, and the TLB then.
translate(tlb, va) ==
  LET hits == mmu_tlb_search(tlb, va)
  IN  CASE hits # {} -> [e |-> tlb.entrys[First(hits)].e, tlb |-> tlb]
        [] hits = {} /\ ~table[va].mapped -> [e |-> NoEntry, tlb |-> tlb]
        [] OTHER -> [e |-> table[va],
                     tlb |-> [entrys |-> [tlb.entrys EXCEPT ![tlb.cycle] =
                                            [va |-> va, e |-> table[va]]],
                              cycle |-> Round(tlb.cycle, tlb.entrys)]]

\* check_perms with the S and R bits clear.
check_perms(ap, read, user) ==
  ap = 3 \/ (ap = 2 /\ read) \/ (ap \in {1, 2} /\ ~user)

\* Translated and allowed.
check_access(e, read, user) ==
  e.mapped /\ (e.access = 3 \/ (e.access = 1 /\ check_perms(e.ap, read, user)))

\* Mutant: the entry stays in the TLB.
mmu_tlb_invalidate_entryNot(tlb, va) == tlb

mmu_tlb_invalidate_entry(tlb, va) ==
  [tlb EXCEPT !.entrys = [i \in DOMAIN @ |->
     IF i \in mmu_tlb_search(tlb, va) /\ i = First(mmu_tlb_search(tlb, va))
       THEN NotInTlb ELSE @[i]]]
-------------------------------------------------------------------------------
\* cache.c

mmu_cache_search(cache, va) ==
  {i \in DOMAIN cache.lines : cache.lines[i].valid /\ cache.lines[i].va = va}

\* Mutant: the halves of a line are mixed up.
mmu_cache_write_backOther(mem, cache, S) ==
  [p \in Page |-> [k \in Word |->
     LET dirty == {i \in S : /\ cache.lines[i].valid /\ cache.lines[i].pa = p
                             /\ cache.lines[i].dirty \ {Half(k)} # {}}
     IN  IF dirty = {} THEN mem[p][k] ELSE cache.lines[Last(dirty)].data[k]]]

\* The memory after mmu_cache_write_back of the lines S, one after the other: the
\* halves of them that are dirty.
mmu_cache_write_back(mem, cache, S) ==
  [p \in Page |-> [k \in Word |->
     LET dirty == {i \in S : /\ cache.lines[i].valid /\ cache.lines[i].pa = p
                             /\ Half(k) \in cache.lines[i].dirty}
     IN  IF dirty = {} THEN mem[p][k] ELSE cache.lines[Last(dirty)].data[k]]]

mmu_cache_clean(cache, S) ==
  [cache EXCEPT !.lines = [i \in DOMAIN @ |-> IF i \in S THEN [@[i] EXCEPT !.dirty = {}]
                                                         ELSE @[i]]]
mmu_cache_invalidate(cache, S) ==
  [cache EXCEPT !.lines = [i \in DOMAIN @ |-> IF i \in S THEN NoLine ELSE @[i]]]

\* mmu_cache_alloc: the cache with the line of va in it, read from memory mem.
Filled(mem, cache, va, pa) ==
  [lines |-> [cache.lines EXCEPT ![cache.cycle] =
     [valid |-> TRUE, va |-> va, pa |-> pa, dirty |-> {}, data |-> mem[pa]]],
   cycle |-> Round(cache.cycle, cache.lines)]

\* update_cache, for every line that a search finds.
StoredLine(l, k, v) == [l EXCEPT !.data[k] = v, !.dirty = @ \cup {Half(k)}]
update_cache(cache, va, k, v) ==
  [cache EXCEPT !.lines = [i \in DOMAIN @ |->
     IF i \in mmu_cache_search(cache, va) THEN StoredLine(@[i], k, v) ELSE @[i]]]
-------------------------------------------------------------------------------
\* wb.c

\* The memory after the entries buf have been written to it in their order.
Drained(mem, buf) ==
  [p \in Page |-> [k \in Word |->
     LET mine == {t \in DOMAIN buf : buf[t].pa = p /\ buf[t].k = k}
     IN  IF mine = {} THEN mem[p][k] ELSE buf[Last(mine)].v]]

mmu_wb_write_bytes(pa, k, v) ==
  LET new == [pa |-> pa, k |-> k, v |-> v]
  IN  IF Len(wb) = WBS
        THEN memory' = Drained(memory, <<Head(wb)>>) /\ wb' = Append(Tail(wb), new)
        ELSE UNCHANGED memory /\ wb' = Append(wb, new)

mmu_wb_drain_all == memory' = Drained(memory, wb) /\ wb' = <<>>
-------------------------------------------------------------------------------
\* The accesses of the program.

On == "M" \in control
Flat(va) == [mapped |-> TRUE, pa |-> va, c |-> TRUE, b |-> FALSE, ap |-> 3, access |-> 3]

\* Words of the I cache that differ from what was stored last and are dirty.
Wrong(cache, stored) ==
  {q \in Page \X Word : \E i \in DOMAIN cache.lines :
     LET l == cache.lines[i]
     IN  l.valid /\ l.pa = q[1] /\ Half(q[2]) \in l.dirty /\ l.data[q[2]] # stored[q[1]][q[2]]}

arm920t_mmu_load_instr(va, user) ==
  LET tr == IF On THEN translate(itlb, va) ELSE [e |-> Flat(va), tlb |-> itlb]
      written == mmu_cache_write_back(memory, icache, {icache.cycle})
  IN  /\ tr.e.pa # FlushPage
      /\ itlb' = tr.tlb
      /\ IF check_access(tr.e, TRUE, user) /\ mmu_cache_search(icache, va) = {} /\ tr.e.c
           THEN memory' = written /\ icache' = Filled(written, icache, va, tr.e.pa)
           ELSE UNCHANGED <<memory, icache>>
      /\ UNCHANGED <<control, table, dtlb, dcache, wb, view, spoiled>>

\* mmu_cache_soft_flush: a read of the flush page empties the line its address names.
SoftFlush(i) == /\ memory' = mmu_cache_write_back(memory, dcache, {i})
                /\ dcache' = mmu_cache_invalidate(dcache, {i})
                /\ UNCHANGED wb

\* Mutant: a line is filled without a look at the write buffer.
FillUndrained(va, e) ==
  LET written == mmu_cache_write_back(memory, dcache, {dcache.cycle})
  IN  IF e.c /\ "C" \in control
        THEN /\ memory' = written /\ dcache' = Filled(written, dcache, va, e.pa)
             /\ UNCHANGED wb
        ELSE UNCHANGED <<memory, dcache, wb>>

\* A read that misses the cache: the buffer is drained for a bufferable page, and
\* a cacheable page gets a line.
Fill(va, e) ==
  LET mem == IF e.b THEN Drained(memory, wb) ELSE memory
      written == mmu_cache_write_back(mem, dcache, {dcache.cycle})
  IN  /\ wb' = IF e.b THEN <<>> ELSE wb
      /\ IF e.c /\ "C" \in control
           THEN memory' = written /\ dcache' = Filled(written, dcache, va, e.pa)
           ELSE memory' = mem /\ UNCHANGED dcache

\* Without the MMU a read changes nothing.
arm920t_mmu_read(va, user) ==
  LET tr == translate(dtlb, va)
  IN  /\ On
      /\ dtlb' = tr.tlb
      /\ \/ /\ ~check_access(tr.e, TRUE, user) \/ mmu_cache_search(dcache, va) # {}
            /\ UNCHANGED <<memory, dcache, wb>>
         \/ /\ check_access(tr.e, TRUE, user) /\ mmu_cache_search(dcache, va) = {}
            /\ IF tr.e.pa # FlushPage THEN Fill(va, tr.e)
               ELSE IF tr.e.c THEN \E i \in DOMAIN dcache.lines : SoftFlush(i)
               ELSE UNCHANGED <<memory, dcache, wb>>
      /\ UNCHANGED <<control, table, itlb, icache, view, spoiled>>

\* What arm920t_mmu_read returns of the line of va, when it is allowed: from the flush
\* page nothing, which is no word of the program's.
ReadLine(va) ==
  LET e == translate(dtlb, va).e
      hits == mmu_cache_search(dcache, va)
  IN  CASE ~On           -> memory[va]
        [] On /\ hits # {} -> dcache.lines[First(hits)].data
        [] On /\ hits = {} /\ e.pa = FlushPage -> [k \in Word |-> -1]
        [] OTHER         -> IF e.b THEN Drained(memory, wb)[e.pa] ELSE memory[e.pa]

\* What arm920t_mmu_load_instr returns of it.
FetchLine(va) ==
  LET hits == mmu_cache_search(icache, va)
      e == translate(itlb, va).e
  IN  IF hits # {} THEN icache.lines[First(hits)].data
      ELSE memory[IF On THEN e.pa ELSE va]

\* The history of a store of v to word k of page p, and of one that faults.
Stored(p, k, v) == /\ view' = [view EXCEPT ![p][k] = v]
                   /\ spoiled' = (spoiled \ {<<p, k>>}) \cup Wrong(icache', view')
Refused == UNCHANGED view /\ spoiled' = spoiled \cup Wrong(icache', view)

\* A store that misses the D cache.
WriteMiss(e, k, v) ==
  IF e.b THEN mmu_wb_write_bytes(e.pa, k, v)
  ELSE memory' = [Drained(memory, wb) EXCEPT ![e.pa][k] = v] /\ wb' = <<>>

\* The line of the I cache is changed before anything is translated or checked.
arm920t_mmu_write(va, user, k, v) ==
  LET tr == IF On THEN translate(dtlb, va) ELSE [e |-> Flat(va), tlb |-> dtlb]
  IN  /\ tr.e.pa # FlushPage
      /\ icache' = update_cache(icache, va, k, v)
      /\ dtlb' = tr.tlb
      /\ \/ /\ ~On
            /\ memory' = [memory EXCEPT ![va][k] = v]
            /\ Stored(va, k, v)
            /\ UNCHANGED <<dcache, wb>>
         \/ /\ ~check_access(tr.e, FALSE, user)
            /\ Refused
            /\ UNCHANGED <<dcache, wb, memory>>
         \/ /\ On /\ check_access(tr.e, FALSE, user)
            /\ dcache' = update_cache(dcache, va, k, v)
            /\ IF mmu_cache_search(dcache, va) # {} THEN UNCHANGED <<memory, wb>>
               ELSE WriteMiss(tr.e, k, v)
            /\ Stored(tr.e.pa, k, v)
      /\ UNCHANGED <<control, table, itlb>>

\* A store to an unaligned address with the A bit set: a fault without translation.
WriteMisaligned(va, k, v) ==
  /\ On
  /\ icache' = update_cache(icache, va, k, v)
  /\ Refused
  /\ UNCHANGED <<control, table, itlb, dtlb, dcache, wb, memory>>
-------------------------------------------------------------------------------
\* arm920t_mmu_cache_ops and arm920t_mmu_tlb_ops.  An operation on an entry is on
\* the line of an address or, for the D cache, on a line by its index.

InvalidateI(S) == /\ memory' = mmu_cache_write_back(memory, icache, S)
                  /\ icache' = mmu_cache_invalidate(icache, S)
                  /\ UNCHANGED <<dcache, wb>>
InvalidateD(S) == /\ memory' = mmu_cache_write_back(memory, dcache, S)
                  /\ dcache' = mmu_cache_invalidate(dcache, S)
                  /\ UNCHANGED <<icache, wb>>
CleanD(S) == /\ memory' = mmu_cache_write_back(memory, dcache, S)
             /\ dcache' = mmu_cache_clean(dcache, S)
             /\ UNCHANGED <<icache, wb>>
InvalidateBoth ==
  LET mem == mmu_cache_write_back(memory, icache, DOMAIN icache.lines)
  IN  /\ memory' = mmu_cache_write_back(mem, dcache, DOMAIN dcache.lines)
      /\ icache' = mmu_cache_invalidate(icache, DOMAIN icache.lines)
      /\ dcache' = mmu_cache_invalidate(dcache, DOMAIN dcache.lines)
      /\ UNCHANGED wb

arm920t_mmu_cache_ops ==
  /\ \/ InvalidateBoth
     \/ InvalidateI(DOMAIN icache.lines)
     \/ InvalidateD(DOMAIN dcache.lines)
     \/ \E va \in Page : \/ InvalidateI(mmu_cache_search(icache, va))
                         \/ InvalidateD(mmu_cache_search(dcache, va))
                         \/ CleanD(mmu_cache_search(dcache, va))
     \/ \E i \in DOMAIN dcache.lines : CleanD({i}) \/ InvalidateD({i})
     \/ mmu_wb_drain_all /\ UNCHANGED <<icache, dcache>>
  /\ UNCHANGED <<control, table, itlb, dtlb, view, spoiled>>

\* mmu_tlb_invalidate_all is EmptyTlb.
arm920t_mmu_tlb_ops ==
  /\ \/ itlb' = EmptyTlb /\ dtlb' = EmptyTlb
     \/ itlb' = EmptyTlb /\ UNCHANGED dtlb
     \/ dtlb' = EmptyTlb /\ UNCHANGED itlb
     \/ \E va \in Page : \/ itlb' = mmu_tlb_invalidate_entry(itlb, va) /\ UNCHANGED dtlb
                         \/ dtlb' = mmu_tlb_invalidate_entry(dtlb, va) /\ UNCHANGED itlb
  /\ UNCHANGED <<control, table, icache, dcache, wb, memory, view, spoiled>>

\* The program maps a page: it empties the lines and drains the buffer, changes the
\* descriptor and then invalidates the page in both TLBs.  Two pages of it are never
\* the same memory.
Remap(va, e) ==
  LET i == mmu_cache_search(icache, va)
      d == mmu_cache_search(dcache, va)
      written == mmu_cache_write_back(mmu_cache_write_back(memory, icache, i), dcache, d)
  IN  /\ e # table[va]
      /\ \A other \in Page \ {va} : table[other].mapped => table[other].pa # e.pa
      /\ icache' = mmu_cache_invalidate(icache, i)
      /\ dcache' = mmu_cache_invalidate(dcache, d)
      /\ memory' = Drained(written, wb) /\ wb' = <<>>
      /\ table' = [table EXCEPT ![va] = e]
      /\ itlb' = mmu_tlb_invalidate_entry(itlb, va)
      /\ dtlb' = mmu_tlb_invalidate_entry(dtlb, va)
      /\ UNCHANGED <<control, view, spoiled>>

\* arm920t_mmu_mcr of the control register.  Before it changes the M bit the program
\* empties the caches and drains the buffer.
SetM == LET i == DOMAIN icache.lines
            d == DOMAIN dcache.lines
            mem == mmu_cache_write_back(memory, icache, i)
        IN  /\ memory' = Drained(mmu_cache_write_back(mem, dcache, d), wb) /\ wb' = <<>>
            /\ icache' = mmu_cache_invalidate(icache, i)
            /\ dcache' = mmu_cache_invalidate(dcache, d)
arm920t_mmu_mcr(value) ==
  /\ control' = value
  /\ \/ ("M" \in value) # On /\ SetM
     \/ ("M" \in value) = On /\ value # control /\ UNCHANGED <<memory, wb, icache, dcache>>
  /\ UNCHANGED <<table, itlb, dtlb, view, spoiled>>

\* mmu_reset, when a debugger connects: the lines and the buffer are freed as they are.
mmu_reset ==
  /\ control' = {}
  /\ itlb' = EmptyTlb /\ dtlb' = EmptyTlb
  /\ icache' = EmptyCache(I_WAY) /\ dcache' = EmptyCache(D_WAY)
  /\ wb' = <<>>
  /\ view' = memory /\ spoiled' = {}
  /\ UNCHANGED <<table, memory>>

Access(va, user) ==
  \/ arm920t_mmu_load_instr(va, user)
  \/ arm920t_mmu_read(va, user)
  \/ \E s \in Stores : s.va = va /\ arm920t_mmu_write(va, user, s.k, s.v)

Next ==
  \/ \E va \in Page, user \in BOOLEAN : Access(va, user)
  \/ \E s \in Stores : WriteMisaligned(s.va, s.k, s.v)
  \/ arm920t_mmu_cache_ops
  \/ arm920t_mmu_tlb_ops
  \/ \E va \in Page : \E e \in Entries[va] : Remap(va, e)
  \/ \E value \in Controls : arm920t_mmu_mcr(value)
  \/ mmu_reset

Spec == Init /\ [][Next]_vars
-------------------------------------------------------------------------------
\* The physical page of va, and whether the program has memory there.
PaOf(va) == IF On THEN table[va].pa ELSE va
HasMemory(va) == On => table[va].mapped /\ table[va].pa \in Page

\* A read returns the word that was stored last at the address: whichever of the D
\* cache, the write buffer and the memory has it, whatever was evicted, cleaned,
\* drained or remapped in between (arm920t_mmu_read).  But for words the I cache spoiled.
DataCurrent ==
  \A va \in Page, k \in Word :
    HasMemory(va) /\ <<PaOf(va), k>> \notin spoiled => ReadLine(va)[k] = view[PaOf(va)][k]

\* A word whose memory is behind is in a dirty half of its line in the D cache or in
\* the write buffer: no store is lost (mmu_cache_write_back, mmu_wb_write_bytes).
MemoryCurrent ==
  \A p \in Page, k \in Word :
    memory[p][k] # view[p][k] =>
      \/ <<p, k>> \in spoiled
      \/ \E i \in DOMAIN dcache.lines : LET l == dcache.lines[i]
                                       IN  l.valid /\ l.pa = p /\ Half(k) \in l.dirty
      \/ \E t \in DOMAIN wb : wb[t].pa = p /\ wb[t].k = k

\* After the program cleaned its data, drained the buffer and invalidated the line of
\* the I cache, it fetches what it stored: the sequence it uses for code it loaded
\* (arm920t_mmu_load_instr).
FetchCurrent ==
  \A va \in Page, k \in Word :
    LET p == PaOf(va)
    IN  /\ HasMemory(va) /\ <<p, k>> \notin spoiled
        /\ mmu_cache_search(icache, va) = {}
        /\ \A i \in mmu_cache_search(dcache, va) : dcache.lines[i].dirty = {}
        /\ \A t \in DOMAIN wb : wb[t].pa # p
        => FetchLine(va)[k] = view[p][k]
===============================================================================
