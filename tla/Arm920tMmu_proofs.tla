-------------------------- MODULE Arm920tMmu_proofs --------------------------
(***************************************************************************)
(* No store of the program is lost or seen too late, for every number of   *)
(* pages, words of a line, lines of a cache, entries of the TLBs and of    *)
(* the write buffer, every translation table and every order of accesses   *)
(* and CP15 operations.                                                    *)
(***************************************************************************)
EXTENDS Arm920tMmu, WellFoundedInduction, SequenceTheorems, TLAPS

Value == {0} \cup {s.v : s \in Stores}
Memories == [Page -> [Word -> Value]]
LineTypes == [valid : BOOLEAN, va : Page, pa : Page, dirty : SUBSET {"first", "last"},
              data : [Word -> Value]]
Lines(way) == [0 .. way - 1 -> LineTypes]
Caches(way) == [lines : Lines(way), cycle : 0 .. way - 1]
Tlbs == [entrys : [0 .. TLBS - 1 -> [va : Page, e : Entry]], cycle : 0 .. TLBS - 1]
Buffered == [pa : Page, k : Word, v : Value]

\* The program maps no memory twice.
Mapping ==
  /\ table \in [Page -> Entry]
  /\ \A a, b \in Page : table[a].mapped /\ table[b].mapped /\ table[a].pa = table[b].pa => a = b

\* An entry of a TLB is the one of the table, and the only one for its page.
TlbCurrent(tlb) ==
  /\ \A i \in 0 .. TLBS - 1 :
       tlb.entrys[i].e.mapped => tlb.entrys[i].e = table[tlb.entrys[i].va]
  /\ \A i, j \in 0 .. TLBS - 1 :
       tlb.entrys[i].e.mapped /\ tlb.entrys[j].e.mapped /\ tlb.entrys[i].va = tlb.entrys[j].va
         => i = j
TlbInv(tlb) == tlb \in Tlbs /\ TlbCurrent(tlb)

\* A line is of a page with memory, where the page is now, and the only one of it.
LinesMapped(lines) ==
  /\ \A i \in DOMAIN lines :
       lines[i].valid => HasMemory(lines[i].va) /\ lines[i].pa = PaOf(lines[i].va)
  /\ \A i, j \in DOMAIN lines :
       lines[i].valid /\ lines[j].valid /\ lines[i].va = lines[j].va => i = j

\* The D cache and the write buffer are empty without the MMU, the buffer has words of
\* bufferable pages only, and none of a page with a line in the D cache.
Has(lines, p) == \E i \in DOMAIN lines : lines[i].valid /\ lines[i].pa = p
Apart(lines, buf) == \A t \in 1 .. Len(buf) : ~Has(lines, buf[t].pa)
DataShape(mem, cache, buf) ==
  /\ mem \in Memories /\ cache \in Caches(D_WAY) /\ buf \in Seq(Buffered)
  /\ LinesMapped(cache.lines)
  /\ ~On => buf = <<>> /\ \A i \in 0 .. D_WAY - 1 : ~cache.lines[i].valid
  /\ \A t \in 1 .. Len(buf) :
       \E va \in Page : table[va].mapped /\ table[va].b /\ table[va].pa = buf[t].pa
  /\ Apart(cache.lines, buf)

\* x is word k of page p: the line of the page has it, and memory too unless that half
\* is dirty; without a line memory has it once the buffer is drained.
Good(mem, lines, buf, p, k, x) ==
  /\ \A i \in DOMAIN lines :
       lines[i].valid /\ lines[i].pa = p =>
         lines[i].data[k] = x /\ (Half(k) \notin lines[i].dirty => mem[p][k] = x)
  /\ ~Has(lines, p) => Drained(mem, buf)[p][k] = x

WordsCurrent(mem, cache, buf, stored, wrong) ==
  \A p \in Page, k \in Word :
    <<p, k>> \notin wrong => Good(mem, cache.lines, buf, p, k, stored[p][k])

\* What the I cache would write back is right, or known to be wrong.
InstrInv(cache) ==
  /\ cache \in Caches(I_WAY) /\ LinesMapped(cache.lines)
  /\ Wrong(cache, view) \subseteq spoiled

MmuInv ==
  /\ Mapping /\ view \in Memories
  /\ TlbInv(itlb) /\ TlbInv(dtlb)
  /\ InstrInv(icache)
  /\ DataShape(memory, dcache, wb)
  /\ WordsCurrent(memory, dcache, wb, view, spoiled)
-------------------------------------------------------------------------------
\* What the operations on a cache make of its lines.

LEMMA NoLineTyped == NoLine \in LineTypes /\ NoLine.valid = FALSE /\ Zeroes \in [Word -> Value]
<1>1. Zeroes \in [Word -> Value]
  BY DEF Zeroes, Value
<1> QED
  BY <1>1, MmuConstants DEF NoLine, LineTypes

LEMMA CacheFields ==
  ASSUME NEW way, NEW cache \in Caches(way)
  PROVE  /\ cache.lines \in Lines(way) /\ DOMAIN cache.lines = 0 .. way - 1
         /\ cache.cycle \in 0 .. way - 1
         /\ cache = [lines |-> cache.lines, cycle |-> cache.cycle]
BY DEF Caches, Lines

LEMMA MakeCache ==
  ASSUME NEW way, NEW lines \in Lines(way), NEW cycle \in 0 .. way - 1
  PROVE  [lines |-> lines, cycle |-> cycle] \in Caches(way)
BY DEF Caches

LEMMA ReplaceLines ==
  ASSUME NEW way, NEW cache \in Caches(way), NEW new \in Lines(way)
  PROVE  /\ [cache EXCEPT !.lines = new] \in Caches(way)
         /\ [cache EXCEPT !.lines = new].lines = new
BY DEF Caches

LEMMA InvalidateIs ==
  ASSUME NEW way, NEW cache \in Caches(way), NEW S
  PROVE  /\ mmu_cache_invalidate(cache, S) \in Caches(way)
         /\ mmu_cache_invalidate(cache, S).lines =
              [i \in 0 .. way - 1 |-> IF i \in S THEN NoLine ELSE cache.lines[i]]
<1>1. DOMAIN cache.lines = 0 .. way - 1 /\ cache.lines \in Lines(way)
  BY CacheFields
<1>2. PICK new : new = [i \in 0 .. way - 1 |-> IF i \in S THEN NoLine ELSE cache.lines[i]]
  OBVIOUS
<1>3. new \in Lines(way)
  BY <1>1, <1>2, NoLineTyped DEF Lines
<1>4. mmu_cache_invalidate(cache, S) = [cache EXCEPT !.lines = new]
  BY <1>1, <1>2 DEF mmu_cache_invalidate
<1>5. mmu_cache_invalidate(cache, S) \in Caches(way) /\ mmu_cache_invalidate(cache, S).lines = new
  <2>1. /\ [cache EXCEPT !.lines = new] \in Caches(way)
        /\ [cache EXCEPT !.lines = new].lines = new
    BY <1>3, ReplaceLines
  <2> QED
    BY <1>4, <2>1, Zenon
<1> QED
  BY <1>2, <1>5, Zenon

LEMMA CleanIs ==
  ASSUME NEW way, NEW cache \in Caches(way), NEW S
  PROVE  /\ mmu_cache_clean(cache, S) \in Caches(way)
         /\ mmu_cache_clean(cache, S).lines =
              [i \in 0 .. way - 1 |-> IF i \in S THEN [cache.lines[i] EXCEPT !.dirty = {}]
                                                ELSE cache.lines[i]]
<1>1. DOMAIN cache.lines = 0 .. way - 1 /\ cache.lines \in Lines(way)
  BY CacheFields
<1>2. PICK new : new = [i \in 0 .. way - 1 |-> IF i \in S THEN [cache.lines[i] EXCEPT !.dirty = {}]
                                                      ELSE cache.lines[i]]
  OBVIOUS
<1>3. new \in Lines(way)
  BY <1>1, <1>2 DEF Lines, LineTypes
<1>4. mmu_cache_clean(cache, S) = [cache EXCEPT !.lines = new]
  BY <1>1, <1>2 DEF mmu_cache_clean
<1>5. mmu_cache_clean(cache, S) \in Caches(way) /\ mmu_cache_clean(cache, S).lines = new
  <2>1. /\ [cache EXCEPT !.lines = new] \in Caches(way)
        /\ [cache EXCEPT !.lines = new].lines = new
    BY <1>3, ReplaceLines
  <2> QED
    BY <1>4, <2>1, Zenon
<1> QED
  BY <1>2, <1>5, Zenon

NewLine(va, pa, data) == [valid |-> TRUE, va |-> va, pa |-> pa, dirty |-> {}, data |-> data]

LEMMA FilledIs ==
  ASSUME NEW way \in Nat \ {0}, NEW cache \in Caches(way), NEW mem \in Memories,
         NEW va \in Page, NEW pa \in Page
  PROVE  /\ Filled(mem, cache, va, pa) \in Caches(way)
         /\ Filled(mem, cache, va, pa).lines =
              [cache.lines EXCEPT ![cache.cycle] = NewLine(va, pa, mem[pa])]
<1>1. PICK ls \in Lines(way), cy \in 0 .. way - 1 : cache = [lines |-> ls, cycle |-> cy]
  BY CacheFields
<1>2. DOMAIN ls = 0 .. way - 1
  BY DEF Lines
<1>3. NewLine(va, pa, mem[pa]) \in LineTypes
  BY DEF NewLine, LineTypes, Memories
<1>4. PICK new : new = [ls EXCEPT ![cy] = NewLine(va, pa, mem[pa])]
  OBVIOUS
<1>5. new \in Lines(way)
  BY <1>3, <1>4 DEF Lines
<1>6. Round(cy, ls) \in 0 .. way - 1
  BY <1>2 DEF Round
<1>7. cache.lines = ls /\ cache.cycle = cy
  BY <1>1
<1>8. Filled(mem, cache, va, pa) = [lines |-> new, cycle |-> Round(cy, ls)]
  BY <1>4, <1>7, Zenon DEF Filled, NewLine
<1>9. [lines |-> new, cycle |-> Round(cy, ls)].lines = new
  OBVIOUS
<1>10. [lines |-> new, cycle |-> Round(cy, ls)] \in Caches(way)
  BY <1>5, <1>6, MakeCache
<1> QED
  BY <1>4, <1>7, <1>8, <1>9, <1>10, Zenon

\* A line with word k stored in it.
LEMMA StoredLineIs ==
  ASSUME NEW l \in LineTypes, NEW k \in Word, NEW v \in Value
  PROVE  /\ StoredLine(l, k, v) \in LineTypes
         /\ StoredLine(l, k, v).valid = l.valid
         /\ StoredLine(l, k, v).va = l.va /\ StoredLine(l, k, v).pa = l.pa
         /\ StoredLine(l, k, v).dirty = l.dirty \cup {Half(k)}
         /\ StoredLine(l, k, v).data = [l.data EXCEPT ![k] = v]
<1>1. Half(k) \in {"first", "last"}
  BY DEF Half
<1>2. /\ l.dirty \cup {Half(k)} \in SUBSET {"first", "last"}
      /\ [l.data EXCEPT ![k] = v] \in [Word -> Value]
  BY <1>1 DEF LineTypes
<1> QED
  BY <1>2 DEF StoredLine, LineTypes

LEMMA UpdateIs ==
  ASSUME NEW way, NEW cache \in Caches(way), NEW va, NEW k \in Word, NEW v \in Value
  PROVE  /\ update_cache(cache, va, k, v) \in Caches(way)
         /\ update_cache(cache, va, k, v).lines =
              [i \in 0 .. way - 1 |->
                 IF i \in mmu_cache_search(cache, va) THEN StoredLine(cache.lines[i], k, v)
                                                      ELSE cache.lines[i]]
<1>1. DOMAIN cache.lines = 0 .. way - 1 /\ cache.lines \in Lines(way)
  BY CacheFields
<1>2. PICK new : new = [i \in 0 .. way - 1 |-> IF i \in mmu_cache_search(cache, va)
                                       THEN StoredLine(cache.lines[i], k, v)
                                       ELSE cache.lines[i]]
  OBVIOUS
<1>3. new \in Lines(way)
  BY <1>1, <1>2, StoredLineIs DEF Lines
<1>4. update_cache(cache, va, k, v) = [cache EXCEPT !.lines = new]
  <2>1. update_cache(cache, va, k, v) =
          [cache EXCEPT !.lines = [i \in DOMAIN cache.lines |->
             IF i \in mmu_cache_search(cache, va) THEN StoredLine(cache.lines[i], k, v)
                                                  ELSE cache.lines[i]]]
    BY Zenon DEF update_cache
  <2> QED
    BY <1>1, <1>2, <2>1, Zenon
<1>5. update_cache(cache, va, k, v) \in Caches(way) /\ update_cache(cache, va, k, v).lines = new
  <2>1. /\ [cache EXCEPT !.lines = new] \in Caches(way)
        /\ [cache EXCEPT !.lines = new].lines = new
    BY <1>3, ReplaceLines
  <2> QED
    BY <1>4, <2>1, Zenon
<1> QED
  BY <1>2, <1>5, Zenon
-------------------------------------------------------------------------------
\* What they make of memory.

UniquePa(lines) ==
  \A i, j \in DOMAIN lines :
    lines[i].valid /\ lines[j].valid /\ lines[i].pa = lines[j].pa => i = j

\* The lines of S that write word k of page p back.
Writers(lines, S, p, k) ==
  {i \in S : lines[i].valid /\ lines[i].pa = p /\ Half(k) \in lines[i].dirty}

LEMMA WriteBackIs ==
  ASSUME NEW mem, NEW cache, NEW S, NEW p \in Page, NEW k \in Word
  PROVE  mmu_cache_write_back(mem, cache, S)[p][k] =
           IF Writers(cache.lines, S, p, k) = {} THEN mem[p][k]
           ELSE cache.lines[Last(Writers(cache.lines, S, p, k))].data[k]
BY DEF mmu_cache_write_back, Writers

LEMMA LastOfOne == ASSUME NEW i \in Int PROVE Last({i}) = i
BY DEF Last

LEMMA WritesBack ==
  ASSUME NEW way, NEW cache \in Caches(way), UniquePa(cache.lines), NEW S \in SUBSET (0 .. way - 1),
         NEW mem, NEW p \in Page, NEW k \in Word,
         NEW i \in S, cache.lines[i].valid, cache.lines[i].pa = p, Half(k) \in cache.lines[i].dirty
  PROVE  mmu_cache_write_back(mem, cache, S)[p][k] = cache.lines[i].data[k]
<1>1. DOMAIN cache.lines = 0 .. way - 1
  BY CacheFields
<1>2. PICK ls : ls = cache.lines
  OBVIOUS
<1>3. Writers(ls, S, p, k) = {i}
  BY <1>1, <1>2 DEF Writers, UniquePa
<1>4. Last(Writers(ls, S, p, k)) = i
  BY <1>3, LastOfOne
<1>5. PICK W : W = Writers(ls, S, p, k)
  OBVIOUS
<1>6. PICK x, y, z : /\ x = mmu_cache_write_back(mem, cache, S)[p][k] /\ y = mem[p][k]
                     /\ z = ls[Last(W)].data[k]
  OBVIOUS
<1>7. x = IF W = {} THEN y ELSE z
  BY <1>2, <1>5, <1>6, WriteBackIs
<1>8. W # {} /\ z = ls[i].data[k]
  BY <1>3, <1>4, <1>5, <1>6
<1> QED
  BY <1>2, <1>6, <1>7, <1>8

LEMMA LeavesAlone ==
  ASSUME NEW mem, NEW cache, NEW S, NEW p \in Page, NEW k \in Word,
         Writers(cache.lines, S, p, k) = {}
  PROVE  mmu_cache_write_back(mem, cache, S)[p][k] = mem[p][k]
<1>1. PICK W : W = Writers(cache.lines, S, p, k)
  OBVIOUS
<1>2. PICK x, y, z : /\ x = mmu_cache_write_back(mem, cache, S)[p][k] /\ y = mem[p][k]
                     /\ z = cache.lines[Last(W)].data[k]
  OBVIOUS
<1>3. x = IF W = {} THEN y ELSE z
  BY <1>1, <1>2, WriteBackIs
<1> QED
  BY <1>1, <1>2, <1>3

LEMMA WriteBackTyped ==
  ASSUME NEW way, NEW cache \in Caches(way), UniquePa(cache.lines), NEW S \in SUBSET (0 .. way - 1),
         NEW mem \in Memories
  PROVE  mmu_cache_write_back(mem, cache, S) \in Memories
<1>1. PICK new : new = mmu_cache_write_back(mem, cache, S)
  OBVIOUS
<1>2. new = [p \in Page |-> [k \in Word |-> new[p][k]]]
  BY <1>1 DEF mmu_cache_write_back
<1>3. ASSUME NEW p \in Page, NEW k \in Word PROVE new[p][k] \in Value
  <2>1. CASE Writers(cache.lines, S, p, k) = {}
    <3>1. new[p][k] = mem[p][k]
      BY <1>1, <2>1, LeavesAlone
    <3> QED
      BY <3>1 DEF Memories
  <2>2. ASSUME NEW i \in Writers(cache.lines, S, p, k) PROVE new[p][k] \in Value
    <3>1. i \in S /\ cache.lines[i].valid /\ cache.lines[i].pa = p /\ Half(k) \in cache.lines[i].dirty
      BY <2>2 DEF Writers
    <3>2. new[p][k] = cache.lines[i].data[k]
      BY <1>1, <3>1, WritesBack
    <3>3. cache.lines[i] \in LineTypes
      BY <3>1, CacheFields DEF Lines
    <3>4. cache.lines[i].data \in [Word -> Value]
      BY <3>3 DEF LineTypes
    <3> QED
      BY <3>2, <3>4
  <2> QED
    BY <2>1, <2>2
<1>4. [p \in Page |-> [k \in Word |-> new[p][k]]] \in Memories
  BY <1>3 DEF Memories
<1> QED
  BY <1>1, <1>2, <1>4

\* The write buffer.
LEMMA GreatestPlace ==
  ASSUME NEW n \in Nat, NEW S, S \subseteq 1 .. n, S # {}
  PROVE  Last(S) \in S /\ \A j \in S : j <= Last(S)
<1> DEFINE T == {n - j : j \in S}
<1>1. T \subseteq Nat /\ T # {}
  OBVIOUS
<1>2. PICK m \in T : \A t \in T : ~ (<<t, m>> \in OpToRel(<, Nat))
  <2> HIDE DEF T
  <2> QED
    BY <1>1, NatLessThanWellFounded, WFMin, Zenon
<1>3. PICK i \in S : m = n - i
  BY <1>2
<1>4. \A j \in S : j <= i
  <2> SUFFICES ASSUME NEW j \in S PROVE j <= i
    OBVIOUS
  <2>1. n - j \in T /\ n - j \in Nat /\ m \in Nat
    BY <1>1, <1>2
  <2>2. ~(n - j < m)
    <3> HIDE DEF T
    <3> QED
      BY <1>2, <2>1 DEF OpToRel
  <2> QED
    BY <1>3, <2>1, <2>2
<1> QED
  BY <1>3, <1>4 DEF Last

\* The entries for word k of page p.
Mine(buf, p, k) == {t \in DOMAIN buf : buf[t].pa = p /\ buf[t].k = k}

LEMMA DrainedIs ==
  ASSUME NEW mem, NEW buf, NEW p \in Page, NEW k \in Word
  PROVE  Drained(mem, buf)[p][k] =
           IF Mine(buf, p, k) = {} THEN mem[p][k] ELSE buf[Last(Mine(buf, p, k))].v
BY DEF Drained, Mine

LEMMA DrainedNone ==
  ASSUME NEW mem, NEW buf, NEW p \in Page, NEW k \in Word, Mine(buf, p, k) = {}
  PROVE  Drained(mem, buf)[p][k] = mem[p][k]
BY DrainedIs, Zenon

\* The last one wins.
LEMMA DrainedLast ==
  ASSUME NEW buf \in Seq(Buffered), NEW mem, NEW p \in Page, NEW k \in Word,
         NEW t \in 1 .. Len(buf), buf[t].pa = p, buf[t].k = k,
         \A u \in t + 1 .. Len(buf) : ~(buf[u].pa = p /\ buf[u].k = k)
  PROVE  Drained(mem, buf)[p][k] = buf[t].v
<1>1. Len(buf) \in Nat /\ DOMAIN buf = 1 .. Len(buf)
  BY LenProperties
<1>2. Mine(buf, p, k) \subseteq 1 .. Len(buf) /\ t \in Mine(buf, p, k)
  BY <1>1 DEF Mine
<1>3. PICK u : u = Last(Mine(buf, p, k))
  OBVIOUS
<1>4. u \in Mine(buf, p, k) /\ t <= u
  BY <1>1, <1>2, <1>3, GreatestPlace
<1>5. u = t
  <2>1. u \in 1 .. Len(buf) /\ buf[u].pa = p /\ buf[u].k = k
    BY <1>1, <1>4 DEF Mine
  <2> QED
    BY <1>1, <1>4, <2>1
<1>6. PICK M : M = Mine(buf, p, k)
  OBVIOUS
<1>7. PICK x, y, z : x = Drained(mem, buf)[p][k] /\ y = mem[p][k] /\ z = buf[Last(M)].v
  OBVIOUS
<1>8. x = IF M = {} THEN y ELSE z
  BY <1>6, <1>7, DrainedIs
<1>9. M # {} /\ z = buf[t].v
  BY <1>2, <1>3, <1>5, <1>6, <1>7
<1> QED
  BY <1>7, <1>8, <1>9

LEMMA LastEntry ==
  ASSUME NEW buf \in Seq(Buffered), NEW p \in Page, NEW k \in Word, Mine(buf, p, k) # {}
  PROVE  \E t \in 1 .. Len(buf) :
           /\ buf[t].pa = p /\ buf[t].k = k
           /\ \A u \in t + 1 .. Len(buf) : ~(buf[u].pa = p /\ buf[u].k = k)
<1>1. Len(buf) \in Nat /\ DOMAIN buf = 1 .. Len(buf)
  BY LenProperties
<1>2. Mine(buf, p, k) \subseteq 1 .. Len(buf)
  BY <1>1 DEF Mine
<1>3. PICK t : t = Last(Mine(buf, p, k))
  OBVIOUS
<1>4. t \in Mine(buf, p, k) /\ \A j \in Mine(buf, p, k) : j <= t
  BY <1>1, <1>2, <1>3, GreatestPlace
<1>5. t \in 1 .. Len(buf) /\ buf[t].pa = p /\ buf[t].k = k
  BY <1>1, <1>4 DEF Mine
<1>6. ASSUME NEW u \in t + 1 .. Len(buf), buf[u].pa = p, buf[u].k = k PROVE FALSE
  <2>1. u \in Mine(buf, p, k)
    BY <1>1, <1>5, <1>6 DEF Mine
  <2> QED
    BY <1>1, <1>4, <1>5, <2>1
<1> QED
  BY <1>5, <1>6

LEMMA DrainedTyped ==
  ASSUME NEW buf \in Seq(Buffered), NEW mem \in Memories
  PROVE  Drained(mem, buf) \in Memories
<1>1. PICK new : new = Drained(mem, buf)
  OBVIOUS
<1>2. new = [p \in Page |-> [k \in Word |-> new[p][k]]]
  BY <1>1 DEF Drained
<1>3. ASSUME NEW p \in Page, NEW k \in Word PROVE new[p][k] \in Value
  <2>1. CASE Mine(buf, p, k) = {}
    <3>1. new[p][k] = mem[p][k]
      BY <1>1, <2>1, DrainedNone
    <3> QED
      BY <3>1 DEF Memories
  <2>2. CASE Mine(buf, p, k) # {}
    <3>1. PICK t \in 1 .. Len(buf) :
            /\ buf[t].pa = p /\ buf[t].k = k
            /\ \A u \in t + 1 .. Len(buf) : ~(buf[u].pa = p /\ buf[u].k = k)
      BY <2>2, LastEntry
    <3>2. new[p][k] = buf[t].v
      BY <1>1, <3>1, DrainedLast
    <3>3. buf[t] \in Buffered
      BY <3>1
    <3> QED
      BY <3>2, <3>3 DEF Buffered
  <2> QED
    BY <2>1, <2>2
<1>4. [p \in Page |-> [k \in Word |-> new[p][k]]] \in Memories
  BY <1>3 DEF Memories
<1> QED
  BY <1>1, <1>2, <1>4

\* A new entry at the end of the buffer.
LEMMA DrainedAppend ==
  ASSUME NEW buf \in Seq(Buffered), NEW new \in Buffered, NEW mem, NEW p \in Page, NEW k \in Word
  PROVE  Drained(mem, Append(buf, new))[p][k] =
           IF new.pa = p /\ new.k = k THEN new.v ELSE Drained(mem, buf)[p][k]
<1>1. PICK n \in Nat : n = Len(buf)
  BY LenProperties
<1>2. PICK b \in Seq(Buffered) : b = Append(buf, new)
  BY AppendProperties
<1>3. Len(b) = n + 1 /\ b[n + 1] = new /\ \A t \in 1 .. n : b[t] = buf[t]
  BY <1>1, <1>2, AppendProperties
<1>4. CASE new.pa = p /\ new.k = k
  <2>1. Drained(mem, b)[p][k] = b[n + 1].v
    <3>1. n + 1 \in 1 .. Len(b) /\ (n + 1) + 1 .. Len(b) = {}
      BY <1>3
    <3> QED
      BY <1>3, <1>4, <3>1, DrainedLast
  <2> QED
    BY <1>2, <1>3, <1>4, <2>1
<1>5. CASE ~(new.pa = p /\ new.k = k) /\ Mine(buf, p, k) = {}
  <2>1. DOMAIN b = 1 .. n + 1 /\ DOMAIN buf = 1 .. n
    BY <1>1, <1>2, <1>3, LenProperties
  <2>2. ASSUME NEW t \in 1 .. n + 1, b[t].pa = p, b[t].k = k PROVE FALSE
    <3>1. t # n + 1
      BY <1>3, <1>5, <2>2
    <3>2. t \in 1 .. n
      BY <3>1
    <3> QED
      BY <1>3, <1>5, <2>1, <2>2, <3>2 DEF Mine
  <2>3. Mine(b, p, k) = {}
    BY <2>1, <2>2 DEF Mine
  <2> QED
    BY <1>2, <1>5, <2>3, DrainedNone
<1>6. CASE ~(new.pa = p /\ new.k = k) /\ Mine(buf, p, k) # {}
  <2>1. PICK t \in 1 .. Len(buf) :
          /\ buf[t].pa = p /\ buf[t].k = k
          /\ \A u \in t + 1 .. Len(buf) : ~(buf[u].pa = p /\ buf[u].k = k)
    BY <1>6, LastEntry
  <2>2. t \in 1 .. n /\ t \in 1 .. Len(b) /\ b[t] = buf[t]
    BY <1>1, <1>3, <2>1
  <2>3. ASSUME NEW u \in t + 1 .. Len(b) PROVE ~(b[u].pa = p /\ b[u].k = k)
    <3>1. CASE u = n + 1
      BY <1>3, <1>6, <3>1
    <3>2. CASE u # n + 1
      <4>1. u \in t + 1 .. n /\ u \in 1 .. n
        BY <1>3, <2>2, <2>3, <3>2
      <4> QED
        BY <1>1, <1>3, <2>1, <4>1
    <3> QED
      BY <3>1, <3>2
  <2>4. Drained(mem, b)[p][k] = b[t].v
    BY <2>1, <2>2, <2>3, DrainedLast
  <2>5. Drained(mem, buf)[p][k] = buf[t].v
    BY <2>1, DrainedLast
  <2> QED
    BY <1>2, <1>6, <2>2, <2>4, <2>5
<1> QED
  BY <1>4, <1>5, <1>6
-------------------------------------------------------------------------------
\* Where a word is, after each operation.

LEMMA DrainedSame ==
  ASSUME NEW buf \in Seq(Buffered), NEW mem, NEW mem2, NEW p \in Page, NEW k \in Word,
         mem2[p][k] = mem[p][k]
  PROVE  Drained(mem2, buf)[p][k] = Drained(mem, buf)[p][k]
<1>1. CASE Mine(buf, p, k) = {}
  BY <1>1, DrainedNone
<1>2. CASE Mine(buf, p, k) # {}
  <2>1. PICK t \in 1 .. Len(buf) :
          /\ buf[t].pa = p /\ buf[t].k = k
          /\ \A u \in t + 1 .. Len(buf) : ~(buf[u].pa = p /\ buf[u].k = k)
    BY <1>2, LastEntry
  <2>2. Drained(mem, buf)[p][k] = buf[t].v
    BY <2>1, DrainedLast
  <2>3. Drained(mem2, buf)[p][k] = buf[t].v
    BY <2>1, DrainedLast
  <2> QED
    BY <2>2, <2>3
<1> QED
  BY <1>1, <1>2

\* Memory may be brought up to date at any time: a write-back of the I cache.
LEMMA GoodMemory ==
  ASSUME NEW mem, NEW mem2, NEW lines, NEW buf \in Seq(Buffered), NEW p \in Page, NEW k \in Word,
         NEW x, Good(mem, lines, buf, p, k, x), mem2[p][k] \in {mem[p][k], x}
  PROVE  Good(mem2, lines, buf, p, k, x)
<1>1. ASSUME ~Has(lines, p) PROVE Drained(mem2, buf)[p][k] = x
  <2>1. Drained(mem, buf)[p][k] = x
    BY <1>1 DEF Good
  <2>2. CASE Mine(buf, p, k) = {}
    BY <2>1, <2>2, DrainedNone
  <2>3. CASE Mine(buf, p, k) # {}
    <3>1. PICK t \in 1 .. Len(buf) :
            /\ buf[t].pa = p /\ buf[t].k = k
            /\ \A u \in t + 1 .. Len(buf) : ~(buf[u].pa = p /\ buf[u].k = k)
      BY <2>3, LastEntry
    <3>2. Drained(mem, buf)[p][k] = buf[t].v
      BY <3>1, DrainedLast
    <3>3. Drained(mem2, buf)[p][k] = buf[t].v
      BY <3>1, DrainedLast
    <3> QED
      BY <2>1, <3>2, <3>3
  <2> QED
    BY <2>2, <2>3
<1> QED
  BY <1>1 DEF Good

\* A page with a line has nothing in the buffer.
LEMMA ApartMine ==
  ASSUME NEW lines, NEW buf \in Seq(Buffered), Apart(lines, buf), NEW p \in Page, NEW k \in Word,
         Has(lines, p)
  PROVE  Mine(buf, p, k) = {}
<1>1. DOMAIN buf = 1 .. Len(buf)
  BY LenProperties
<1> QED
  BY <1>1 DEF Apart, Mine

\* A clean half is not written back.
LEMMA NoWriters ==
  ASSUME NEW way, NEW cache \in Caches(way), UniquePa(cache.lines), NEW S \in SUBSET (0 .. way - 1),
         NEW p \in Page, NEW k \in Word,
         NEW i \in S, cache.lines[i].valid, cache.lines[i].pa = p, Half(k) \notin cache.lines[i].dirty
  PROVE  Writers(cache.lines, S, p, k) = {}
<1>1. i \in DOMAIN cache.lines /\ DOMAIN cache.lines = 0 .. way - 1
  BY CacheFields
<1> QED
  BY <1>1 DEF Writers, UniquePa

LEMMA GoodUnwritten ==
  ASSUME NEW way, NEW cache \in Caches(way), NEW S \in SUBSET (0 .. way - 1),
         NEW mem, NEW p \in Page, NEW k \in Word,
         \A i \in S : ~(cache.lines[i].valid /\ cache.lines[i].pa = p)
  PROVE  mmu_cache_write_back(mem, cache, S)[p][k] = mem[p][k]
<1>1. Writers(cache.lines, S, p, k) = {}
  BY DEF Writers
<1> QED
  BY <1>1, LeavesAlone

LEMMA GoodInvalidated ==
  ASSUME NEW way, NEW cache \in Caches(way), UniquePa(cache.lines), NEW S \in SUBSET (0 .. way - 1),
         NEW mem, NEW buf \in Seq(Buffered), Apart(cache.lines, buf),
         NEW p \in Page, NEW k \in Word, NEW x,
         Good(mem, cache.lines, buf, p, k, x)
  PROVE  Good(mmu_cache_write_back(mem, cache, S), mmu_cache_invalidate(cache, S).lines, buf, p, k, x)
<1>1. PICK ls : ls = cache.lines
  OBVIOUS
<1>2. PICK new : new = mmu_cache_invalidate(cache, S).lines
  OBVIOUS
<1>3. PICK mem2 : mem2 = mmu_cache_write_back(mem, cache, S)
  OBVIOUS
<1>4. /\ DOMAIN ls = 0 .. way - 1 /\ DOMAIN new = 0 .. way - 1
      /\ \A i \in 0 .. way - 1 : IF i \in S THEN ~new[i].valid ELSE new[i] = ls[i]
  <2>1. new = [i \in 0 .. way - 1 |-> IF i \in S THEN NoLine ELSE ls[i]]
    BY <1>1, <1>2, InvalidateIs
  <2> QED
    BY <1>1, <2>1, CacheFields, NoLineTyped
<1>5. CASE \A i \in S : ~(ls[i].valid /\ ls[i].pa = p)
  <2>1. mem2[p][k] = mem[p][k]
    BY <1>1, <1>3, <1>5, GoodUnwritten
  <2>2. Has(new, p) <=> Has(ls, p)
    BY <1>4, <1>5 DEF Has
  <2>3. ASSUME ~Has(new, p) PROVE Drained(mem2, buf)[p][k] = x
    <3>1. Drained(mem, buf)[p][k] = x
      BY <1>1, <2>2, <2>3 DEF Good
    <3> QED
      BY <2>1, <3>1, DrainedSame
  <2>4. ASSUME NEW i \in DOMAIN new, new[i].valid, new[i].pa = p
        PROVE  new[i].data[k] = x /\ (Half(k) \notin new[i].dirty => mem2[p][k] = x)
    BY <1>1, <1>4, <2>1, <2>4 DEF Good
  <2>5. Good(mem2, new, buf, p, k, x)
    BY <2>3, <2>4 DEF Good
  <2> QED
    BY <1>2, <1>3, <2>5
<1>6. ASSUME NEW i \in S, ls[i].valid, ls[i].pa = p
      PROVE  Good(mem2, new, buf, p, k, x)
  <2>1. mem2[p][k] = x
    <3>1. cache.lines[i].valid /\ cache.lines[i].pa = p
      BY <1>1, <1>6
    <3>2. /\ cache.lines[i].data[k] = x
          /\ Half(k) \notin cache.lines[i].dirty => mem[p][k] = cache.lines[i].data[k]
      BY <1>1, <1>4, <1>6, <3>1 DEF Good
    <3>3. CASE Half(k) \in cache.lines[i].dirty
      <4>1. mmu_cache_write_back(mem, cache, S)[p][k] = cache.lines[i].data[k]
        BY <3>1, <3>3, WritesBack
      <4> QED
        BY <1>3, <3>2, <4>1
    <3>4. CASE Half(k) \notin cache.lines[i].dirty
      <4>1. Writers(cache.lines, S, p, k) = {}
        BY <3>1, <3>4, NoWriters
      <4>2. mmu_cache_write_back(mem, cache, S)[p][k] = mem[p][k]
        BY <4>1, LeavesAlone
      <4> QED
        BY <1>3, <3>2, <3>4, <4>2
    <3> QED
      BY <3>3, <3>4
  <2>2. ~Has(new, p)
    BY <1>1, <1>4, <1>6 DEF Has, UniquePa
  <2>3. Has(ls, p)
    BY <1>4, <1>6 DEF Has
  <2>4. Mine(buf, p, k) = {}
    BY <1>1, <2>3, ApartMine
  <2>5. Drained(mem2, buf)[p][k] = x
    BY <2>1, <2>4, DrainedNone
  <2> QED
    BY <2>2, <2>5 DEF Good, Has
<1> QED
  BY <1>2, <1>3, <1>5, <1>6

LEMMA GoodCleaned ==
  ASSUME NEW way, NEW cache \in Caches(way), UniquePa(cache.lines), NEW S \in SUBSET (0 .. way - 1),
         NEW mem, NEW buf \in Seq(Buffered),
         NEW p \in Page, NEW k \in Word, NEW x,
         Good(mem, cache.lines, buf, p, k, x)
  PROVE  Good(mmu_cache_write_back(mem, cache, S), mmu_cache_clean(cache, S).lines, buf, p, k, x)
<1>1. PICK ls : ls = cache.lines
  OBVIOUS
<1>2. PICK new : new = mmu_cache_clean(cache, S).lines
  OBVIOUS
<1>3. PICK mem2 : mem2 = mmu_cache_write_back(mem, cache, S)
  OBVIOUS
<1>4. /\ DOMAIN ls = 0 .. way - 1 /\ DOMAIN new = 0 .. way - 1
      /\ \A i \in 0 .. way - 1 :
           /\ new[i].valid = ls[i].valid /\ new[i].pa = ls[i].pa /\ new[i].data = ls[i].data
           /\ i \notin S => new[i] = ls[i]
  <2>1. new = [i \in 0 .. way - 1 |-> IF i \in S THEN [ls[i] EXCEPT !.dirty = {}] ELSE ls[i]]
    BY <1>1, <1>2, CleanIs
  <2>2. DOMAIN ls = 0 .. way - 1 /\ DOMAIN new = 0 .. way - 1
    BY <1>1, <2>1, CacheFields
  <2>3. ASSUME NEW i \in 0 .. way - 1
        PROVE  /\ new[i].valid = ls[i].valid /\ new[i].pa = ls[i].pa /\ new[i].data = ls[i].data
               /\ i \notin S => new[i] = ls[i]
    <3>1. PICK l \in LineTypes : l = ls[i]
      BY <1>1, CacheFields DEF Lines
    <3>2. new[i] = IF i \in S THEN [l EXCEPT !.dirty = {}] ELSE l
      BY <2>1, <3>1
    <3> QED
      BY <3>1, <3>2 DEF LineTypes
  <2> QED
    BY <2>2, <2>3
<1>5. Has(new, p) <=> Has(ls, p)
  BY <1>4 DEF Has
<1>6. CASE \A i \in S : ~(ls[i].valid /\ ls[i].pa = p)
  <2>1. mem2[p][k] = mem[p][k]
    BY <1>1, <1>3, <1>6, GoodUnwritten
  <2>2. ASSUME ~Has(new, p) PROVE Drained(mem2, buf)[p][k] = x
    <3>1. Drained(mem, buf)[p][k] = x
      BY <1>1, <1>5, <2>2 DEF Good
    <3> QED
      BY <2>1, <3>1, DrainedSame
  <2>3. ASSUME NEW i \in DOMAIN new, new[i].valid, new[i].pa = p
        PROVE  new[i].data[k] = x /\ (Half(k) \notin new[i].dirty => mem2[p][k] = x)
    <3>1. i \in DOMAIN ls /\ ls[i].valid /\ ls[i].pa = p
      BY <1>4, <2>3
    <3>2. i \notin S /\ new[i] = ls[i]
      BY <1>4, <1>6, <3>1
    <3> QED
      BY <1>1, <2>1, <3>1, <3>2 DEF Good
  <2>4. Good(mem2, new, buf, p, k, x)
    BY <2>2, <2>3 DEF Good
  <2> QED
    BY <1>2, <1>3, <2>4
<1>7. ASSUME NEW i \in S, ls[i].valid, ls[i].pa = p
      PROVE  Good(mem2, new, buf, p, k, x)
  <2>1. mem2[p][k] = x
    <3>1. cache.lines[i].valid /\ cache.lines[i].pa = p
      BY <1>1, <1>7
    <3>2. /\ cache.lines[i].data[k] = x
          /\ Half(k) \notin cache.lines[i].dirty => mem[p][k] = cache.lines[i].data[k]
      BY <1>1, <1>4, <1>7, <3>1 DEF Good
    <3>3. CASE Half(k) \in cache.lines[i].dirty
      <4>1. mmu_cache_write_back(mem, cache, S)[p][k] = cache.lines[i].data[k]
        BY <3>1, <3>3, WritesBack
      <4> QED
        BY <1>3, <3>2, <4>1
    <3>4. CASE Half(k) \notin cache.lines[i].dirty
      <4>1. Writers(cache.lines, S, p, k) = {}
        BY <3>1, <3>4, NoWriters
      <4>2. mmu_cache_write_back(mem, cache, S)[p][k] = mem[p][k]
        BY <4>1, LeavesAlone
      <4> QED
        BY <1>3, <3>2, <3>4, <4>2
    <3> QED
      BY <3>3, <3>4
  <2>2. Has(new, p)
    BY <1>4, <1>5, <1>7 DEF Has
  <2>3. ASSUME NEW j \in DOMAIN new, new[j].valid, new[j].pa = p PROVE new[j].data[k] = x
    BY <1>1, <1>4, <2>3 DEF Good
  <2> QED
    BY <2>1, <2>2, <2>3 DEF Good
<1> QED
  BY <1>2, <1>3, <1>6, <1>7

\* The lines nl with one of page q in the slot c, whose line has gone.
FilledSlot(nl, c, q, data, new) ==
  /\ c \in DOMAIN nl /\ DOMAIN new = DOMAIN nl /\ ~nl[c].valid
  /\ \A i \in DOMAIN nl : i # c => new[i] = nl[i]
  /\ new[c].valid /\ new[c].pa = q /\ new[c].data = data
  /\ ~Has(nl, q)

\* A line is read from memory mem.
LEMMA GoodFilled ==
  ASSUME NEW nl, NEW c, NEW mem, NEW buf \in Seq(Buffered), NEW q, NEW new,
         FilledSlot(nl, c, q, mem[q], new),
         NEW p \in Page, NEW k \in Word, NEW x, p = q => Mine(buf, p, k) = {},
         Good(mem, nl, buf, p, k, x)
  PROVE  Good(mem, new, buf, p, k, x)
<1>1. c \in DOMAIN nl /\ DOMAIN new = DOMAIN nl /\ ~nl[c].valid /\ ~Has(nl, q)
  BY DEF FilledSlot
<1>2. /\ \A i \in DOMAIN nl : i # c => new[i] = nl[i]
      /\ new[c].valid /\ new[c].pa = q /\ new[c].data = mem[q]
  BY DEF FilledSlot
<1>3. CASE p = q
  <2>1. Drained(mem, buf)[p][k] = x
    BY <1>1, <1>3 DEF Good
  <2>2. mem[p][k] = x
    BY <1>3, <2>1, DrainedNone
  <2>3. Has(new, p)
    BY <1>1, <1>2, <1>3 DEF Has
  <2>4. ASSUME NEW i \in DOMAIN new, new[i].valid, new[i].pa = p
        PROVE  new[i].data[k] = x /\ mem[p][k] = x
    <3>1. i = c
      BY <1>1, <1>2, <1>3, <2>4 DEF Has
    <3> QED
      BY <1>2, <1>3, <2>2, <3>1
  <2> QED
    BY <2>3, <2>4 DEF Good
<1>4. CASE p # q
  <2>1. Has(new, p) <=> Has(nl, p)
    BY <1>1, <1>2, <1>4 DEF Has
  <2>2. ASSUME NEW i \in DOMAIN new, new[i].valid, new[i].pa = p
        PROVE  new[i].data[k] = x /\ (Half(k) \notin new[i].dirty => mem[p][k] = x)
    <3>1. i # c
      BY <1>2, <1>4, <2>2
    <3>2. i \in DOMAIN nl /\ new[i] = nl[i]
      BY <1>1, <1>2, <2>2, <3>1
    <3> QED
      BY <2>2, <3>2 DEF Good
  <2> QED
    BY <2>1, <2>2 DEF Good
<1> QED
  BY <1>3, <1>4

LEMMA EmptyMine == ASSUME NEW p, NEW k PROVE Mine(<<>>, p, k) = {}
BY DEF Mine

LEMMA DrainedEmpty ==
  ASSUME NEW mem, NEW p \in Page, NEW k \in Word
  PROVE  Drained(mem, <<>>)[p][k] = mem[p][k]
BY EmptyMine, DrainedNone, Zenon

LEMMA OneEntry ==
  ASSUME NEW h \in Buffered
  PROVE  \E one \in Seq(Buffered) : one = <<h>> /\ Len(one) = 1 /\ one[1] = h /\ DOMAIN one = 1 .. 1
<1>1. <<h>> \in Seq(Buffered) /\ Len(<<h>>) = 1 /\ <<h>>[1] = h
  OBVIOUS
<1>2. DOMAIN <<h>> = 1 .. 1
  BY <1>1, LenProperties
<1> QED
  BY <1>1, <1>2

\* The buffer is drained.
LEMMA GoodDrained ==
  ASSUME NEW lines, NEW buf \in Seq(Buffered), Apart(lines, buf), NEW mem,
         NEW p \in Page, NEW k \in Word, NEW x, Good(mem, lines, buf, p, k, x)
  PROVE  Good(Drained(mem, buf), lines, <<>>, p, k, x)
<1>1. PICK mem2 : mem2 = Drained(mem, buf)
  OBVIOUS
<1>2. Drained(mem2, <<>>)[p][k] = mem2[p][k]
  BY DrainedEmpty, Zenon
<1>3. CASE Has(lines, p)
  <2>1. Mine(buf, p, k) = {}
    BY <1>3, ApartMine
  <2>2. mem2[p][k] = mem[p][k]
    BY <1>1, <2>1, DrainedNone
  <2>3. Good(mem2, lines, <<>>, p, k, x)
    BY <1>3, <2>2 DEF Good
  <2> QED
    BY <1>1, <2>3
<1>4. CASE ~Has(lines, p)
  <2>1. mem2[p][k] = x
    BY <1>1, <1>4 DEF Good
  <2>2. Good(mem2, lines, <<>>, p, k, x)
    BY <1>2, <1>4, <2>1 DEF Good, Has
  <2> QED
    BY <1>1, <2>2
<1> QED
  BY <1>3, <1>4

\* A store into the lines of page q: to the word stored, and to another one.
LEMMA GoodStored ==
  ASSUME NEW way, NEW ls \in Lines(way), NEW q \in Page, NEW kk \in Word, NEW v \in Value,
         NEW new \in Lines(way),
         \A i \in 0 .. way - 1 : new[i] = IF ls[i].valid /\ ls[i].pa = q
                                            THEN StoredLine(ls[i], kk, v) ELSE ls[i],
         Has(ls, q), NEW mem, NEW buf,
         NEW p \in Page, NEW k \in Word, NEW x,
         IF p = q /\ k = kk THEN x = v ELSE Good(mem, ls, buf, p, k, x)
  PROVE  Good(mem, new, buf, p, k, x)
<1>1. DOMAIN ls = 0 .. way - 1 /\ DOMAIN new = 0 .. way - 1
  BY DEF Lines
<1>2. ASSUME NEW i \in 0 .. way - 1
      PROVE  /\ new[i].valid = ls[i].valid /\ new[i].pa = ls[i].pa
             /\ ls[i].valid /\ ls[i].pa = q => /\ new[i].data = [ls[i].data EXCEPT ![kk] = v]
                                               /\ new[i].dirty = ls[i].dirty \cup {Half(kk)}
             /\ ~(ls[i].valid /\ ls[i].pa = q) => new[i] = ls[i]
             /\ ls[i].data \in [Word -> Value]
  <2>1. ls[i] \in LineTypes
    BY DEF Lines
  <2>2. PICK l \in LineTypes : l = ls[i]
    BY <2>1
  <2>3. l.data \in [Word -> Value]
    BY DEF LineTypes
  <2>4. CASE l.valid /\ l.pa = q
    <3>1. PICK m : m = StoredLine(l, kk, v)
      OBVIOUS
    <3>2. /\ m.valid = l.valid /\ m.pa = l.pa /\ m.dirty = l.dirty \cup {Half(kk)}
          /\ m.data = [l.data EXCEPT ![kk] = v]
      BY <3>1, StoredLineIs
    <3>3. new[i] = m
      BY <2>2, <2>4, <3>1
    <3> QED
      BY <2>2, <2>3, <2>4, <3>2, <3>3
  <2>5. CASE ~(l.valid /\ l.pa = q)
    BY <2>2, <2>3, <2>5
  <2> QED
    BY <2>4, <2>5
<1>3. Has(new, p) <=> Has(ls, p)
  BY <1>1, <1>2 DEF Has
<1>4. CASE p = q /\ k = kk
  <2>1. ASSUME NEW i \in DOMAIN new, new[i].valid, new[i].pa = p
        PROVE  new[i].data[k] = x /\ Half(k) \in new[i].dirty
    <3>1. /\ ls[i].valid /\ ls[i].pa = q /\ new[i].data = [ls[i].data EXCEPT ![kk] = v]
          /\ new[i].dirty = ls[i].dirty \cup {Half(kk)} /\ ls[i].data \in [Word -> Value]
      BY <1>1, <1>2, <1>4, <2>1
    <3> QED
      BY <1>4, <3>1
  <2> QED
    BY <1>3, <1>4, <2>1 DEF Good
<1>5. CASE ~(p = q /\ k = kk)
  <2>1. Good(mem, ls, buf, p, k, x)
    BY <1>5
  <2>2. ASSUME NEW i \in DOMAIN new, new[i].valid, new[i].pa = p
        PROVE  new[i].data[k] = x /\ (Half(k) \notin new[i].dirty => mem[p][k] = x)
    <3>1. /\ i \in DOMAIN ls /\ ls[i].valid /\ ls[i].pa = p
      BY <1>1, <1>2, <2>2
    <3>2. ls[i].data[k] = x /\ (Half(k) \notin ls[i].dirty => mem[p][k] = x)
      BY <2>1, <3>1 DEF Good
    <3>3. CASE p = q
      <4>1. /\ new[i].data = [ls[i].data EXCEPT ![kk] = v]
            /\ new[i].dirty = ls[i].dirty \cup {Half(kk)} /\ ls[i].data \in [Word -> Value]
        BY <1>1, <1>2, <3>1, <3>3
      <4> QED
        BY <1>5, <3>2, <3>3, <4>1
    <3>4. CASE p # q
      BY <1>1, <1>2, <3>1, <3>2, <3>4
    <3> QED
      BY <3>3, <3>4
  <2> QED
    BY <1>3, <2>1, <2>2 DEF Good
<1> QED
  BY <1>4, <1>5

\* A store goes into the buffer.
LEMMA GoodAppended ==
  ASSUME NEW lines, NEW buf \in Seq(Buffered), NEW new \in Buffered, ~Has(lines, new.pa), NEW mem,
         NEW p \in Page, NEW k \in Word, NEW x,
         IF new.pa = p /\ new.k = k THEN x = new.v ELSE Good(mem, lines, buf, p, k, x)
  PROVE  Good(mem, lines, Append(buf, new), p, k, x)
<1>1. CASE new.pa = p /\ new.k = k
  <2>1. Drained(mem, Append(buf, new))[p][k] = x
    BY <1>1, DrainedAppend
  <2> QED
    BY <1>1, <2>1 DEF Good, Has
<1>2. CASE ~(new.pa = p /\ new.k = k)
  <2>1. Drained(mem, Append(buf, new))[p][k] = Drained(mem, buf)[p][k]
    BY <1>2, DrainedAppend
  <2>2. Good(mem, lines, buf, p, k, x)
    BY <1>2
  <2> QED
    BY <2>1, <2>2 DEF Good
<1> QED
  BY <1>1, <1>2

\* The oldest entry is written when the buffer is full.
LEMMA DrainedHead ==
  ASSUME NEW buf \in Seq(Buffered), buf # <<>>, NEW mem, NEW p \in Page, NEW k \in Word
  PROVE  Drained(Drained(mem, <<Head(buf)>>), Tail(buf))[p][k] = Drained(mem, buf)[p][k]
<1>1. PICK n \in Nat \ {0} : n = Len(buf)
  BY LenProperties, EmptySeq
<1>2. PICK h \in Buffered : h = buf[1] /\ h = Head(buf)
  BY HeadTailProperties
<1>3. PICK rest \in Seq(Buffered) : rest = Tail(buf)
  BY HeadTailProperties
<1>4. Len(rest) = n - 1 /\ \A t \in 1 .. n - 1 : rest[t] = buf[t + 1]
  BY <1>1, <1>3, HeadTailProperties
<1>5. DOMAIN buf = 1 .. n /\ DOMAIN rest = 1 .. n - 1
  BY <1>1, <1>4, LenProperties
<1>6. PICK one \in Seq(Buffered) : one = <<h>> /\ Len(one) = 1 /\ one[1] = h /\ DOMAIN one = 1 .. 1
  BY OneEntry
<1>7. PICK mem2 : mem2 = Drained(mem, one)
  OBVIOUS
<1>8. CASE Mine(rest, p, k) # {}
  <2>1. PICK t \in 1 .. Len(rest) :
          /\ rest[t].pa = p /\ rest[t].k = k
          /\ \A u \in t + 1 .. Len(rest) : ~(rest[u].pa = p /\ rest[u].k = k)
    BY <1>8, LastEntry
  <2>2. Drained(mem2, rest)[p][k] = rest[t].v
    BY <2>1, DrainedLast
  <2>3. t + 1 \in 1 .. Len(buf) /\ buf[t + 1] = rest[t]
    BY <1>1, <1>4
  <2>4. ASSUME NEW u \in (t + 1) + 1 .. Len(buf) PROVE ~(buf[u].pa = p /\ buf[u].k = k)
    <3>1. u - 1 \in t + 1 .. Len(rest) /\ u - 1 \in 1 .. n - 1 /\ (u - 1) + 1 = u
      BY <1>1, <1>4, <2>4
    <3>2. rest[u - 1] = buf[u]
      BY <1>4, <3>1
    <3> QED
      BY <2>1, <3>1, <3>2
  <2>5. PICK s \in 1 .. Len(buf) : s = t + 1
    BY <2>3
  <2>6. \A u \in s + 1 .. Len(buf) : ~(buf[u].pa = p /\ buf[u].k = k)
    BY <2>4, <2>5
  <2>7. Drained(mem, buf)[p][k] = buf[s].v
    BY <2>1, <2>3, <2>5, <2>6, DrainedLast
  <2> QED
    BY <1>2, <1>3, <1>6, <1>7, <2>2, <2>3, <2>5, <2>7
<1>9. CASE Mine(rest, p, k) = {}
  <2>1. Drained(mem2, rest)[p][k] = mem2[p][k]
    BY <1>9, DrainedNone
  <2>2. ASSUME NEW u \in 1 + 1 .. Len(buf) PROVE ~(buf[u].pa = p /\ buf[u].k = k)
    <3>1. u - 1 \in 1 .. n - 1 /\ (u - 1) + 1 = u
      BY <1>1, <2>2
    <3>2. rest[u - 1] = buf[u]
      BY <1>4, <3>1
    <3> QED
      BY <1>5, <1>9, <3>1, <3>2 DEF Mine
  <2>3. CASE h.pa = p /\ h.k = k
    <3>1. 1 \in 1 .. Len(buf) /\ 1 \in 1 .. Len(one) /\ 1 + 1 .. Len(one) = {}
      BY <1>1, <1>6
    <3>2. Drained(mem, buf)[p][k] = buf[1].v
      BY <1>2, <2>2, <2>3, <3>1, DrainedLast
    <3>3. Drained(mem, one)[p][k] = one[1].v
      <4>1. \A u \in 1 + 1 .. Len(one) : ~(one[u].pa = p /\ one[u].k = k)
        BY <3>1
      <4>2. one[1].pa = p /\ one[1].k = k
        BY <1>6, <2>3
      <4>3. PICK t \in 1 .. Len(one) : t = 1
        BY <3>1
      <4> HIDE <1>6
      <4> QED
        BY <4>1, <4>2, <4>3, DrainedLast
    <3> QED
      BY <1>2, <1>3, <1>6, <1>7, <2>1, <3>2, <3>3
  <2>4. CASE ~(h.pa = p /\ h.k = k)
    <3>1. Mine(one, p, k) = {}
      BY <1>6, <2>4 DEF Mine
    <3>2. ASSUME NEW u \in 1 .. n, buf[u].pa = p, buf[u].k = k PROVE FALSE
      <4>1. u # 1
        BY <1>2, <2>4, <3>2
      <4>2. u \in 1 + 1 .. Len(buf)
        BY <1>1, <4>1
      <4> QED
        BY <2>2, <3>2, <4>2
    <3>3. Mine(buf, p, k) = {}
      BY <1>5, <3>2 DEF Mine
    <3>4. Drained(mem, buf)[p][k] = mem[p][k]
      BY <3>3, DrainedNone
    <3>5. Drained(mem, one)[p][k] = mem[p][k]
      BY <3>1, DrainedNone
    <3> QED
      BY <1>2, <1>3, <1>6, <1>7, <2>1, <3>4, <3>5
  <2> QED
    BY <2>3, <2>4
<1> QED
  BY <1>8, <1>9

LEMMA GoodHead ==
  ASSUME NEW lines, NEW buf \in Seq(Buffered), buf # <<>>, Apart(lines, buf), NEW mem,
         NEW p \in Page, NEW k \in Word, NEW x, Good(mem, lines, buf, p, k, x)
  PROVE  Good(Drained(mem, <<Head(buf)>>), lines, Tail(buf), p, k, x)
<1>1. PICK mem2 : mem2 = Drained(mem, <<Head(buf)>>)
  OBVIOUS
<1>2. PICK rest : rest = Tail(buf)
  OBVIOUS
<1>3. Drained(mem2, rest)[p][k] = Drained(mem, buf)[p][k]
  BY <1>1, <1>2, DrainedHead
<1>4. CASE Has(lines, p)
  <2>1. Mine(buf, p, k) = {}
    BY <1>4, ApartMine
  <2>2. 1 \in DOMAIN buf /\ Head(buf) = buf[1] /\ Head(buf) \in Buffered
    BY HeadTailProperties, LenProperties, EmptySeq
  <2>3. PICK one : one = <<Head(buf)>> /\ one[1] = Head(buf) /\ DOMAIN one = 1 .. 1
    BY <2>2, OneEntry
  <2>4. Mine(one, p, k) = {}
    BY <2>1, <2>2, <2>3 DEF Mine
  <2>5. mem2[p][k] = mem[p][k]
    BY <1>1, <2>3, <2>4, DrainedNone
  <2>6. Good(mem2, lines, rest, p, k, x)
    BY <1>4, <2>5 DEF Good
  <2> QED
    BY <1>1, <1>2, <2>6
<1>5. CASE ~Has(lines, p)
  <2>1. Good(mem2, lines, rest, p, k, x)
    BY <1>3, <1>5 DEF Good, Has
  <2> QED
    BY <1>1, <1>2, <2>1
<1> QED
  BY <1>4, <1>5

\* A store goes to memory, with nothing in the buffer and no line of its page.
LEMMA GoodToMemory ==
  ASSUME NEW lines, NEW q \in Page, NEW kk \in Word, ~Has(lines, q),
         NEW mem, NEW mem2, NEW p \in Page, NEW k \in Word, NEW x,
         IF p = q /\ k = kk THEN mem2[p][k] = x
         ELSE mem2[p][k] = mem[p][k] /\ Good(mem, lines, <<>>, p, k, x)
  PROVE  Good(mem2, lines, <<>>, p, k, x)
<1>1. Drained(mem2, <<>>)[p][k] = mem2[p][k] /\ Drained(mem, <<>>)[p][k] = mem[p][k]
  BY DrainedEmpty
<1>2. CASE p = q /\ k = kk
  BY <1>1, <1>2 DEF Good, Has
<1>3. CASE ~(p = q /\ k = kk)
  BY <1>1, <1>3 DEF Good
<1> QED
  BY <1>2, <1>3
-------------------------------------------------------------------------------
\* The TLBs.

Slots == [0 .. TLBS - 1 -> [va : Page, e : Entry]]

LEMMA NoEntryTyped == NoEntry \in Entry /\ NoEntry.mapped = FALSE /\ NotInTlb \in [va : Page, e : Entry]
                      /\ NotInTlb.e.mapped = FALSE
<1>1. NoEntry \in Entry /\ NoEntry.mapped = FALSE
  BY MmuConstants DEF NoEntry, Entry
<1>2. PICK n : n = NoEntry
  OBVIOUS
<1>3. [va |-> 0, e |-> n] \in [va : Page, e : Entry] /\ [va |-> 0, e |-> n].e = n
  BY <1>1, <1>2, MmuConstants
<1> QED
  BY <1>1, <1>2, <1>3 DEF NotInTlb

LEMMA TlbFields ==
  ASSUME NEW tlb \in Tlbs
  PROVE  /\ tlb.entrys \in Slots /\ DOMAIN tlb.entrys = 0 .. TLBS - 1
         /\ tlb.cycle \in 0 .. TLBS - 1
         /\ tlb = [entrys |-> tlb.entrys, cycle |-> tlb.cycle]
BY DEF Tlbs, Slots

LEMMA MakeTlb ==
  ASSUME NEW entrys \in Slots, NEW cycle \in 0 .. TLBS - 1
  PROVE  /\ [entrys |-> entrys, cycle |-> cycle] \in Tlbs
         /\ [entrys |-> entrys, cycle |-> cycle].entrys = entrys
BY DEF Tlbs, Slots

LEMMA FirstOfOne == ASSUME NEW i \in Int PROVE First({i}) = i
BY DEF First

LEMMA EmptyTlbCurrent == EmptyTlb \in Tlbs /\ \A i \in 0 .. TLBS - 1 : ~EmptyTlb.entrys[i].e.mapped
<1>1. PICK en : en = [i \in 0 .. TLBS - 1 |-> NotInTlb]
  OBVIOUS
<1>2. en \in Slots /\ \A i \in 0 .. TLBS - 1 : en[i] = NotInTlb
  BY <1>1, NoEntryTyped DEF Slots
<1>3. 0 \in 0 .. TLBS - 1
  BY MmuConstants
<1>4. EmptyTlb = [entrys |-> en, cycle |-> 0]
  BY <1>1 DEF EmptyTlb
<1>5. EmptyTlb \in Tlbs /\ EmptyTlb.entrys = en
  BY <1>2, <1>3, <1>4, MakeTlb
<1> QED
  BY <1>2, <1>5, NoEntryTyped

\* The slots that hold an entry agree with tab, and no page has two.
SlotsCurrent(en, tab) ==
  /\ \A i \in 0 .. TLBS - 1 : en[i].e.mapped => en[i].e = tab[en[i].va]
  /\ \A i, j \in 0 .. TLBS - 1 : en[i].e.mapped /\ en[j].e.mapped /\ en[i].va = en[j].va => i = j

LEMMA TlbCurrentIs == ASSUME NEW tlb PROVE TlbCurrent(tlb) <=> SlotsCurrent(tlb.entrys, table)
BY DEF TlbCurrent, SlotsCurrent

LEMMA HitIs ==
  ASSUME NEW tlb \in Tlbs, TlbCurrent(tlb), NEW va \in Page, NEW i \in mmu_tlb_search(tlb, va)
  PROVE  /\ mmu_tlb_search(tlb, va) = {i} /\ First(mmu_tlb_search(tlb, va)) = i
         /\ i \in 0 .. TLBS - 1 /\ tlb.entrys[i].e.mapped /\ tlb.entrys[i].va = va
         /\ tlb.entrys[i].e = table[va]
<1>1. PICK en \in Slots : en = tlb.entrys /\ DOMAIN en = 0 .. TLBS - 1
  BY TlbFields
<1>2. mmu_tlb_search(tlb, va) = {j \in 0 .. TLBS - 1 : en[j].e.mapped /\ en[j].va = va}
  BY <1>1 DEF mmu_tlb_search
<1>3. SlotsCurrent(en, table)
  BY <1>1, TlbCurrentIs
<1>4. i \in 0 .. TLBS - 1 /\ en[i].e.mapped /\ en[i].va = va /\ en[i].e = table[va]
  BY <1>2, <1>3 DEF SlotsCurrent
<1>5. mmu_tlb_search(tlb, va) = {i}
  BY <1>2, <1>3, <1>4 DEF SlotsCurrent
<1> QED
  BY <1>1, <1>4, <1>5, FirstOfOne

LEMMA TranslateIs ==
  ASSUME NEW tlb \in Tlbs, TlbCurrent(tlb), table \in [Page -> Entry], NEW va \in Page
  PROVE  /\ translate(tlb, va).e = IF table[va].mapped THEN table[va] ELSE NoEntry
         /\ translate(tlb, va).tlb \in Tlbs
         /\ TlbCurrent(translate(tlb, va).tlb)
<1>1. PICK en \in Slots, cy \in 0 .. TLBS - 1 :
        /\ en = tlb.entrys /\ cy = tlb.cycle /\ DOMAIN en = 0 .. TLBS - 1
  BY TlbFields
<1>2. PICK d \in Entry : d = table[va]
  OBVIOUS
<1>3. SlotsCurrent(en, table)
  BY <1>1, TlbCurrentIs
<1>4. ASSUME NEW i \in mmu_tlb_search(tlb, va)
      PROVE  translate(tlb, va).e = d /\ d.mapped /\ translate(tlb, va).tlb = tlb
  <2>1. /\ First(mmu_tlb_search(tlb, va)) = i /\ mmu_tlb_search(tlb, va) # {}
        /\ tlb.entrys[i].e = d /\ d.mapped
    BY <1>2, <1>4, HitIs
  <2>2. translate(tlb, va) = [e |-> d, tlb |-> tlb]
    BY <2>1 DEF translate
  <2> QED
    BY <2>1, <2>2
<1>5. CASE mmu_tlb_search(tlb, va) = {} /\ ~d.mapped
  <2>1. translate(tlb, va) = [e |-> NoEntry, tlb |-> tlb]
    BY <1>2, <1>5 DEF translate
  <2>2. PICK n : n = NoEntry
    OBVIOUS
  <2>3. [e |-> n, tlb |-> tlb].e = n /\ [e |-> n, tlb |-> tlb].tlb = tlb
    OBVIOUS
  <2> QED
    BY <1>2, <1>5, <2>1, <2>2, <2>3
<1>6. CASE mmu_tlb_search(tlb, va) = {} /\ d.mapped
  <2>1. PICK new : new = [en EXCEPT ![cy] = [va |-> va, e |-> d]]
    OBVIOUS
  <2>2. new \in Slots
    BY <2>1 DEF Slots
  <2>3. Round(cy, en) \in 0 .. TLBS - 1
    BY <1>1, MmuConstants DEF Round
  <2>4. PICK made : made = [entrys |-> new, cycle |-> Round(cy, en)]
    OBVIOUS
  <2>5. made \in Tlbs /\ made.entrys = new
    BY <2>2, <2>3, <2>4, MakeTlb
  <2>6. translate(tlb, va) = [e |-> d, tlb |-> made]
    BY <1>1, <1>2, <1>6, <2>1, <2>4, Zenon DEF translate
  <2>7. translate(tlb, va).e = d /\ translate(tlb, va).tlb = made
    BY <2>6
  <2>8. \A i \in 0 .. TLBS - 1 : ~(en[i].e.mapped /\ en[i].va = va)
    BY <1>1, <1>6 DEF mmu_tlb_search
  <2>9. /\ \A i \in 0 .. TLBS - 1 : i # cy => new[i] = en[i]
        /\ new[cy].va = va /\ new[cy].e = d
    BY <1>1, <2>1
  <2>10. SlotsCurrent(new, table)
    BY <1>2, <1>3, <2>8, <2>9 DEF SlotsCurrent
  <2>11. TlbCurrent(made)
    BY <2>5, <2>10, TlbCurrentIs
  <2> QED
    BY <1>2, <1>6, <2>5, <2>7, <2>11
<1> QED
  BY <1>2, <1>4, <1>5, <1>6

LEMMA InvalidateEntryIs ==
  ASSUME NEW tlb \in Tlbs, TlbCurrent(tlb), NEW va \in Page, NEW new,
         new = mmu_tlb_invalidate_entry(tlb, va)
  PROVE  /\ new \in Tlbs
         /\ \A i \in 0 .. TLBS - 1 :
              new.entrys[i].e.mapped => new.entrys[i] = tlb.entrys[i] /\ tlb.entrys[i].va # va
<1>1. PICK en \in Slots, cy \in 0 .. TLBS - 1 :
        /\ en = tlb.entrys /\ tlb = [entrys |-> en, cycle |-> cy] /\ DOMAIN en = 0 .. TLBS - 1
  BY TlbFields
<1>2. PICK H : H = mmu_tlb_search(tlb, va)
  OBVIOUS
<1>3. PICK made : made = [i \in 0 .. TLBS - 1 |-> IF i \in H /\ i = First(H) THEN NotInTlb ELSE en[i]]
  OBVIOUS
<1>4. made \in Slots
  BY <1>3, NoEntryTyped DEF Slots
<1>5. new = [entrys |-> made, cycle |-> cy]
  <2>1. new = [tlb EXCEPT !.entrys = [i \in DOMAIN tlb.entrys |->
                 IF i \in H /\ i = First(H) THEN NotInTlb ELSE tlb.entrys[i]]]
    BY <1>2, Zenon DEF mmu_tlb_invalidate_entry
  <2>2. new = [tlb EXCEPT !.entrys = made]
    BY <1>1, <1>3, <2>1, Zenon
  <2> QED
    BY <1>1, <2>2
<1>6. new \in Tlbs /\ new.entrys = made
  BY <1>4, <1>5, MakeTlb
<1>7. ASSUME NEW i \in 0 .. TLBS - 1, made[i].e.mapped
      PROVE  made[i] = en[i] /\ en[i].va # va
  <2>1. CASE i \in H
    <3>1. i = First(H)
      BY <1>2, <2>1, HitIs
    <3>2. made[i] = NotInTlb
      BY <1>3, <2>1, <3>1
    <3> QED
      BY <1>7, <3>2, NoEntryTyped
  <2>2. CASE i \notin H
    <3>1. made[i] = en[i]
      BY <1>3, <2>2
    <3>2. en[i].va # va
      BY <1>1, <1>2, <1>7, <2>2, <3>1 DEF mmu_tlb_search
    <3> QED
      BY <3>1, <3>2
  <2> QED
    BY <2>1, <2>2
<1> QED
  BY <1>1, <1>6, <1>7
-------------------------------------------------------------------------------
\* What each step of a handler keeps.

LEMMA PagesApart ==
  ASSUME Mapping, NEW a \in Page, NEW b \in Page, HasMemory(a), HasMemory(b), PaOf(a) = PaOf(b)
  PROVE  a = b
BY DEF Mapping, HasMemory, PaOf

LEMMA LinesUnique ==
  ASSUME Mapping, NEW way, NEW lines \in Lines(way), LinesMapped(lines)
  PROVE  UniquePa(lines)
<1> SUFFICES ASSUME NEW i \in DOMAIN lines, NEW j \in DOMAIN lines,
                    lines[i].valid, lines[j].valid, lines[i].pa = lines[j].pa
             PROVE  i = j
  BY DEF UniquePa
<1>1. lines[i].va \in Page /\ lines[j].va \in Page
  BY DEF Lines, LineTypes
<1>2. /\ HasMemory(lines[i].va) /\ lines[i].pa = PaOf(lines[i].va)
      /\ HasMemory(lines[j].va) /\ lines[j].pa = PaOf(lines[j].va)
  BY DEF LinesMapped
<1>3. lines[i].va = lines[j].va
  BY <1>1, <1>2, PagesApart
<1> QED
  BY <1>3 DEF LinesMapped

\* Lines go, or stay where they are.
LEMMA FewerMapped ==
  ASSUME NEW way, NEW ls \in Lines(way), NEW new \in Lines(way), LinesMapped(ls),
         \A i \in 0 .. way - 1 :
           new[i].valid => ls[i].valid /\ new[i].va = ls[i].va /\ new[i].pa = ls[i].pa
  PROVE  LinesMapped(new) /\ \A p : Has(new, p) => Has(ls, p)
<1>1. DOMAIN ls = 0 .. way - 1 /\ DOMAIN new = 0 .. way - 1
  BY DEF Lines
<1>2. ASSUME NEW i \in DOMAIN new, new[i].valid
      PROVE  HasMemory(new[i].va) /\ new[i].pa = PaOf(new[i].va)
  <2>1. ls[i].valid /\ new[i].va = ls[i].va /\ new[i].pa = ls[i].pa
    BY <1>1, <1>2
  <2>2. HasMemory(ls[i].va) /\ ls[i].pa = PaOf(ls[i].va)
    BY <1>1, <1>2, <2>1 DEF LinesMapped
  <2> QED
    BY <2>1, <2>2
<1>3. ASSUME NEW i \in DOMAIN new, NEW j \in DOMAIN new, new[i].valid, new[j].valid,
             new[i].va = new[j].va
      PROVE  i = j
  BY <1>1, <1>3 DEF LinesMapped
<1>4. LinesMapped(new)
  BY <1>2, <1>3 DEF LinesMapped
<1>5. \A p : Has(new, p) => Has(ls, p)
  BY <1>1 DEF Has
<1> QED
  BY <1>4, <1>5

\* A line comes, of a page that had none.
LEMMA FilledMapped ==
  ASSUME NEW way, NEW ls \in Lines(way), LinesMapped(ls), NEW c \in 0 .. way - 1,
         NEW va \in Page, HasMemory(va), NEW pa, pa = PaOf(va), NEW data,
         \A i \in 0 .. way - 1 : ~(ls[i].valid /\ ls[i].va = va),
         NEW new, new = [ls EXCEPT ![c] = NewLine(va, pa, data)]
  PROVE  LinesMapped(new)
<1>1. DOMAIN ls = 0 .. way - 1 /\ DOMAIN new = 0 .. way - 1
  BY DEF Lines
<1>2. /\ \A i \in 0 .. way - 1 : i # c => new[i] = ls[i]
      /\ new[c].valid /\ new[c].va = va /\ new[c].pa = pa
  BY <1>1 DEF NewLine
<1>3. ASSUME NEW i \in DOMAIN new, new[i].valid
      PROVE  HasMemory(new[i].va) /\ new[i].pa = PaOf(new[i].va)
  <2>1. CASE i = c
    BY <1>2, <2>1
  <2>2. CASE i # c
    <3>1. new[i] = ls[i] /\ i \in DOMAIN ls
      BY <1>1, <1>2, <1>3, <2>2
    <3>2. HasMemory(ls[i].va) /\ ls[i].pa = PaOf(ls[i].va)
      BY <1>3, <3>1 DEF LinesMapped
    <3> QED
      BY <3>1, <3>2
  <2> QED
    BY <2>1, <2>2
<1>4. ASSUME NEW i \in DOMAIN new, NEW j \in DOMAIN new, new[i].valid, new[j].valid,
             new[i].va = new[j].va
      PROVE  i = j
  BY <1>1, <1>2, <1>4 DEF LinesMapped
<1> QED
  BY <1>3, <1>4 DEF LinesMapped

LEMMA InvalidatedLines ==
  ASSUME NEW way, NEW cache \in Caches(way), NEW S, NEW i \in 0 .. way - 1
  PROVE  LET new == mmu_cache_invalidate(cache, S).lines
         IN  IF i \in S THEN ~new[i].valid ELSE new[i] = cache.lines[i]
<1>1. PICK new : new = mmu_cache_invalidate(cache, S).lines
  OBVIOUS
<1>2. new = [j \in 0 .. way - 1 |-> IF j \in S THEN NoLine ELSE cache.lines[j]]
  BY <1>1, InvalidateIs
<1>3. IF i \in S THEN ~new[i].valid ELSE new[i] = cache.lines[i]
  BY <1>2, NoLineTyped
<1> QED
  BY <1>1, <1>3

LEMMA CleanedLines ==
  ASSUME NEW way, NEW cache \in Caches(way), NEW S, NEW i \in 0 .. way - 1
  PROVE  LET new == mmu_cache_clean(cache, S).lines
         IN  new[i].valid = cache.lines[i].valid /\ new[i].va = cache.lines[i].va
             /\ new[i].pa = cache.lines[i].pa
<1>1. PICK new : new = mmu_cache_clean(cache, S).lines
  OBVIOUS
<1>2. PICK l \in LineTypes : l = cache.lines[i]
  BY CacheFields DEF Lines
<1>3. new = [j \in 0 .. way - 1 |-> IF j \in S THEN [cache.lines[j] EXCEPT !.dirty = {}]
                                             ELSE cache.lines[j]]
  BY <1>1, CleanIs
<1>4. new[i] = IF i \in S THEN [l EXCEPT !.dirty = {}] ELSE l
  BY <1>2, <1>3
<1>5. new[i].valid = l.valid /\ new[i].va = l.va /\ new[i].pa = l.pa
  BY <1>4 DEF LineTypes
<1> QED
  BY <1>1, <1>2, <1>5

\* The I cache is right where it is dirty, so what it writes back does no harm.
LEMMA Spoils ==
  ASSUME Mapping, NEW cache, InstrInv(cache), NEW S \in SUBSET (0 .. I_WAY - 1), NEW mem,
         NEW p \in Page, NEW k \in Word, <<p, k>> \notin spoiled
  PROVE  mmu_cache_write_back(mem, cache, S)[p][k] \in {mem[p][k], view[p][k]}
<1>1. PICK ls \in Lines(I_WAY) : ls = cache.lines /\ DOMAIN ls = 0 .. I_WAY - 1
  BY CacheFields DEF InstrInv
<1>2. cache \in Caches(I_WAY) /\ UniquePa(cache.lines)
  BY <1>1, LinesUnique DEF InstrInv
<1>3. CASE Writers(ls, S, p, k) = {}
  <2>1. mmu_cache_write_back(mem, cache, S)[p][k] = mem[p][k]
    BY <1>1, <1>3, LeavesAlone
  <2> QED
    BY <2>1
<1>4. ASSUME NEW i \in Writers(ls, S, p, k)
      PROVE  mmu_cache_write_back(mem, cache, S)[p][k] = view[p][k]
  <2>1. i \in S /\ ls[i].valid /\ ls[i].pa = p /\ Half(k) \in ls[i].dirty
    BY <1>4 DEF Writers
  <2>2. cache.lines[i].valid /\ cache.lines[i].pa = p /\ Half(k) \in cache.lines[i].dirty
    BY <1>1, <2>1
  <2>3. mmu_cache_write_back(mem, cache, S)[p][k] = cache.lines[i].data[k]
    <3>1. i \in S
      BY <2>1
    <3> QED
      BY <1>2, <2>2, <3>1, WritesBack
  <2>4. <<p, k>> \notin Wrong(cache, view)
    BY DEF InstrInv
  <2>5. cache.lines[i].data[k] = view[p][k]
    <3>1. PICK q \in Page \X Word : q = <<p, k>> /\ q[1] = p /\ q[2] = k
      OBVIOUS
    <3>2. i \in DOMAIN cache.lines
      BY <1>1, <2>1
    <3> QED
      BY <2>2, <2>4, <3>1, <3>2 DEF Wrong
  <2> QED
    BY <2>3, <2>5
<1> QED
  BY <1>3, <1>4

LEMMA InstrWrittenBack ==
  ASSUME Mapping, NEW cache, InstrInv(cache), NEW S \in SUBSET (0 .. I_WAY - 1),
         NEW mem, NEW data, NEW buf, DataShape(mem, data, buf),
         WordsCurrent(mem, data, buf, view, spoiled),
         NEW mem2, mem2 = mmu_cache_write_back(mem, cache, S)
  PROVE  DataShape(mem2, data, buf) /\ WordsCurrent(mem2, data, buf, view, spoiled)
<1>1. cache \in Caches(I_WAY) /\ UniquePa(cache.lines)
  BY CacheFields, LinesUnique DEF InstrInv
<1>2. mem2 \in Memories
  <2>1. mem \in Memories
    BY DEF DataShape
  <2> QED
    BY <1>1, <2>1, WriteBackTyped
<1>3. DataShape(mem2, data, buf)
  BY <1>2 DEF DataShape
<1>4. ASSUME NEW p \in Page, NEW k \in Word, <<p, k>> \notin spoiled
      PROVE  Good(mem2, data.lines, buf, p, k, view[p][k])
  <2>1. mem2[p][k] \in {mem[p][k], view[p][k]}
    BY <1>4, Spoils
  <2>2. Good(mem, data.lines, buf, p, k, view[p][k])
    BY <1>4 DEF WordsCurrent
  <2>3. buf \in Seq(Buffered)
    BY DEF DataShape
  <2> QED
    BY <2>1, <2>2, <2>3, GoodMemory
<1> QED
  BY <1>3, <1>4 DEF WordsCurrent

LEMMA LessWrong ==
  ASSUME NEW way, NEW old \in Caches(way), NEW cache \in Caches(way), NEW stored,
         \A i \in 0 .. way - 1 :
           cache.lines[i].valid /\ cache.lines[i].dirty # {} => cache.lines[i] = old.lines[i]
  PROVE  Wrong(cache, stored) \subseteq Wrong(old, stored)
<1>1. DOMAIN cache.lines = 0 .. way - 1 /\ DOMAIN old.lines = 0 .. way - 1
  BY CacheFields
<1> SUFFICES ASSUME NEW q \in Wrong(cache, stored) PROVE q \in Wrong(old, stored)
  OBVIOUS
<1>2. PICK i \in 0 .. way - 1 : /\ cache.lines[i].valid /\ cache.lines[i].pa = q[1]
                                /\ Half(q[2]) \in cache.lines[i].dirty
                                /\ cache.lines[i].data[q[2]] # stored[q[1]][q[2]]
  BY <1>1 DEF Wrong
<1>3. cache.lines[i] = old.lines[i]
  BY <1>2
<1>4. /\ old.lines[i].valid /\ old.lines[i].pa = q[1] /\ Half(q[2]) \in old.lines[i].dirty
      /\ old.lines[i].data[q[2]] # stored[q[1]][q[2]]
  BY <1>2, <1>3
<1>5. q \in Page \X Word
  BY DEF Wrong
<1> QED
  BY <1>1, <1>4, <1>5 DEF Wrong

LEMMA InstrInvalidated ==
  ASSUME NEW cache, InstrInv(cache), NEW S, NEW new, new = mmu_cache_invalidate(cache, S)
  PROVE  InstrInv(new)
<1>1. cache \in Caches(I_WAY) /\ new \in Caches(I_WAY)
  BY InvalidateIs DEF InstrInv
<1>2. ASSUME NEW i \in 0 .. I_WAY - 1, new.lines[i].valid PROVE new.lines[i] = cache.lines[i]
  BY <1>1, <1>2, InvalidatedLines
<1>3. new.lines \in Lines(I_WAY) /\ cache.lines \in Lines(I_WAY)
  BY <1>1, CacheFields
<1>4. LinesMapped(new.lines)
  <2>1. LinesMapped(cache.lines)
    BY DEF InstrInv
  <2>2. \A i \in 0 .. I_WAY - 1 :
          new.lines[i].valid => /\ cache.lines[i].valid /\ new.lines[i].va = cache.lines[i].va
                                /\ new.lines[i].pa = cache.lines[i].pa
    BY <1>2
  <2> QED
    BY <1>3, <2>1, <2>2, FewerMapped
<1>5. Wrong(new, view) \subseteq Wrong(cache, view)
  BY <1>1, <1>2, LessWrong
<1> QED
  BY <1>1, <1>4, <1>5 DEF InstrInv

LEMMA SearchEmpty ==
  ASSUME NEW way, NEW cache \in Caches(way), NEW va, mmu_cache_search(cache, va) = {}
  PROVE  \A i \in 0 .. way - 1 : ~(cache.lines[i].valid /\ cache.lines[i].va = va)
BY CacheFields DEF mmu_cache_search

LEMMA InstrFilled ==
  ASSUME NEW cache, InstrInv(cache), NEW mem \in Memories, NEW va \in Page, HasMemory(va),
         NEW pa \in Page, pa = PaOf(va), mmu_cache_search(cache, va) = {},
         NEW new, new = Filled(mem, cache, va, pa)
  PROVE  InstrInv(new)
<1>1. cache \in Caches(I_WAY) /\ LinesMapped(cache.lines)
  BY DEF InstrInv
<1>2. PICK ls \in Lines(I_WAY), c \in 0 .. I_WAY - 1 : ls = cache.lines /\ c = cache.cycle
  BY <1>1, CacheFields
<1>3. new \in Caches(I_WAY) /\ new.lines = [ls EXCEPT ![c] = NewLine(va, pa, mem[pa])]
  BY <1>1, <1>2, MmuConstants, FilledIs
<1>4. PICK nl : nl = new.lines
  OBVIOUS
<1>5. \A i \in 0 .. I_WAY - 1 : ~(ls[i].valid /\ ls[i].va = va)
  BY <1>1, <1>2, SearchEmpty
<1>6. LinesMapped(nl)
  <2>1. PICK data : data = mem[pa]
    OBVIOUS
  <2>2. nl = [ls EXCEPT ![c] = NewLine(va, pa, data)]
    BY <1>3, <1>4, <2>1
  <2>3. LinesMapped(ls)
    BY <1>1, <1>2
  <2> QED
    BY <1>5, <2>2, <2>3, FilledMapped
<1>7. ASSUME NEW i \in 0 .. I_WAY - 1, new.lines[i].valid, new.lines[i].dirty # {}
      PROVE  new.lines[i] = cache.lines[i]
  <2>1. DOMAIN ls = 0 .. I_WAY - 1
    BY DEF Lines
  <2>2. nl[c].dirty = {}
    BY <1>3, <1>4, <2>1 DEF NewLine
  <2>3. i # c
    BY <1>4, <1>7, <2>2
  <2>4. nl[i] = ls[i]
    BY <1>3, <1>4, <2>1, <2>3
  <2> QED
    BY <1>2, <1>4, <2>4
<1>8. Wrong(new, view) \subseteq Wrong(cache, view)
  <2>1. new \in Caches(I_WAY)
    BY <1>3
  <2>2. \A i \in 0 .. I_WAY - 1 :
          new.lines[i].valid /\ new.lines[i].dirty # {} => new.lines[i] = cache.lines[i]
    BY <1>7
  <2>3. PICK made : made = new
    OBVIOUS
  <2>4. Wrong(made, view) \subseteq Wrong(cache, view)
    BY <1>1, <2>1, <2>2, <2>3, LessWrong
  <2> QED
    BY <2>3, <2>4
<1> QED
  BY <1>3, <1>4, <1>6, <1>8 DEF InstrInv

\* The lines S of the D cache are written back and go.
LEMMA DataInvalidated ==
  ASSUME Mapping, NEW mem, NEW cache, NEW buf, DataShape(mem, cache, buf),
         WordsCurrent(mem, cache, buf, view, spoiled), NEW S \in SUBSET (0 .. D_WAY - 1),
         NEW mem2, mem2 = mmu_cache_write_back(mem, cache, S),
         NEW new, new = mmu_cache_invalidate(cache, S)
  PROVE  DataShape(mem2, new, buf) /\ WordsCurrent(mem2, new, buf, view, spoiled)
<1>1. /\ mem \in Memories /\ cache \in Caches(D_WAY) /\ buf \in Seq(Buffered)
      /\ LinesMapped(cache.lines) /\ Apart(cache.lines, buf)
  BY DEF DataShape
<1>2. cache.lines \in Lines(D_WAY) /\ UniquePa(cache.lines)
  BY <1>1, CacheFields, LinesUnique
<1>3. new \in Caches(D_WAY) /\ new.lines \in Lines(D_WAY)
  BY <1>1, InvalidateIs, CacheFields
<1>4. ASSUME NEW i \in 0 .. D_WAY - 1, new.lines[i].valid PROVE new.lines[i] = cache.lines[i]
  BY <1>1, <1>4, InvalidatedLines
<1>5. LinesMapped(new.lines) /\ \A p : Has(new.lines, p) => Has(cache.lines, p)
  <2>1. \A i \in 0 .. D_WAY - 1 :
          new.lines[i].valid => /\ cache.lines[i].valid /\ new.lines[i].va = cache.lines[i].va
                                /\ new.lines[i].pa = cache.lines[i].pa
    BY <1>4
  <2> QED
    BY <1>1, <1>2, <1>3, <2>1, FewerMapped
<1>6. Apart(new.lines, buf)
  BY <1>1, <1>5 DEF Apart
<1>7. mem2 \in Memories
  BY <1>1, <1>2, WriteBackTyped
<1>8. ASSUME ~On PROVE \A i \in 0 .. D_WAY - 1 : ~new.lines[i].valid
  BY <1>4, <1>8 DEF DataShape
<1>9. DataShape(mem2, new, buf)
  BY <1>1, <1>3, <1>5, <1>6, <1>7, <1>8 DEF DataShape
<1>10. ASSUME NEW p \in Page, NEW k \in Word, <<p, k>> \notin spoiled
       PROVE  Good(mem2, new.lines, buf, p, k, view[p][k])
  <2>1. PICK x : x = view[p][k]
    OBVIOUS
  <2>2. Good(mem, cache.lines, buf, p, k, x)
    BY <1>10, <2>1 DEF WordsCurrent
  <2>3. Good(mem2, new.lines, buf, p, k, x)
    BY <1>1, <1>2, <2>2, GoodInvalidated
  <2> QED
    BY <2>1, <2>3
<1> QED
  BY <1>9, <1>10 DEF WordsCurrent

LEMMA DataCleaned ==
  ASSUME Mapping, NEW mem, NEW cache, NEW buf, DataShape(mem, cache, buf),
         WordsCurrent(mem, cache, buf, view, spoiled), NEW S \in SUBSET (0 .. D_WAY - 1),
         NEW mem2, mem2 = mmu_cache_write_back(mem, cache, S),
         NEW new, new = mmu_cache_clean(cache, S)
  PROVE  DataShape(mem2, new, buf) /\ WordsCurrent(mem2, new, buf, view, spoiled)
<1>1. /\ mem \in Memories /\ cache \in Caches(D_WAY) /\ buf \in Seq(Buffered)
      /\ LinesMapped(cache.lines) /\ Apart(cache.lines, buf)
  BY DEF DataShape
<1>2. cache.lines \in Lines(D_WAY) /\ UniquePa(cache.lines)
  BY <1>1, CacheFields, LinesUnique
<1>3. new \in Caches(D_WAY) /\ new.lines \in Lines(D_WAY)
  BY <1>1, CleanIs, CacheFields
<1>4. ASSUME NEW i \in 0 .. D_WAY - 1
      PROVE  /\ new.lines[i].valid = cache.lines[i].valid /\ new.lines[i].va = cache.lines[i].va
             /\ new.lines[i].pa = cache.lines[i].pa
  BY <1>1, CleanedLines
<1>5. LinesMapped(new.lines) /\ \A p : Has(new.lines, p) => Has(cache.lines, p)
  <2>1. \A i \in 0 .. D_WAY - 1 :
          new.lines[i].valid => /\ cache.lines[i].valid /\ new.lines[i].va = cache.lines[i].va
                                /\ new.lines[i].pa = cache.lines[i].pa
    BY <1>4
  <2> QED
    BY <1>1, <1>2, <1>3, <2>1, FewerMapped
<1>6. Apart(new.lines, buf)
  BY <1>1, <1>5 DEF Apart
<1>7. mem2 \in Memories
  BY <1>1, <1>2, WriteBackTyped
<1>8. ASSUME ~On PROVE \A i \in 0 .. D_WAY - 1 : ~new.lines[i].valid
  BY <1>4, <1>8 DEF DataShape
<1>9. DataShape(mem2, new, buf)
  BY <1>1, <1>3, <1>5, <1>6, <1>7, <1>8 DEF DataShape
<1>10. ASSUME NEW p \in Page, NEW k \in Word, <<p, k>> \notin spoiled
       PROVE  Good(mem2, new.lines, buf, p, k, view[p][k])
  <2>1. PICK x : x = view[p][k]
    OBVIOUS
  <2>2. Good(mem, cache.lines, buf, p, k, x)
    BY <1>10, <2>1 DEF WordsCurrent
  <2>3. Good(mem2, new.lines, buf, p, k, x)
    BY <1>1, <1>2, <2>2, GoodCleaned
  <2> QED
    BY <2>1, <2>3
<1> QED
  BY <1>9, <1>10 DEF WordsCurrent

LEMMA DataDrained ==
  ASSUME NEW mem, NEW cache, NEW buf, DataShape(mem, cache, buf),
         WordsCurrent(mem, cache, buf, view, spoiled), NEW mem2, mem2 = Drained(mem, buf)
  PROVE  DataShape(mem2, cache, <<>>) /\ WordsCurrent(mem2, cache, <<>>, view, spoiled)
<1>1. mem \in Memories /\ buf \in Seq(Buffered) /\ Apart(cache.lines, buf)
  BY DEF DataShape
<1>2. mem2 \in Memories
  BY <1>1, DrainedTyped
<1>3. <<>> \in Seq(Buffered) /\ Len(<<>>) = 0
  OBVIOUS
<1>4. DataShape(mem2, cache, <<>>)
  BY <1>2, <1>3 DEF DataShape, Apart
<1>5. ASSUME NEW p \in Page, NEW k \in Word, <<p, k>> \notin spoiled
      PROVE  Good(mem2, cache.lines, <<>>, p, k, view[p][k])
  <2>1. Good(mem, cache.lines, buf, p, k, view[p][k])
    BY <1>5 DEF WordsCurrent
  <2> QED
    BY <1>1, <2>1, GoodDrained
<1> QED
  BY <1>4, <1>5 DEF WordsCurrent

\* A page that a search does not find has no line.
LEMMA NoLineOf ==
  ASSUME Mapping, NEW way, NEW cache \in Caches(way), LinesMapped(cache.lines),
         NEW va \in Page, HasMemory(va), mmu_cache_search(cache, va) = {}
  PROVE  ~Has(cache.lines, PaOf(va))
<1>1. PICK ls \in Lines(way) : ls = cache.lines /\ DOMAIN ls = 0 .. way - 1
  BY CacheFields
<1> SUFFICES ASSUME NEW i \in 0 .. way - 1, ls[i].valid, ls[i].pa = PaOf(va) PROVE FALSE
  BY <1>1 DEF Has
<1>2. ls[i].va \in Page
  BY DEF Lines, LineTypes
<1>3. HasMemory(ls[i].va) /\ ls[i].pa = PaOf(ls[i].va)
  BY <1>1 DEF LinesMapped
<1>4. ls[i].va = va
  BY <1>2, <1>3, PagesApart
<1> QED
  BY <1>1, <1>4, SearchEmpty

LEMMA WordsFilled ==
  ASSUME NEW mem, NEW old, NEW new, NEW buf \in Seq(Buffered), NEW c, NEW pa,
         FilledSlot(old.lines, c, pa, mem[pa], new.lines),
         \A t \in 1 .. Len(buf) : buf[t].pa # pa,
         WordsCurrent(mem, old, buf, view, spoiled)
  PROVE  WordsCurrent(mem, new, buf, view, spoiled)
<1> SUFFICES ASSUME NEW p \in Page, NEW k \in Word, <<p, k>> \notin spoiled
             PROVE  Good(mem, new.lines, buf, p, k, view[p][k])
  BY DEF WordsCurrent
<1>1. PICK nl, fl, x : nl = old.lines /\ fl = new.lines /\ x = view[p][k]
  OBVIOUS
<1>2. Good(mem, nl, buf, p, k, x)
  BY <1>1 DEF WordsCurrent
<1>3. p = pa => Mine(buf, p, k) = {}
  BY LenProperties DEF Mine
<1>4. FilledSlot(nl, c, pa, mem[pa], fl)
  BY <1>1
<1>5. Good(mem, fl, buf, p, k, x)
  BY <1>2, <1>3, <1>4, GoodFilled
<1> QED
  BY <1>1, <1>5

LEMMA DataFilled ==
  ASSUME Mapping, NEW mem, NEW cache, NEW buf, DataShape(mem, cache, buf),
         WordsCurrent(mem, cache, buf, view, spoiled), On,
         NEW va \in Page, HasMemory(va), NEW pa \in Page, pa = PaOf(va),
         mmu_cache_search(cache, va) = {}, \A t \in 1 .. Len(buf) : buf[t].pa # pa,
         NEW mem2, mem2 = mmu_cache_write_back(mem, cache, {cache.cycle}),
         NEW new, new = Filled(mem2, cache, va, pa)
  PROVE  DataShape(mem2, new, buf) /\ WordsCurrent(mem2, new, buf, view, spoiled)
<1>1. cache \in Caches(D_WAY) /\ LinesMapped(cache.lines)
  BY DEF DataShape
<1>2. PICK ls \in Lines(D_WAY), c \in 0 .. D_WAY - 1 :
        ls = cache.lines /\ c = cache.cycle /\ DOMAIN ls = 0 .. D_WAY - 1
  BY <1>1, CacheFields
<1>3. PICK inv : inv = mmu_cache_invalidate(cache, {c})
  OBVIOUS
<1>4. DataShape(mem2, inv, buf) /\ WordsCurrent(mem2, inv, buf, view, spoiled)
  <2>1. {c} \in SUBSET (0 .. D_WAY - 1) /\ mem2 = mmu_cache_write_back(mem, cache, {c})
    BY <1>2
  <2> QED
    BY <1>3, <2>1, DataInvalidated
<1>5. /\ mem2 \in Memories /\ inv \in Caches(D_WAY) /\ buf \in Seq(Buffered)
      /\ LinesMapped(inv.lines) /\ Apart(inv.lines, buf)
  BY <1>4 DEF DataShape
<1>6. PICK nl \in Lines(D_WAY) : nl = inv.lines /\ DOMAIN nl = 0 .. D_WAY - 1
  BY <1>5, CacheFields
<1>7. nl = [i \in 0 .. D_WAY - 1 |-> IF i \in {c} THEN NoLine ELSE ls[i]]
  BY <1>1, <1>2, <1>3, <1>6, InvalidateIs
<1>8. ~nl[c].valid /\ \A i \in 0 .. D_WAY - 1 : i # c => nl[i] = ls[i]
  BY <1>7, NoLineTyped
<1>9. \A i \in 0 .. D_WAY - 1 : ~(ls[i].valid /\ ls[i].va = va)
  BY <1>1, <1>2, SearchEmpty
<1>10. \A i \in 0 .. D_WAY - 1 : ~(nl[i].valid /\ nl[i].va = va)
  BY <1>8, <1>9
<1>11. ~Has(nl, pa)
  <2>1. mmu_cache_search(inv, va) = {}
    BY <1>6, <1>10 DEF mmu_cache_search
  <2> QED
    BY <1>5, <1>6, <2>1, NoLineOf
<1>12. new \in Caches(D_WAY) /\ new.lines = [ls EXCEPT ![c] = NewLine(va, pa, mem2[pa])]
  <2>1. D_WAY \in Nat \ {0}
    BY MmuConstants
  <2>2. PICK m \in Memories, d \in Caches(D_WAY), a \in Page, b \in Page :
          m = mem2 /\ d = cache /\ a = va /\ b = pa
    BY <1>1, <1>5
  <2>3. /\ Filled(m, d, a, b) \in Caches(D_WAY)
        /\ Filled(m, d, a, b).lines = [d.lines EXCEPT ![d.cycle] = NewLine(a, b, m[b])]
    BY <2>1, FilledIs
  <2> QED
    BY <1>2, <2>2, <2>3, Zenon
<1>13. PICK fl : fl = new.lines
  OBVIOUS
<1>14. PICK l : l = NewLine(va, pa, mem2[pa])
  OBVIOUS
<1>15. fl = [nl EXCEPT ![c] = NewLine(va, pa, mem2[pa])]
  <2>1. fl = [ls EXCEPT ![c] = l]
    BY <1>12, <1>13, <1>14
  <2>2. [ls EXCEPT ![c] = l] = [nl EXCEPT ![c] = l]
    BY <1>2, <1>6, <1>8
  <2> QED
    BY <1>14, <2>1, <2>2
<1>16. LinesMapped(fl)
  <2>1. PICK data : data = mem2[pa]
    OBVIOUS
  <2>2. fl = [nl EXCEPT ![c] = NewLine(va, pa, data)]
    BY <1>15, <2>1
  <2>3. LinesMapped(nl)
    BY <1>5, <1>6
  <2> QED
    BY <1>10, <2>2, <2>3, FilledMapped
<1>17. Apart(fl, buf)
  <2>1. DOMAIN fl = 0 .. D_WAY - 1 /\ \A i \in 0 .. D_WAY - 1 : i # c => fl[i] = nl[i]
    BY <1>6, <1>15
  <2>2. fl[c].pa = pa
    <3>1. l.pa = pa
      BY <1>14 DEF NewLine
    <3>2. fl = [nl EXCEPT ![c] = l]
      BY <1>14, <1>15
    <3> QED
      BY <1>6, <3>1, <3>2
  <2>3. ASSUME NEW t \in 1 .. Len(buf) PROVE ~Has(fl, buf[t].pa)
    <3>1. ~Has(nl, buf[t].pa) /\ buf[t].pa # pa
      BY <1>5, <1>6 DEF Apart
    <3> QED
      BY <1>6, <2>1, <2>2, <3>1 DEF Has
  <2> QED
    BY <2>3 DEF Apart
<1>18. DataShape(mem2, new, buf)
  <2>1. new \in Caches(D_WAY)
    BY <1>12
  <2> QED
    BY <1>4, <1>5, <1>13, <1>16, <1>17, <2>1 DEF DataShape
<1>19. FilledSlot(inv.lines, c, pa, mem2[pa], new.lines)
  <2>1. l.valid /\ l.pa = pa /\ l.data = mem2[pa]
    BY <1>14 DEF NewLine
  <2>2. fl = [nl EXCEPT ![c] = l]
    BY <1>14, <1>15
  <2>3. /\ DOMAIN fl = 0 .. D_WAY - 1 /\ \A i \in 0 .. D_WAY - 1 : i # c => fl[i] = nl[i]
        /\ fl[c] = l
    BY <1>6, <2>2
  <2>4. FilledSlot(nl, c, pa, mem2[pa], fl)
    BY <1>6, <1>8, <1>11, <2>1, <2>3 DEF FilledSlot
  <2> QED
    BY <1>6, <1>13, <2>4
<1>20. WordsCurrent(mem2, new, buf, view, spoiled)
  <2>1. PICK m, d, n, b, q : m = mem2 /\ d = inv /\ n = new /\ b = buf /\ q = pa
    OBVIOUS
  <2>2. /\ FilledSlot(d.lines, c, q, m[q], n.lines)
        /\ WordsCurrent(m, d, b, view, spoiled)
    BY <1>4, <1>19, <2>1, Zenon
  <2>3. \A t \in 1 .. Len(b) : b[t].pa # q
    BY <2>1, Zenon
  <2>4. b \in Seq(Buffered)
    BY <1>5, <2>1
  <2>5. WordsCurrent(m, n, b, view, spoiled)
    BY <2>2, <2>3, <2>4, WordsFilled
  <2> QED
    BY <2>1, <2>5, Zenon
<1> QED
  BY <1>18, <1>20

\* The history after a store of v to word kk of page q.
Later(q, kk, v, stored, wrong) ==
  /\ stored[q][kk] = v
  /\ \A p \in Page, k \in Word :
       ~(p = q /\ k = kk) => stored[p][k] = view[p][k] /\ (<<p, k>> \in spoiled => <<p, k>> \in wrong)

\* The lines of page q with the word stored in them.
StoredLines(ls, q, kk, v, new) ==
  \A i \in 0 .. D_WAY - 1 : new[i] = IF ls[i].valid /\ ls[i].pa = q
                                       THEN StoredLine(ls[i], kk, v) ELSE ls[i]

LEMMA WordsStored ==
  ASSUME NEW mem, NEW buf, NEW old \in Caches(D_WAY), NEW new \in Caches(D_WAY),
         NEW q \in Page, NEW kk \in Word, NEW v \in Value, Has(old.lines, q),
         StoredLines(old.lines, q, kk, v, new.lines),
         NEW stored, NEW wrong, Later(q, kk, v, stored, wrong),
         WordsCurrent(mem, old, buf, view, spoiled)
  PROVE  WordsCurrent(mem, new, buf, stored, wrong)
<1> SUFFICES ASSUME NEW p \in Page, NEW k \in Word, <<p, k>> \notin wrong
             PROVE  Good(mem, new.lines, buf, p, k, stored[p][k])
  BY DEF WordsCurrent
<1>1. PICK ls \in Lines(D_WAY), nl \in Lines(D_WAY) : ls = old.lines /\ nl = new.lines
  BY CacheFields
<1>2. PICK x : x = stored[p][k]
  OBVIOUS
<1>3. IF p = q /\ k = kk THEN x = v ELSE Good(mem, ls, buf, p, k, x)
  <2>1. CASE p = q /\ k = kk
    BY <1>2, <2>1 DEF Later
  <2>2. CASE ~(p = q /\ k = kk)
    <3>1. x = view[p][k] /\ <<p, k>> \notin spoiled
      BY <1>2, <2>2 DEF Later
    <3> QED
      BY <1>1, <2>2, <3>1 DEF WordsCurrent
  <2> QED
    BY <2>1, <2>2
<1>4. \A i \in 0 .. D_WAY - 1 : nl[i] = IF ls[i].valid /\ ls[i].pa = q
                                          THEN StoredLine(ls[i], kk, v) ELSE ls[i]
  BY <1>1 DEF StoredLines
<1>5. Has(ls, q)
  BY <1>1
<1>6. Good(mem, nl, buf, p, k, x)
  BY <1>3, <1>4, <1>5, GoodStored
<1> QED
  BY <1>1, <1>2, <1>6

LEMMA WordsAppended ==
  ASSUME NEW mem, NEW cache, NEW buf \in Seq(Buffered), NEW new \in Buffered,
         ~Has(cache.lines, new.pa),
         NEW stored, NEW wrong, Later(new.pa, new.k, new.v, stored, wrong),
         WordsCurrent(mem, cache, buf, view, spoiled)
  PROVE  WordsCurrent(mem, cache, Append(buf, new), stored, wrong)
<1> SUFFICES ASSUME NEW p \in Page, NEW k \in Word, <<p, k>> \notin wrong
             PROVE  Good(mem, cache.lines, Append(buf, new), p, k, stored[p][k])
  BY DEF WordsCurrent
<1>1. PICK ls, x : ls = cache.lines /\ x = stored[p][k]
  OBVIOUS
<1>2. IF new.pa = p /\ new.k = k THEN x = new.v ELSE Good(mem, ls, buf, p, k, x)
  <2>1. CASE new.pa = p /\ new.k = k
    BY <1>1, <2>1 DEF Later
  <2>2. CASE ~(new.pa = p /\ new.k = k)
    <3>1. x = view[p][k] /\ <<p, k>> \notin spoiled
      BY <1>1, <2>2 DEF Later
    <3> QED
      BY <1>1, <2>2, <3>1 DEF WordsCurrent
  <2> QED
    BY <2>1, <2>2
<1>3. ~Has(ls, new.pa)
  BY <1>1
<1>4. Good(mem, ls, Append(buf, new), p, k, x)
  BY <1>2, <1>3, GoodAppended
<1> QED
  BY <1>1, <1>4

LEMMA WordsToMemory ==
  ASSUME NEW mem, NEW mem2, NEW cache, NEW q \in Page, NEW kk \in Word, NEW v,
         ~Has(cache.lines, q), mem2[q][kk] = v,
         \A p \in Page, k \in Word : ~(p = q /\ k = kk) => mem2[p][k] = mem[p][k],
         NEW stored, NEW wrong, Later(q, kk, v, stored, wrong),
         WordsCurrent(mem, cache, <<>>, view, spoiled)
  PROVE  WordsCurrent(mem2, cache, <<>>, stored, wrong)
<1> SUFFICES ASSUME NEW p \in Page, NEW k \in Word, <<p, k>> \notin wrong
             PROVE  Good(mem2, cache.lines, <<>>, p, k, stored[p][k])
  BY DEF WordsCurrent
<1>1. PICK ls, x : ls = cache.lines /\ x = stored[p][k]
  OBVIOUS
<1>2. IF p = q /\ k = kk THEN mem2[p][k] = x
      ELSE mem2[p][k] = mem[p][k] /\ Good(mem, ls, <<>>, p, k, x)
  <2>1. CASE p = q /\ k = kk
    BY <1>1, <2>1 DEF Later
  <2>2. CASE ~(p = q /\ k = kk)
    <3>1. x = view[p][k] /\ <<p, k>> \notin spoiled
      BY <1>1, <2>2 DEF Later
    <3> QED
      BY <1>1, <2>2, <3>1 DEF WordsCurrent
  <2> QED
    BY <2>1, <2>2
<1>3. ~Has(ls, q)
  BY <1>1
<1>4. Good(mem2, ls, <<>>, p, k, x)
  BY <1>2, <1>3, GoodToMemory
<1> QED
  BY <1>1, <1>4

\* A full buffer gives its oldest entry to memory.
LEMMA DataHeadWritten ==
  ASSUME NEW mem, NEW cache, NEW buf, DataShape(mem, cache, buf), buf # <<>>,
         WordsCurrent(mem, cache, buf, view, spoiled)
  PROVE  /\ DataShape(Drained(mem, <<Head(buf)>>), cache, Tail(buf))
         /\ WordsCurrent(Drained(mem, <<Head(buf)>>), cache, Tail(buf), view, spoiled)
<1>1. mem \in Memories /\ buf \in Seq(Buffered) /\ Apart(cache.lines, buf)
  BY DEF DataShape
<1>2. /\ Head(buf) \in Buffered /\ Tail(buf) \in Seq(Buffered) /\ Len(Tail(buf)) = Len(buf) - 1
      /\ \A t \in 1 .. Len(buf) - 1 : Tail(buf)[t] = buf[t + 1]
  BY <1>1, HeadTailProperties
<1>3. PICK rest \in Seq(Buffered) : rest = Tail(buf)
  BY <1>2
<1>4. PICK mem2 : mem2 = Drained(mem, <<Head(buf)>>)
  OBVIOUS
<1>5. mem2 \in Memories
  <2>1. PICK h \in Buffered : h = Head(buf)
    BY <1>2
  <2>2. PICK one \in Seq(Buffered) : one = <<h>>
    BY OneEntry
  <2>3. Drained(mem, one) \in Memories
    BY <1>1, DrainedTyped
  <2> QED
    BY <1>4, <2>1, <2>2, <2>3
<1>6. ASSUME NEW t \in 1 .. Len(rest) PROVE t + 1 \in 1 .. Len(buf) /\ rest[t] = buf[t + 1]
  BY <1>1, <1>2, <1>3, LenProperties
<1>7. Apart(cache.lines, rest)
  BY <1>1, <1>6 DEF Apart
<1>8. ASSUME NEW t \in 1 .. Len(rest)
      PROVE  \E va \in Page : table[va].mapped /\ table[va].b /\ table[va].pa = rest[t].pa
  BY <1>6 DEF DataShape
<1>9. ASSUME ~On PROVE rest = <<>>
  BY <1>9 DEF DataShape
<1>10. DataShape(mem2, cache, rest)
  BY <1>5, <1>7, <1>8, <1>9 DEF DataShape
<1>11. ASSUME NEW p \in Page, NEW k \in Word, <<p, k>> \notin spoiled
       PROVE  Good(mem2, cache.lines, rest, p, k, view[p][k])
  <2>1. Good(mem, cache.lines, buf, p, k, view[p][k])
    BY <1>11 DEF WordsCurrent
  <2> QED
    BY <1>1, <1>3, <1>4, <2>1, GoodHead
<1>12. WordsCurrent(mem2, cache, rest, view, spoiled)
  BY <1>11 DEF WordsCurrent
<1> QED
  BY <1>3, <1>4, <1>10, <1>12, Zenon
-------------------------------------------------------------------------------
\* The same, of the next state.

LEMMA InstrKept ==
  ASSUME UNCHANGED <<control, table, view, spoiled>>, NEW ic, InstrInv(ic), icache' = ic
  PROVE  InstrInv(icache)'
BY DEF InstrInv, LinesMapped, HasMemory, PaOf, On, Wrong

LEMMA DataKept ==
  ASSUME UNCHANGED <<control, table>>, NEW m, NEW d, NEW b, DataShape(m, d, b),
         memory' = m, dcache' = d, wb' = b
  PROVE  DataShape(memory, dcache, wb)'
BY DEF DataShape, LinesMapped, HasMemory, PaOf, On, Apart, Has

LEMMA WordsKept ==
  ASSUME NEW m, NEW d, NEW b, NEW stored, NEW wrong, WordsCurrent(m, d, b, stored, wrong),
         memory' = m, dcache' = d, wb' = b, view' = stored, spoiled' = wrong
  PROVE  WordsCurrent(memory, dcache, wb, view, spoiled)'
BY DEF WordsCurrent

LEMMA ItlbKept ==
  ASSUME UNCHANGED table, NEW t, TlbInv(t), itlb' = t
  PROVE  TlbInv(itlb)'
BY DEF TlbInv, TlbCurrent

LEMMA DtlbKept ==
  ASSUME UNCHANGED table, NEW t, TlbInv(t), dtlb' = t
  PROVE  TlbInv(dtlb)'
BY DEF TlbInv, TlbCurrent

LEMMA MappingKept == Mapping /\ UNCHANGED table => Mapping'
BY DEF Mapping

LEMMA NextInv ==
  ASSUME Mapping', (view \in Memories)', TlbInv(itlb)', TlbInv(dtlb)', InstrInv(icache)',
         DataShape(memory, dcache, wb)', WordsCurrent(memory, dcache, wb, view, spoiled)'
  PROVE  MmuInv'
BY DEF MmuInv

LEMMA StutterKeeps == MmuInv /\ UNCHANGED vars => MmuInv'
<1> SUFFICES ASSUME MmuInv, UNCHANGED vars PROVE MmuInv'
  OBVIOUS
<1>1. UNCHANGED <<control, table, view, spoiled, icache, dcache, memory, wb, itlb, dtlb>>
  BY DEF vars
<1>2. Mapping' /\ (view \in Memories)'
  BY <1>1, MappingKept DEF MmuInv
<1>3. TlbInv(itlb)' /\ TlbInv(dtlb)'
  BY <1>1, ItlbKept, DtlbKept DEF MmuInv
<1>4. InstrInv(icache)'
  BY <1>1, InstrKept DEF MmuInv
<1>5. DataShape(memory, dcache, wb)'
  BY <1>1, DataKept DEF MmuInv
<1>6. WordsCurrent(memory, dcache, wb, view, spoiled)'
  BY <1>1, WordsKept DEF MmuInv
<1> QED
  BY <1>2, <1>3, <1>4, <1>5, <1>6, NextInv

\* What an access to va is translated to.
LEMMA Translated ==
  ASSUME Mapping, NEW tlb, TlbInv(tlb), NEW va \in Page, On
  PROVE  /\ TlbInv(translate(tlb, va).tlb)
         /\ translate(tlb, va).e.mapped =>
              /\ translate(tlb, va).e = table[va]
              /\ translate(tlb, va).e.pa # FlushPage =>
                   HasMemory(va) /\ translate(tlb, va).e.pa = PaOf(va) /\ PaOf(va) \in Page
<1>1. PICK e, new : e = translate(tlb, va).e /\ new = translate(tlb, va).tlb
  OBVIOUS
<1>2. /\ e = IF table[va].mapped THEN table[va] ELSE NoEntry
      /\ new \in Tlbs /\ TlbCurrent(new)
  BY <1>1, TranslateIs DEF TlbInv, Mapping
<1>3. e.mapped => e = table[va] /\ table[va].mapped
  <2>1. CASE table[va].mapped
    BY <1>2, <2>1
  <2>2. CASE ~table[va].mapped
    BY <1>2, <2>2, NoEntryTyped
  <2> QED
    BY <2>1, <2>2
<1>4. table[va] \in Entry
  BY DEF Mapping
<1>5. table[va].pa \in Page \cup {FlushPage}
  BY <1>4 DEF Entry
<1>6. ASSUME e.mapped, e.pa # FlushPage
      PROVE  HasMemory(va) /\ e.pa = PaOf(va) /\ PaOf(va) \in Page
  BY <1>3, <1>5, <1>6 DEF HasMemory, PaOf
<1>7. TlbInv(new)
  BY <1>2 DEF TlbInv
<1> QED
  BY <1>1, <1>3, <1>6, <1>7

LEMMA Untranslated ==
  ASSUME NEW va \in Page, ~On
  PROVE  HasMemory(va) /\ PaOf(va) = va
BY DEF HasMemory, PaOf

LEMMA FlatFields == ASSUME NEW va PROVE Flat(va).pa = va /\ Flat(va).mapped
BY DEF Flat

LEMMA LoadKeeps ==
  ASSUME MmuInv, NEW va \in Page, NEW user \in BOOLEAN, arm920t_mmu_load_instr(va, user)
  PROVE  MmuInv'
<1>1. PICK tr : tr = IF On THEN translate(itlb, va) ELSE [e |-> Flat(va), tlb |-> itlb]
  OBVIOUS
<1>2. PICK c, mem2 : c = icache.cycle /\ mem2 = mmu_cache_write_back(memory, icache, {c})
  OBVIOUS
<1>3. /\ tr.e.pa # FlushPage /\ itlb' = tr.tlb
      /\ IF check_access(tr.e, TRUE, user) /\ mmu_cache_search(icache, va) = {} /\ tr.e.c
           THEN memory' = mem2 /\ icache' = Filled(mem2, icache, va, tr.e.pa)
           ELSE UNCHANGED <<memory, icache>>
      /\ UNCHANGED <<control, table, dtlb, dcache, wb, view, spoiled>>
  BY <1>1, <1>2, Zenon DEF arm920t_mmu_load_instr
<1>4. /\ Mapping /\ view \in Memories /\ TlbInv(itlb) /\ TlbInv(dtlb) /\ InstrInv(icache)
      /\ DataShape(memory, dcache, wb) /\ WordsCurrent(memory, dcache, wb, view, spoiled)
  BY DEF MmuInv
<1>5. TlbInv(tr.tlb) /\ (tr.e.mapped => HasMemory(va) /\ tr.e.pa = PaOf(va) /\ PaOf(va) \in Page)
  <2>1. CASE On
    <3>1. tr = translate(itlb, va)
      BY <1>1, <2>1
    <3> QED
      BY <1>3, <1>4, <2>1, <3>1, Translated, Zenon
  <2>2. CASE ~On
    <3>1. tr = [e |-> Flat(va), tlb |-> itlb]
      BY <1>1, <2>2
    <3>2. tr.e = Flat(va) /\ tr.tlb = itlb
      BY <3>1, Zenon
    <3> QED
      BY <1>4, <2>2, <3>2, Untranslated, FlatFields
  <2> QED
    BY <2>1, <2>2
<1>6. Mapping' /\ (view \in Memories)' /\ TlbInv(itlb)' /\ TlbInv(dtlb)'
  BY <1>3, <1>4, <1>5, MappingKept, ItlbKept, DtlbKept
<1>7. CASE UNCHANGED <<memory, icache>>
  <2>1. InstrInv(icache)'
    BY <1>3, <1>4, <1>7, InstrKept
  <2>2. DataShape(memory, dcache, wb)'
    BY <1>3, <1>4, <1>7, DataKept
  <2>3. WordsCurrent(memory, dcache, wb, view, spoiled)'
    BY <1>3, <1>4, <1>7, WordsKept
  <2> QED
    BY <1>6, <2>1, <2>2, <2>3, NextInv
<1>8. CASE /\ check_access(tr.e, TRUE, user) /\ mmu_cache_search(icache, va) = {}
           /\ memory' = mem2 /\ icache' = Filled(mem2, icache, va, tr.e.pa)
  <2>1. HasMemory(va) /\ tr.e.pa = PaOf(va) /\ PaOf(va) \in Page
    BY <1>5, <1>8 DEF check_access
  <2>2. {c} \in SUBSET (0 .. I_WAY - 1)
    BY <1>2, <1>4, CacheFields DEF InstrInv
  <2>3. DataShape(mem2, dcache, wb) /\ WordsCurrent(mem2, dcache, wb, view, spoiled)
    BY <1>2, <1>4, <2>2, InstrWrittenBack
  <2>4. PICK pa \in Page : pa = PaOf(va)
    BY <2>1
  <2>5. mem2 \in Memories
    BY <2>3 DEF DataShape
  <2>6. InstrInv(Filled(mem2, icache, va, pa))
    BY <1>4, <1>8, <2>1, <2>4, <2>5, InstrFilled
  <2>7. InstrInv(icache)'
    <3>1. icache' = Filled(mem2, icache, va, pa)
      BY <1>8, <2>1, <2>4
    <3> QED
      BY <1>3, <2>6, <3>1, InstrKept
  <2>8. DataShape(memory, dcache, wb)'
    BY <1>3, <1>8, <2>3, DataKept
  <2>9. WordsCurrent(memory, dcache, wb, view, spoiled)'
    BY <1>3, <1>8, <2>3, WordsKept
  <2> QED
    BY <1>6, <2>7, <2>8, <2>9, NextInv
<1> QED
  BY <1>3, <1>7, <1>8

\* The invariant of the D side from its parts, when the rest is as it was.
LEMMA DataSideKeeps ==
  ASSUME MmuInv, UNCHANGED <<control, table, itlb, icache, view, spoiled>>, TlbInv(dtlb)',
         NEW m, NEW d, NEW b, DataShape(m, d, b), WordsCurrent(m, d, b, view, spoiled),
         memory' = m, dcache' = d, wb' = b
  PROVE  MmuInv'
<1>1. /\ Mapping /\ view \in Memories /\ TlbInv(itlb) /\ InstrInv(icache)
  BY DEF MmuInv
<1>2. Mapping' /\ (view \in Memories)' /\ TlbInv(itlb)'
  BY <1>1, MappingKept, ItlbKept
<1>3. InstrInv(icache)'
  BY <1>1, InstrKept
<1>4. DataShape(memory, dcache, wb)'
  BY DataKept
<1>5. WordsCurrent(memory, dcache, wb, view, spoiled)'
  BY WordsKept
<1> QED
  BY <1>2, <1>3, <1>4, <1>5, NextInv

\* A page without the bufferable bit has nothing in the buffer.
LEMMA NotBuffered ==
  ASSUME Mapping, NEW mem, NEW cache, NEW buf, DataShape(mem, cache, buf),
         NEW va \in Page, table[va].mapped, ~table[va].b
  PROVE  \A t \in 1 .. Len(buf) : buf[t].pa # table[va].pa
BY DEF DataShape, Mapping

LEMMA ReadKeeps ==
  ASSUME MmuInv, NEW va \in Page, NEW user \in BOOLEAN, arm920t_mmu_read(va, user)
  PROVE  MmuInv'
<1>1. PICK tr : tr = translate(dtlb, va)
  OBVIOUS
<1>2. /\ On /\ dtlb' = tr.tlb
      /\ \/ UNCHANGED <<memory, dcache, wb>>
         \/ /\ check_access(tr.e, TRUE, user) /\ mmu_cache_search(dcache, va) = {}
            /\ tr.e.pa # FlushPage /\ Fill(va, tr.e)
         \/ \E i \in DOMAIN dcache.lines : SoftFlush(i)
      /\ UNCHANGED <<control, table, itlb, icache, view, spoiled>>
  BY <1>1 DEF arm920t_mmu_read
<1>3. /\ Mapping /\ TlbInv(dtlb) /\ DataShape(memory, dcache, wb)
      /\ WordsCurrent(memory, dcache, wb, view, spoiled)
  BY DEF MmuInv
<1>4. /\ TlbInv(tr.tlb)
      /\ tr.e.mapped =>
           /\ tr.e = table[va]
           /\ tr.e.pa # FlushPage => HasMemory(va) /\ tr.e.pa = PaOf(va) /\ PaOf(va) \in Page
  BY <1>1, <1>2, <1>3, Translated
<1>5. TlbInv(dtlb)'
  BY <1>2, <1>4, DtlbKept
<1>6. dcache \in Caches(D_WAY) /\ DOMAIN dcache.lines = 0 .. D_WAY - 1 /\ dcache.cycle \in 0 .. D_WAY - 1
  BY <1>3, CacheFields DEF DataShape
<1>7. CASE UNCHANGED <<memory, dcache, wb>>
  BY <1>2, <1>3, <1>5, <1>7, DataSideKeeps
<1>8. ASSUME NEW i \in DOMAIN dcache.lines, SoftFlush(i) PROVE MmuInv'
  <2>1. PICK m, d : m = mmu_cache_write_back(memory, dcache, {i}) /\ d = mmu_cache_invalidate(dcache, {i})
    OBVIOUS
  <2>2. memory' = m /\ dcache' = d /\ wb' = wb
    BY <1>8, <2>1 DEF SoftFlush
  <2>3. {i} \in SUBSET (0 .. D_WAY - 1)
    BY <1>6, <1>8
  <2>4. DataShape(m, d, wb) /\ WordsCurrent(m, d, wb, view, spoiled)
    BY <1>3, <2>1, <2>3, DataInvalidated
  <2> QED
    BY <1>2, <1>5, <2>2, <2>4, DataSideKeeps
<1>9. CASE /\ check_access(tr.e, TRUE, user) /\ mmu_cache_search(dcache, va) = {}
           /\ tr.e.pa # FlushPage /\ Fill(va, tr.e)
  <2>1. tr.e.mapped
    BY <1>9 DEF check_access
  <2>2. PICK e, pa : e = tr.e /\ pa = tr.e.pa
    OBVIOUS
  <2>3. /\ e = table[va] /\ e.mapped /\ HasMemory(va) /\ pa \in Page /\ pa = PaOf(va)
        /\ pa = table[va].pa /\ pa = e.pa
    BY <1>4, <1>9, <2>1, <2>2
  <2>4. PICK mem, buf : /\ mem = IF e.b THEN Drained(memory, wb) ELSE memory
                        /\ buf = IF e.b THEN <<>> ELSE wb
    OBVIOUS
  <2>5. DataShape(mem, dcache, buf) /\ WordsCurrent(mem, dcache, buf, view, spoiled)
    <3>1. CASE e.b
      <4>1. PICK m : m = Drained(memory, wb)
        OBVIOUS
      <4>2. DataShape(m, dcache, <<>>) /\ WordsCurrent(m, dcache, <<>>, view, spoiled)
        BY <1>3, <4>1, DataDrained
      <4>3. mem = m /\ buf = <<>>
        BY <2>4, <3>1, <4>1
      <4> QED
        BY <4>2, <4>3, Zenon
    <3>2. CASE ~e.b
      BY <1>3, <2>4, <3>2
    <3> QED
      BY <3>1, <3>2
  <2>6. \A t \in 1 .. Len(buf) : buf[t].pa # pa
    <3>1. CASE e.b
      BY <2>4, <3>1
    <3>2. CASE ~e.b
      <4>1. buf = wb
        BY <2>4, <3>2
      <4> QED
        BY <1>3, <2>3, <3>2, <4>1, NotBuffered
    <3> QED
      BY <3>1, <3>2
  <2>7. PICK mem2, new : /\ mem2 = mmu_cache_write_back(mem, dcache, {dcache.cycle})
                         /\ new = Filled(mem2, dcache, va, pa)
    OBVIOUS
  <2>8. /\ wb' = buf
        /\ \/ memory' = mem2 /\ dcache' = new
           \/ memory' = mem /\ UNCHANGED dcache
    BY <1>9, <2>2, <2>3, <2>4, <2>7, Zenon DEF Fill
  <2>9. DataShape(mem2, new, buf) /\ WordsCurrent(mem2, new, buf, view, spoiled)
    BY <1>2, <1>3, <1>9, <2>3, <2>5, <2>6, <2>7, DataFilled
  <2>10. CASE memory' = mem2 /\ dcache' = new
    BY <1>2, <1>5, <2>8, <2>9, <2>10, DataSideKeeps
  <2>11. CASE memory' = mem /\ UNCHANGED dcache
    BY <1>2, <1>5, <2>5, <2>8, <2>11, DataSideKeeps
  <2> QED
    BY <2>8, <2>10, <2>11
<1> QED
  BY <1>2, <1>7, <1>8, <1>9

\* Stores.
LEMMA UpdatedLines ==
  ASSUME NEW way, NEW cache \in Caches(way), NEW va, NEW k \in Word, NEW v \in Value, NEW new,
         new = update_cache(cache, va, k, v)
  PROVE  /\ new \in Caches(way) /\ new.lines \in Lines(way) /\ cache.lines \in Lines(way)
         /\ \A i \in 0 .. way - 1 :
              /\ new.lines[i] = IF cache.lines[i].valid /\ cache.lines[i].va = va
                                  THEN StoredLine(cache.lines[i], k, v) ELSE cache.lines[i]
              /\ new.lines[i].valid = cache.lines[i].valid
              /\ new.lines[i].va = cache.lines[i].va /\ new.lines[i].pa = cache.lines[i].pa
<1>1. PICK ls \in Lines(way) : ls = cache.lines /\ DOMAIN ls = 0 .. way - 1
  BY CacheFields
<1>2. PICK nl : nl = new.lines
  OBVIOUS
<1>3. new \in Caches(way)
  BY UpdateIs
<1>4. nl = [i \in 0 .. way - 1 |-> IF i \in mmu_cache_search(cache, va) THEN StoredLine(ls[i], k, v)
                                                                    ELSE ls[i]]
  BY <1>1, <1>2, UpdateIs
<1>5. ASSUME NEW i \in 0 .. way - 1
      PROVE  /\ nl[i] = IF ls[i].valid /\ ls[i].va = va THEN StoredLine(ls[i], k, v) ELSE ls[i]
             /\ nl[i].valid = ls[i].valid /\ nl[i].va = ls[i].va /\ nl[i].pa = ls[i].pa
  <2>1. PICK l \in LineTypes : l = ls[i]
    BY DEF Lines
  <2>2. PICK m : m = StoredLine(l, k, v)
    OBVIOUS
  <2>3. m.valid = l.valid /\ m.va = l.va /\ m.pa = l.pa
    <3> HIDE <2>1
    <3> QED
      BY <2>2, StoredLineIs
  <2>4. nl[i] = IF i \in mmu_cache_search(cache, va) THEN m ELSE l
    BY <1>4, <2>1, <2>2
  <2>5. i \in mmu_cache_search(cache, va) <=> l.valid /\ l.va = va
    BY <1>1, <2>1 DEF mmu_cache_search
  <2> QED
    BY <2>1, <2>2, <2>3, <2>4, <2>5
<1>6. nl \in Lines(way)
  BY <1>2, <1>3, CacheFields
<1> QED
  BY <1>1, <1>2, <1>3, <1>5, <1>6

LEMMA UpdateMisses ==
  ASSUME NEW way, NEW cache \in Caches(way), NEW va, NEW k, NEW v, mmu_cache_search(cache, va) = {}
  PROVE  update_cache(cache, va, k, v) = cache
<1>1. PICK ls, cy : /\ ls \in Lines(way) /\ DOMAIN ls = 0 .. way - 1
                    /\ cache = [lines |-> ls, cycle |-> cy] /\ cache.lines = ls
  BY CacheFields
<1>2. PICK new : new = [i \in DOMAIN cache.lines |->
                          IF i \in mmu_cache_search(cache, va) THEN StoredLine(cache.lines[i], k, v)
                                                               ELSE cache.lines[i]]
  OBVIOUS
<1>3. update_cache(cache, va, k, v) = [cache EXCEPT !.lines = new]
  BY <1>2, Zenon DEF update_cache
<1>4. new = [i \in DOMAIN ls |-> ls[i]]
  BY <1>1, <1>2
<1>5. new = ls
  BY <1>1, <1>4 DEF Lines
<1> QED
  BY <1>1, <1>3, <1>5

LEMMA InstrStored ==
  ASSUME InstrInv(icache), UNCHANGED <<control, table>>, NEW va, NEW k \in Word, NEW v \in Value,
         icache' = update_cache(icache, va, k, v), Wrong(icache', view') \subseteq spoiled'
  PROVE  InstrInv(icache)'
<1>1. PICK old, new : old = icache /\ new = icache'
  OBVIOUS
<1>2. old \in Caches(I_WAY) /\ LinesMapped(old.lines) /\ new = update_cache(old, va, k, v)
  BY <1>1 DEF InstrInv
<1>3. /\ new \in Caches(I_WAY) /\ new.lines \in Lines(I_WAY) /\ old.lines \in Lines(I_WAY)
      /\ \A i \in 0 .. I_WAY - 1 :
           /\ new.lines[i].valid = old.lines[i].valid
           /\ new.lines[i].va = old.lines[i].va /\ new.lines[i].pa = old.lines[i].pa
  BY <1>2, UpdatedLines
<1>4. LinesMapped(new.lines)
  BY <1>2, <1>3, FewerMapped
<1>5. LinesMapped(icache.lines)'
  BY <1>1, <1>4 DEF LinesMapped, HasMemory, PaOf, On
<1> QED
  BY <1>1, <1>3, <1>5 DEF InstrInv

LEMMA StoredLater ==
  ASSUME view \in Memories, NEW q \in Page, NEW kk \in Word, NEW v \in Value, Stored(q, kk, v)
  PROVE  (view \in Memories)' /\ Later(q, kk, v, view', spoiled') /\ Wrong(icache', view') \subseteq spoiled'
<1>1. view' = [view EXCEPT ![q][kk] = v] /\ spoiled' = (spoiled \ {<<q, kk>>}) \cup Wrong(icache', view')
  BY DEF Stored
<1>2. PICK W : W = Wrong(icache', view')
  OBVIOUS
<1>3. view' \in Memories /\ view'[q][kk] = v
  BY <1>1 DEF Memories
<1>4. ASSUME NEW p \in Page, NEW k \in Word, ~(p = q /\ k = kk) PROVE view'[p][k] = view[p][k]
  BY <1>1, <1>4 DEF Memories
<1>5. ASSUME NEW p \in Page, NEW k \in Word, ~(p = q /\ k = kk), <<p, k>> \in spoiled
      PROVE  <<p, k>> \in spoiled'
  <2>1. spoiled' = (spoiled \ {<<q, kk>>}) \cup W
    BY <1>1, <1>2
  <2>2. <<p, k>> # <<q, kk>>
    BY <1>5
  <2> QED
    BY <1>5, <2>1, <2>2
<1>6. Wrong(icache', view') \subseteq spoiled'
  BY <1>1, <1>2
<1> QED
  BY <1>3, <1>4, <1>5, <1>6 DEF Later

LEMMA RefusedKeeps ==
  ASSUME MmuInv, Refused, UNCHANGED <<control, table, itlb, dcache, wb, memory>>, TlbInv(dtlb)',
         NEW va, NEW k \in Word, NEW v \in Value, icache' = update_cache(icache, va, k, v)
  PROVE  MmuInv'
<1>1. /\ Mapping /\ view \in Memories /\ TlbInv(itlb) /\ InstrInv(icache)
      /\ DataShape(memory, dcache, wb) /\ WordsCurrent(memory, dcache, wb, view, spoiled)
  BY DEF MmuInv
<1>2. view' = view /\ spoiled' = spoiled \cup Wrong(icache', view)
  BY DEF Refused
<1>3. Mapping' /\ (view \in Memories)' /\ TlbInv(itlb)'
  BY <1>1, <1>2, MappingKept, ItlbKept
<1>4. Wrong(icache', view') \subseteq spoiled'
  BY <1>2
<1>5. InstrInv(icache)'
  BY <1>1, <1>4, InstrStored
<1>6. DataShape(memory, dcache, wb)'
  BY <1>1, DataKept
<1>7. WordsCurrent(memory, dcache, wb, view, spoiled')
  BY <1>1, <1>2 DEF WordsCurrent
<1>8. WordsCurrent(memory, dcache, wb, view, spoiled)'
  BY <1>2, <1>7, WordsKept
<1> QED
  BY <1>3, <1>5, <1>6, <1>8, NextInv

LEMMA MisalignedKeeps ==
  ASSUME MmuInv, NEW s \in Stores, WriteMisaligned(s.va, s.k, s.v)
  PROVE  MmuInv'
<1>1. /\ icache' = update_cache(icache, s.va, s.k, s.v) /\ Refused
      /\ UNCHANGED <<control, table, itlb, dtlb, dcache, wb, memory>>
  BY DEF WriteMisaligned
<1>2. s.k \in Word /\ s.v \in Value
  BY ProgramConstants DEF Value
<1>3. TlbInv(dtlb)'
  BY <1>1, DtlbKept DEF MmuInv
<1> QED
  BY <1>1, <1>2, <1>3, RefusedKeeps

\* A store that may be done: what the D side is then.
LEMMA StoreKeeps ==
  ASSUME MmuInv, UNCHANGED <<control, table, itlb>>, TlbInv(dtlb)', NEW va, NEW q \in Page,
         NEW k \in Word, NEW v \in Value, icache' = update_cache(icache, va, k, v), Stored(q, k, v),
         NEW m, NEW d, NEW b, DataShape(m, d, b), WordsCurrent(m, d, b, view', spoiled'),
         memory' = m, dcache' = d, wb' = b
  PROVE  MmuInv'
<1>1. /\ Mapping /\ view \in Memories /\ TlbInv(itlb) /\ InstrInv(icache)
  BY DEF MmuInv
<1>2. (view \in Memories)' /\ Wrong(icache', view') \subseteq spoiled'
  BY <1>1, StoredLater
<1>3. Mapping' /\ TlbInv(itlb)'
  BY <1>1, MappingKept, ItlbKept
<1>4. InstrInv(icache)'
  BY <1>1, <1>2, InstrStored
<1>5. DataShape(memory, dcache, wb)'
  BY DataKept
<1>6. WordsCurrent(memory, dcache, wb, view, spoiled)'
  BY WordsKept
<1> QED
  BY <1>2, <1>3, <1>4, <1>5, <1>6, NextInv

LEMMA LinesHit ==
  ASSUME Mapping, NEW mem, NEW cache, NEW buf, DataShape(mem, cache, buf), On,
         NEW va \in Page, HasMemory(va), NEW q \in Page, q = PaOf(va), NEW k \in Word, NEW v \in Value,
         mmu_cache_search(cache, va) # {}, NEW new, new = update_cache(cache, va, k, v)
  PROVE  /\ DataShape(mem, new, buf) /\ Has(cache.lines, q)
         /\ StoredLines(cache.lines, q, k, v, new.lines)
<1>1. cache \in Caches(D_WAY) /\ LinesMapped(cache.lines) /\ Apart(cache.lines, buf)
  BY DEF DataShape
<1>2. /\ new \in Caches(D_WAY) /\ new.lines \in Lines(D_WAY) /\ cache.lines \in Lines(D_WAY)
      /\ \A i \in 0 .. D_WAY - 1 :
           /\ new.lines[i] = IF cache.lines[i].valid /\ cache.lines[i].va = va
                               THEN StoredLine(cache.lines[i], k, v) ELSE cache.lines[i]
           /\ new.lines[i].valid = cache.lines[i].valid
           /\ new.lines[i].va = cache.lines[i].va /\ new.lines[i].pa = cache.lines[i].pa
  BY <1>1, UpdatedLines
<1>3. LinesMapped(new.lines) /\ \A p : Has(new.lines, p) => Has(cache.lines, p)
  <2>1. \A i \in 0 .. D_WAY - 1 :
          new.lines[i].valid => /\ cache.lines[i].valid /\ new.lines[i].va = cache.lines[i].va
                                /\ new.lines[i].pa = cache.lines[i].pa
    BY <1>2
  <2>2. new.lines \in Lines(D_WAY) /\ cache.lines \in Lines(D_WAY)
    BY <1>2
  <2> QED
    BY <1>1, <2>1, <2>2, FewerMapped
<1>4. Apart(new.lines, buf)
  BY <1>1, <1>3 DEF Apart
<1>5. DataShape(mem, new, buf)
  <2>1. new \in Caches(D_WAY)
    BY <1>2
  <2> QED
    BY <1>3, <1>4, <2>1 DEF DataShape
<1>6. PICK ls \in Lines(D_WAY) : ls = cache.lines /\ DOMAIN ls = 0 .. D_WAY - 1
  BY <1>1, CacheFields
<1>7. ASSUME NEW i \in 0 .. D_WAY - 1, ls[i].valid PROVE ls[i].va = va <=> ls[i].pa = q
  <2>1. HasMemory(ls[i].va) /\ ls[i].pa = PaOf(ls[i].va)
    BY <1>1, <1>6, <1>7 DEF LinesMapped
  <2>2. ls[i].va \in Page
    BY DEF Lines, LineTypes
  <2>3. ls[i].va = va => ls[i].pa = q
    BY <2>1
  <2>4. ASSUME ls[i].pa = q PROVE ls[i].va = va
    BY <2>1, <2>2, <2>4, PagesApart
  <2> QED
    BY <2>3, <2>4
<1>8. Has(ls, q)
  <2>1. PICK i \in 0 .. D_WAY - 1 : ls[i].valid /\ ls[i].va = va
    BY <1>6 DEF mmu_cache_search
  <2>2. ls[i].pa = q
    BY <1>7, <2>1
  <2> QED
    BY <1>6, <2>1, <2>2 DEF Has
<1>9. StoredLines(ls, q, k, v, new.lines)
  <2>1. ASSUME NEW i \in 0 .. D_WAY - 1
        PROVE  new.lines[i] = IF ls[i].valid /\ ls[i].pa = q THEN StoredLine(ls[i], k, v) ELSE ls[i]
    <3>1. new.lines[i] = IF ls[i].valid /\ ls[i].va = va THEN StoredLine(ls[i], k, v) ELSE ls[i]
      BY <1>2, <1>6
    <3> QED
      BY <1>7, <3>1
  <2> QED
    BY <2>1 DEF StoredLines
<1> QED
  BY <1>5, <1>6, <1>8, <1>9

LEMMA BufferGrows ==
  ASSUME NEW mem, NEW cache, NEW buf, DataShape(mem, cache, buf), On, NEW va \in Page,
         table[va].mapped, table[va].b, NEW new \in Buffered, new.pa = table[va].pa,
         ~Has(cache.lines, new.pa)
  PROVE  DataShape(mem, cache, Append(buf, new))
<1>1. buf \in Seq(Buffered) /\ Apart(cache.lines, buf)
  BY DEF DataShape
<1>2. PICK n \in Nat : n = Len(buf)
  BY <1>1, LenProperties
<1>3. PICK more \in Seq(Buffered) : more = Append(buf, new)
  BY <1>1, AppendProperties
<1>4. Len(more) = n + 1 /\ more[n + 1] = new /\ \A t \in 1 .. n : more[t] = buf[t]
  BY <1>1, <1>2, <1>3, AppendProperties
<1>5. ASSUME NEW t \in 1 .. Len(more)
      PROVE  /\ ~Has(cache.lines, more[t].pa)
             /\ \E w \in Page : table[w].mapped /\ table[w].b /\ table[w].pa = more[t].pa
  <2>1. CASE t = n + 1
    BY <1>4, <2>1
  <2>2. CASE t # n + 1
    <3>1. t \in 1 .. Len(buf) /\ more[t] = buf[t]
      BY <1>2, <1>4, <2>2
    <3> QED
      BY <1>1, <3>1 DEF Apart, DataShape
  <2> QED
    BY <2>1, <2>2
<1>6. DataShape(mem, cache, more)
  BY <1>5 DEF DataShape, Apart
<1> QED
  BY <1>3, <1>6

\* A store that misses the D cache goes to the buffer or, after it, to memory.
LEMMA MissKeeps ==
  ASSUME MmuInv, On, UNCHANGED <<control, table, itlb, dcache>>, TlbInv(dtlb)', NEW va \in Page,
         HasMemory(va), mmu_cache_search(dcache, va) = {}, NEW k \in Word, NEW v \in Value,
         icache' = update_cache(icache, va, k, v), Stored(PaOf(va), k, v),
         WriteMiss(table[va], k, v)
  PROVE  MmuInv'
<1>1. /\ Mapping /\ view \in Memories /\ DataShape(memory, dcache, wb)
      /\ WordsCurrent(memory, dcache, wb, view, spoiled)
  BY DEF MmuInv
<1>2. PICK q \in Page : q = PaOf(va) /\ q = table[va].pa
  BY DEF HasMemory, PaOf
<1>3. table[va].mapped
  BY DEF HasMemory
<1>4. ~Has(dcache.lines, q)
  BY <1>1, <1>2, NoLineOf DEF DataShape
<1>5. Stored(q, k, v) /\ Later(q, k, v, view', spoiled')
  BY <1>1, <1>2, StoredLater
<1>6. PICK new : new = [pa |-> q, k |-> k, v |-> v]
  OBVIOUS
<1>7. new \in Buffered /\ new.pa = q /\ new.k = k /\ new.v = v
  BY <1>6 DEF Buffered
<1>8. Later(new.pa, new.k, new.v, view', spoiled') /\ ~Has(dcache.lines, new.pa)
  BY <1>4, <1>5, <1>7, Zenon
<1>9. CASE table[va].b
  <2>1. mmu_wb_write_bytes(q, k, v)
    BY <1>2, <1>9 DEF WriteMiss
  <2>2. ASSUME NEW m, NEW b, DataShape(m, dcache, b), WordsCurrent(m, dcache, b, view, spoiled),
               memory' = m, wb' = Append(b, new)
        PROVE  MmuInv'
    <3>1. b \in Seq(Buffered)
      BY <2>2 DEF DataShape
    <3>2. PICK more : more = Append(b, new)
      OBVIOUS
    <3>3. DataShape(m, dcache, more)
      BY <1>2, <1>3, <1>7, <1>8, <1>9, <2>2, <3>2, BufferGrows
    <3>4. WordsCurrent(m, dcache, more, view', spoiled')
      BY <1>7, <1>8, <2>2, <3>1, <3>2, WordsAppended
    <3> QED
      BY <1>5, <2>2, <3>2, <3>3, <3>4, StoreKeeps
  <2>3. CASE Len(wb) = WBS
    <3>1. memory' = Drained(memory, <<Head(wb)>>) /\ wb' = Append(Tail(wb), new)
      BY <1>6, <2>1, <2>3 DEF mmu_wb_write_bytes
    <3>2. wb # <<>>
      BY <2>3, MmuConstants
    <3>3. PICK m, b : m = Drained(memory, <<Head(wb)>>) /\ b = Tail(wb)
      OBVIOUS
    <3>4. DataShape(m, dcache, b) /\ WordsCurrent(m, dcache, b, view, spoiled)
      BY <1>1, <3>2, <3>3, DataHeadWritten, Zenon
    <3>5. memory' = m /\ wb' = Append(b, new)
      BY <3>1, <3>3, Zenon
    <3> QED
      BY <2>2, <3>4, <3>5
  <2>4. CASE Len(wb) # WBS
    <3>1. memory' = memory /\ wb' = Append(wb, new)
      BY <1>6, <2>1, <2>4 DEF mmu_wb_write_bytes
    <3> QED
      BY <1>1, <2>2, <3>1
  <2> QED
    BY <2>3, <2>4
<1>10. CASE ~table[va].b
  <2>1. PICK m : m = Drained(memory, wb)
    OBVIOUS
  <2>2. memory' = [m EXCEPT ![q][k] = v] /\ wb' = <<>>
    BY <1>2, <1>10, <2>1 DEF WriteMiss
  <2>3. DataShape(m, dcache, <<>>) /\ WordsCurrent(m, dcache, <<>>, view, spoiled)
    BY <1>1, <2>1, DataDrained
  <2>4. m \in Memories
    BY <2>3 DEF DataShape
  <2>5. PICK mem2 : mem2 = [m EXCEPT ![q][k] = v]
    OBVIOUS
  <2>6. /\ mem2 \in Memories /\ mem2[q][k] = v
        /\ \A p \in Page, j \in Word : ~(p = q /\ j = k) => mem2[p][j] = m[p][j]
    BY <2>4, <2>5 DEF Memories
  <2>7. DataShape(mem2, dcache, <<>>)
    BY <2>3, <2>6 DEF DataShape
  <2>8. memory' = mem2
    BY <2>2, <2>5
  <2> HIDE <2>1, <2>2, <2>5
  <2>9. WordsCurrent(mem2, dcache, <<>>, view', spoiled')
    BY <1>4, <1>5, <2>3, <2>6, WordsToMemory
  <2>10. wb' = <<>>
    BY <2>2
  <2>11. PICK empty : empty = <<>>
    OBVIOUS
  <2>12. DataShape(mem2, dcache, empty) /\ WordsCurrent(mem2, dcache, empty, view', spoiled') /\ wb' = empty
    BY <2>7, <2>9, <2>10, <2>11, Zenon
  <2> QED
    BY <1>5, <2>8, <2>12, StoreKeeps
<1> QED
  BY <1>9, <1>10

LEMMA WriteKeeps ==
  ASSUME MmuInv, NEW s \in Stores, NEW user \in BOOLEAN, arm920t_mmu_write(s.va, user, s.k, s.v)
  PROVE  MmuInv'
<1>1. PICK va \in Page : va = s.va
  BY ProgramConstants
<1>2. PICK k \in Word : k = s.k
  BY ProgramConstants
<1>3. PICK v \in Value : v = s.v
  BY DEF Value
<1>4. PICK tr : tr = IF On THEN translate(dtlb, va) ELSE [e |-> Flat(va), tlb |-> dtlb]
  OBVIOUS
<1>5. /\ tr.e.pa # FlushPage /\ icache' = update_cache(icache, va, k, v) /\ dtlb' = tr.tlb
      /\ \/ /\ ~On /\ memory' = [memory EXCEPT ![va][k] = v] /\ Stored(va, k, v)
            /\ UNCHANGED <<dcache, wb>>
         \/ Refused /\ UNCHANGED <<dcache, wb, memory>>
         \/ /\ On /\ check_access(tr.e, FALSE, user)
            /\ dcache' = update_cache(dcache, va, k, v)
            /\ IF mmu_cache_search(dcache, va) # {} THEN UNCHANGED <<memory, wb>>
               ELSE WriteMiss(tr.e, k, v)
            /\ Stored(tr.e.pa, k, v)
      /\ UNCHANGED <<control, table, itlb>>
  BY <1>1, <1>2, <1>3, <1>4, Zenon DEF arm920t_mmu_write
<1>6. /\ Mapping /\ view \in Memories /\ TlbInv(dtlb)
      /\ DataShape(memory, dcache, wb) /\ WordsCurrent(memory, dcache, wb, view, spoiled)
  BY DEF MmuInv
<1>7. /\ TlbInv(tr.tlb)
      /\ On /\ tr.e.mapped =>
           tr.e = table[va] /\ HasMemory(va) /\ tr.e.pa = PaOf(va) /\ PaOf(va) \in Page
  <2>1. CASE On
    <3>1. tr = translate(dtlb, va)
      BY <1>4, <2>1
    <3> QED
      BY <1>5, <1>6, <2>1, <3>1, Translated, Zenon
  <2>2. CASE ~On
    <3>1. tr = [e |-> Flat(va), tlb |-> dtlb]
      BY <1>4, <2>2
    <3>2. tr.tlb = dtlb
      BY <3>1, Zenon
    <3> QED
      BY <1>6, <2>2, <3>2
  <2> QED
    BY <2>1, <2>2
<1>8. TlbInv(dtlb)'
  BY <1>5, <1>7, DtlbKept
<1>9. CASE /\ ~On /\ memory' = [memory EXCEPT ![va][k] = v] /\ Stored(va, k, v)
           /\ UNCHANGED <<dcache, wb>>
  <2>1. /\ memory \in Memories /\ wb = <<>> /\ dcache \in Caches(D_WAY)
        /\ \A i \in 0 .. D_WAY - 1 : ~dcache.lines[i].valid
    BY <1>6, <1>9 DEF DataShape
  <2>2. ~Has(dcache.lines, va)
    BY <2>1, CacheFields DEF Has
  <2>3. Later(va, k, v, view', spoiled')
    BY <1>6, <1>9, StoredLater
  <2>4. PICK mem2 : mem2 = memory'
    OBVIOUS
  <2>5. /\ mem2 \in Memories /\ mem2[va][k] = v
        /\ \A p \in Page, j \in Word : ~(p = va /\ j = k) => mem2[p][j] = memory[p][j]
    BY <1>9, <2>1, <2>4 DEF Memories
  <2>6. DataShape(mem2, dcache, wb)
    BY <1>6, <2>5 DEF DataShape
  <2>7. WordsCurrent(mem2, dcache, <<>>, view', spoiled')
    <3>1. WordsCurrent(memory, dcache, <<>>, view, spoiled)
      BY <1>6, <2>1
    <3> QED
      BY <2>2, <2>3, <2>5, <3>1, WordsToMemory
  <2>8. WordsCurrent(mem2, dcache, wb, view', spoiled')
    BY <2>1, <2>7
  <2>9. Stored(va, k, v) /\ dcache' = dcache /\ wb' = wb /\ memory' = mem2
    BY <1>9, <2>4
  <2> QED
    BY <1>5, <1>8, <2>6, <2>8, <2>9, StoreKeeps
<1>10. CASE Refused /\ UNCHANGED <<dcache, wb, memory>>
  BY <1>5, <1>8, <1>10, RefusedKeeps
<1>11. CASE /\ On /\ check_access(tr.e, FALSE, user)
            /\ dcache' = update_cache(dcache, va, k, v)
            /\ IF mmu_cache_search(dcache, va) # {} THEN UNCHANGED <<memory, wb>>
               ELSE WriteMiss(tr.e, k, v)
            /\ Stored(tr.e.pa, k, v)
  <2>1. tr.e = table[va] /\ HasMemory(va) /\ tr.e.pa = PaOf(va) /\ PaOf(va) \in Page
    BY <1>7, <1>11 DEF check_access
  <2>2. PICK q \in Page : q = PaOf(va)
    BY <2>1
  <2>3. Stored(q, k, v) /\ Later(q, k, v, view', spoiled')
    BY <1>6, <1>11, <2>1, <2>2, StoredLater
  <2>4. CASE mmu_cache_search(dcache, va) # {}
    <3>1. PICK new : new = update_cache(dcache, va, k, v)
      OBVIOUS
    <3>2. /\ DataShape(memory, new, wb) /\ Has(dcache.lines, q)
          /\ StoredLines(dcache.lines, q, k, v, new.lines)
      BY <1>6, <1>11, <2>1, <2>2, <2>4, <3>1, LinesHit
    <3>3. dcache \in Caches(D_WAY) /\ new \in Caches(D_WAY)
      BY <1>6, <3>2 DEF DataShape
    <3>4. WordsCurrent(memory, new, wb, view', spoiled')
      <4> HIDE <3>1
      <4> QED
        BY <1>6, <2>3, <3>2, <3>3, WordsStored
    <3>5. memory' = memory /\ wb' = wb /\ dcache' = new
      BY <1>11, <2>4, <3>1
    <3> QED
      BY <1>5, <1>8, <2>3, <3>2, <3>4, <3>5, StoreKeeps
  <2>5. CASE mmu_cache_search(dcache, va) = {}
    <3>1. dcache' = dcache
      BY <1>6, <1>11, <2>5, UpdateMisses DEF DataShape
    <3>2. WriteMiss(table[va], k, v) /\ Stored(PaOf(va), k, v)
      BY <1>11, <2>1, <2>5, Zenon
    <3> QED
      BY <1>5, <1>8, <1>11, <2>1, <2>5, <3>1, <3>2, MissKeeps
  <2> QED
    BY <2>4, <2>5
<1> QED
  BY <1>5, <1>9, <1>10, <1>11

\* CP15 operations.
LEMMA SidesKeep ==
  ASSUME MmuInv, UNCHANGED <<control, table, itlb, dtlb, view, spoiled>>, NEW ic, InstrInv(ic),
         NEW m, NEW d, NEW b, DataShape(m, d, b), WordsCurrent(m, d, b, view, spoiled),
         icache' = ic, memory' = m, dcache' = d, wb' = b
  PROVE  MmuInv'
<1>1. Mapping /\ view \in Memories /\ TlbInv(itlb) /\ TlbInv(dtlb)
  BY DEF MmuInv
<1>2. Mapping' /\ (view \in Memories)' /\ TlbInv(itlb)' /\ TlbInv(dtlb)'
  BY <1>1, MappingKept, ItlbKept, DtlbKept
<1>3. InstrInv(icache)'
  BY InstrKept
<1>4. DataShape(memory, dcache, wb)'
  BY DataKept
<1>5. WordsCurrent(memory, dcache, wb, view, spoiled)'
  BY WordsKept
<1> QED
  BY <1>2, <1>3, <1>4, <1>5, NextInv

\* The lines I of the I cache and D of the D cache are written back and go.
LEMMA BothInvalidated ==
  ASSUME Mapping, InstrInv(icache), DataShape(memory, dcache, wb),
         WordsCurrent(memory, dcache, wb, view, spoiled),
         NEW I \in SUBSET (0 .. I_WAY - 1), NEW D \in SUBSET (0 .. D_WAY - 1),
         NEW mem, mem = mmu_cache_write_back(memory, icache, I),
         NEW mem2, mem2 = mmu_cache_write_back(mem, dcache, D),
         NEW ic, ic = mmu_cache_invalidate(icache, I), NEW dc, dc = mmu_cache_invalidate(dcache, D)
  PROVE  InstrInv(ic) /\ DataShape(mem2, dc, wb) /\ WordsCurrent(mem2, dc, wb, view, spoiled)
<1>1. InstrInv(ic)
  BY InstrInvalidated
<1>2. DataShape(mem, dcache, wb) /\ WordsCurrent(mem, dcache, wb, view, spoiled)
  BY InstrWrittenBack
<1>3. DataShape(mem2, dc, wb) /\ WordsCurrent(mem2, dc, wb, view, spoiled)
  <2>1. PICK m, n, c : m = mem /\ n = mem2 /\ c = dc
    OBVIOUS
  <2>2. DataShape(m, dcache, wb) /\ WordsCurrent(m, dcache, wb, view, spoiled)
    BY <1>2, <2>1, Zenon
  <2>3. n = mmu_cache_write_back(m, dcache, D) /\ c = mmu_cache_invalidate(dcache, D)
    BY <2>1, Zenon
  <2>4. DataShape(n, c, wb) /\ WordsCurrent(n, c, wb, view, spoiled)
    BY <2>2, <2>3, DataInvalidated
  <2> QED
    BY <2>1, <2>4, Zenon
<1> QED
  BY <1>1, <1>3

LEMMA CacheDomains ==
  ASSUME MmuInv
  PROVE  /\ DOMAIN icache.lines = 0 .. I_WAY - 1 /\ DOMAIN dcache.lines = 0 .. D_WAY - 1
         /\ icache \in Caches(I_WAY) /\ dcache \in Caches(D_WAY)
         /\ \A va : /\ mmu_cache_search(icache, va) \in SUBSET (0 .. I_WAY - 1)
                    /\ mmu_cache_search(dcache, va) \in SUBSET (0 .. D_WAY - 1)
<1>1. icache \in Caches(I_WAY) /\ dcache \in Caches(D_WAY)
  BY DEF MmuInv, InstrInv, DataShape
<1>2. DOMAIN icache.lines = 0 .. I_WAY - 1 /\ DOMAIN dcache.lines = 0 .. D_WAY - 1
  BY <1>1, CacheFields
<1> QED
  BY <1>1, <1>2 DEF mmu_cache_search

LEMMA CacheOpsKeep ==
  ASSUME MmuInv, arm920t_mmu_cache_ops
  PROVE  MmuInv'
<1>1. /\ Mapping /\ InstrInv(icache) /\ DataShape(memory, dcache, wb)
      /\ WordsCurrent(memory, dcache, wb, view, spoiled)
  BY DEF MmuInv
<1>2. /\ DOMAIN icache.lines = 0 .. I_WAY - 1 /\ DOMAIN dcache.lines = 0 .. D_WAY - 1
      /\ \A va : /\ mmu_cache_search(icache, va) \in SUBSET (0 .. I_WAY - 1)
                 /\ mmu_cache_search(dcache, va) \in SUBSET (0 .. D_WAY - 1)
  BY CacheDomains
<1>3. UNCHANGED <<control, table, itlb, dtlb, view, spoiled>>
  BY DEF arm920t_mmu_cache_ops
<1>4. CASE InvalidateBoth
  <2>1. PICK I, D : I = 0 .. I_WAY - 1 /\ D = 0 .. D_WAY - 1
    OBVIOUS
  <2>2. PICK mem, ic, dc : /\ mem = mmu_cache_write_back(memory, icache, I)
                           /\ ic = mmu_cache_invalidate(icache, I)
                           /\ dc = mmu_cache_invalidate(dcache, D)
    OBVIOUS
  <2>3. PICK mem2 : mem2 = mmu_cache_write_back(mem, dcache, D)
    OBVIOUS
  <2>4. memory' = mem2 /\ icache' = ic /\ dcache' = dc /\ wb' = wb
    BY <1>2, <1>4, <2>1, <2>2, <2>3, Zenon DEF InvalidateBoth
  <2>5. I \in SUBSET (0 .. I_WAY - 1) /\ D \in SUBSET (0 .. D_WAY - 1)
    BY <2>1
  <2>6. InstrInv(ic) /\ DataShape(mem2, dc, wb) /\ WordsCurrent(mem2, dc, wb, view, spoiled)
    BY <1>1, <2>2, <2>3, <2>5, BothInvalidated
  <2> QED
    BY <1>3, <2>4, <2>6, SidesKeep
<1>5. ASSUME NEW S \in SUBSET (0 .. I_WAY - 1), InvalidateI(S) PROVE MmuInv'
  <2>1. PICK mem, ic : /\ mem = mmu_cache_write_back(memory, icache, S)
                       /\ ic = mmu_cache_invalidate(icache, S)
    OBVIOUS
  <2>2. memory' = mem /\ icache' = ic /\ dcache' = dcache /\ wb' = wb
    BY <1>5, <2>1 DEF InvalidateI
  <2>3. InstrInv(ic)
    BY <1>1, <2>1, InstrInvalidated
  <2>4. DataShape(mem, dcache, wb) /\ WordsCurrent(mem, dcache, wb, view, spoiled)
    BY <1>1, <2>1, InstrWrittenBack
  <2> QED
    BY <1>3, <2>2, <2>3, <2>4, SidesKeep
<1>6. ASSUME NEW S \in SUBSET (0 .. D_WAY - 1), InvalidateD(S) PROVE MmuInv'
  <2>1. PICK mem, dc : /\ mem = mmu_cache_write_back(memory, dcache, S)
                       /\ dc = mmu_cache_invalidate(dcache, S)
    OBVIOUS
  <2>2. memory' = mem /\ icache' = icache /\ dcache' = dc /\ wb' = wb
    BY <1>6, <2>1 DEF InvalidateD
  <2>3. DataShape(mem, dc, wb) /\ WordsCurrent(mem, dc, wb, view, spoiled)
    BY <1>1, <2>1, DataInvalidated
  <2> QED
    BY <1>1, <1>3, <2>2, <2>3, SidesKeep
<1>7. ASSUME NEW S \in SUBSET (0 .. D_WAY - 1), CleanD(S) PROVE MmuInv'
  <2>1. PICK mem, dc : /\ mem = mmu_cache_write_back(memory, dcache, S)
                       /\ dc = mmu_cache_clean(dcache, S)
    OBVIOUS
  <2>2. memory' = mem /\ icache' = icache /\ dcache' = dc /\ wb' = wb
    BY <1>7, <2>1 DEF CleanD
  <2>3. DataShape(mem, dc, wb) /\ WordsCurrent(mem, dc, wb, view, spoiled)
    BY <1>1, <2>1, DataCleaned
  <2> QED
    BY <1>1, <1>3, <2>2, <2>3, SidesKeep
<1>8. CASE mmu_wb_drain_all /\ UNCHANGED <<icache, dcache>>
  <2>1. PICK mem, empty : mem = Drained(memory, wb) /\ empty = <<>>
    OBVIOUS
  <2>2. memory' = mem /\ icache' = icache /\ dcache' = dcache /\ wb' = empty
    BY <1>8, <2>1 DEF mmu_wb_drain_all
  <2>3. DataShape(mem, dcache, <<>>) /\ WordsCurrent(mem, dcache, <<>>, view, spoiled)
    BY <1>1, <2>1, DataDrained
  <2>4. DataShape(mem, dcache, empty) /\ WordsCurrent(mem, dcache, empty, view, spoiled)
    BY <2>1, <2>3, Zenon
  <2> QED
    BY <1>1, <1>3, <2>2, <2>4, SidesKeep
<1>9. ASSUME NEW i \in DOMAIN dcache.lines PROVE {i} \in SUBSET (0 .. D_WAY - 1)
  BY <1>2, <1>9
<1>10. CASE \E va \in Page : \/ InvalidateI(mmu_cache_search(icache, va))
                             \/ InvalidateD(mmu_cache_search(dcache, va))
                             \/ CleanD(mmu_cache_search(dcache, va))
  BY <1>2, <1>5, <1>6, <1>7, <1>10
<1>11. CASE \E i \in DOMAIN dcache.lines : CleanD({i}) \/ InvalidateD({i})
  BY <1>6, <1>7, <1>9, <1>11
<1>12. CASE InvalidateI(DOMAIN icache.lines)
  BY <1>2, <1>5, <1>12
<1>13. CASE InvalidateD(DOMAIN dcache.lines)
  BY <1>2, <1>6, <1>13
<1> QED
  BY <1>4, <1>8, <1>10, <1>11, <1>12, <1>13 DEF arm920t_mmu_cache_ops

LEMMA EmptyTlbInv == TlbInv(EmptyTlb)
BY EmptyTlbCurrent DEF TlbInv, TlbCurrent

LEMMA FewerEntries ==
  ASSUME NEW tlb, TlbInv(tlb), NEW va \in Page, NEW new, new = mmu_tlb_invalidate_entry(tlb, va)
  PROVE  TlbInv(new)
<1>1. /\ new \in Tlbs
      /\ \A i \in 0 .. TLBS - 1 :
           new.entrys[i].e.mapped => new.entrys[i] = tlb.entrys[i] /\ tlb.entrys[i].va # va
  BY InvalidateEntryIs DEF TlbInv
<1>2. ASSUME NEW i \in 0 .. TLBS - 1, new.entrys[i].e.mapped
      PROVE  new.entrys[i].e = table[new.entrys[i].va]
  BY <1>1, <1>2 DEF TlbInv, TlbCurrent
<1>3. ASSUME NEW i \in 0 .. TLBS - 1, NEW j \in 0 .. TLBS - 1, new.entrys[i].e.mapped,
             new.entrys[j].e.mapped, new.entrys[i].va = new.entrys[j].va
      PROVE  i = j
  <2>1. new.entrys[i] = tlb.entrys[i] /\ new.entrys[j] = tlb.entrys[j]
    BY <1>1, <1>3
  <2>2. tlb.entrys[i].e.mapped /\ tlb.entrys[j].e.mapped /\ tlb.entrys[i].va = tlb.entrys[j].va
    BY <1>3, <2>1
  <2> QED
    BY <2>2 DEF TlbInv, TlbCurrent
<1> QED
  BY <1>1, <1>2, <1>3 DEF TlbInv, TlbCurrent

LEMMA TlbOpsKeep ==
  ASSUME MmuInv, arm920t_mmu_tlb_ops
  PROVE  MmuInv'
<1>1. /\ Mapping /\ view \in Memories /\ TlbInv(itlb) /\ TlbInv(dtlb) /\ InstrInv(icache)
      /\ DataShape(memory, dcache, wb) /\ WordsCurrent(memory, dcache, wb, view, spoiled)
  BY DEF MmuInv
<1>2. UNCHANGED <<control, table, icache, dcache, wb, memory, view, spoiled>>
  BY DEF arm920t_mmu_tlb_ops
<1>3. TlbInv(itlb')
  BY <1>1, EmptyTlbInv, FewerEntries DEF arm920t_mmu_tlb_ops
<1>4. TlbInv(dtlb')
  BY <1>1, EmptyTlbInv, FewerEntries DEF arm920t_mmu_tlb_ops
<1>5. Mapping' /\ (view \in Memories)' /\ TlbInv(itlb)' /\ TlbInv(dtlb)'
  BY <1>1, <1>2, <1>3, <1>4, MappingKept, ItlbKept, DtlbKept
<1>6. InstrInv(icache)'
  BY <1>1, <1>2, InstrKept
<1>7. DataShape(memory, dcache, wb)'
  BY <1>1, <1>2, DataKept
<1>8. WordsCurrent(memory, dcache, wb, view, spoiled)'
  BY <1>1, <1>2, WordsKept
<1> QED
  BY <1>5, <1>6, <1>7, <1>8, NextInv

\* The page va is mapped anew, with no line and no entry left of it.
LEMMA LinesRemapped ==
  ASSUME table \in [Page -> Entry], NEW va \in Page, NEW e, table' = [table EXCEPT ![va] = e],
         control' = control, NEW way, NEW lines \in Lines(way), LinesMapped(lines),
         \A i \in 0 .. way - 1 : ~(lines[i].valid /\ lines[i].va = va)
  PROVE  LinesMapped(lines)'
<1>1. DOMAIN lines = 0 .. way - 1
  BY DEF Lines
<1>2. ASSUME NEW i \in DOMAIN lines, lines[i].valid
      PROVE  (HasMemory(lines[i].va) /\ lines[i].pa = PaOf(lines[i].va))'
  <2>1. lines[i].va \in Page /\ lines[i].va # va
    BY <1>1, <1>2 DEF Lines, LineTypes
  <2>2. table'[lines[i].va] = table[lines[i].va]
    BY <2>1
  <2>3. HasMemory(lines[i].va) /\ lines[i].pa = PaOf(lines[i].va)
    BY <1>2 DEF LinesMapped
  <2> QED
    BY <2>2, <2>3 DEF HasMemory, PaOf, On
<1> QED
  BY <1>2 DEF LinesMapped

LEMMA TlbRemapped ==
  ASSUME table \in [Page -> Entry], NEW va \in Page, NEW e, table' = [table EXCEPT ![va] = e],
         NEW tlb, TlbInv(tlb), NEW new, new = mmu_tlb_invalidate_entry(tlb, va)
  PROVE  TlbInv(new)'
<1>1. /\ new \in Tlbs
      /\ \A i \in 0 .. TLBS - 1 :
           new.entrys[i].e.mapped => new.entrys[i] = tlb.entrys[i] /\ tlb.entrys[i].va # va
  BY InvalidateEntryIs DEF TlbInv
<1>2. TlbInv(new)
  BY FewerEntries
<1>3. ASSUME NEW i \in 0 .. TLBS - 1, new.entrys[i].e.mapped
      PROVE  new.entrys[i].e = table'[new.entrys[i].va]
  <2>1. new.entrys[i].va # va /\ new.entrys[i].e = table[new.entrys[i].va]
    BY <1>1, <1>2, <1>3 DEF TlbInv, TlbCurrent
  <2>2. new.entrys[i].va \in Page
    BY <1>1 DEF Tlbs
  <2>3. table'[new.entrys[i].va] = table[new.entrys[i].va]
    BY <2>1, <2>2
  <2> QED
    BY <2>1, <2>3
<1> QED
  BY <1>1, <1>2, <1>3 DEF TlbInv, TlbCurrent

LEMMA InvalidatedAll ==
  ASSUME NEW way, NEW cache \in Caches(way), NEW va, NEW new,
         new = mmu_cache_invalidate(cache, mmu_cache_search(cache, va))
  PROVE  \A i \in 0 .. way - 1 : ~(new.lines[i].valid /\ new.lines[i].va = va)
<1> SUFFICES ASSUME NEW i \in 0 .. way - 1, new.lines[i].valid, new.lines[i].va = va PROVE FALSE
  OBVIOUS
<1>1. PICK S : S = mmu_cache_search(cache, va)
  OBVIOUS
<1>2. IF i \in S THEN ~new.lines[i].valid ELSE new.lines[i] = cache.lines[i]
  BY <1>1, InvalidatedLines
<1>3. i \notin S /\ cache.lines[i].valid /\ cache.lines[i].va = va
  BY <1>2
<1>4. DOMAIN cache.lines = 0 .. way - 1
  BY CacheFields
<1> QED
  BY <1>1, <1>3, <1>4 DEF mmu_cache_search

\* The shape of the D side with an empty buffer.
LEMMA ShapeDrained ==
  ASSUME (memory \in Memories)', (dcache \in Caches(D_WAY))', wb' = <<>>, LinesMapped(dcache.lines)',
         ~On' => \A i \in 0 .. D_WAY - 1 : ~dcache'.lines[i].valid
  PROVE  DataShape(memory, dcache, wb)'
<1>1. wb' \in Seq(Buffered) /\ Len(wb') = 0
  OBVIOUS
<1> QED
  BY <1>1 DEF DataShape, Apart

LEMMA RemapKeeps ==
  ASSUME MmuInv, NEW va \in Page, NEW e \in Entries[va], Remap(va, e)
  PROVE  MmuInv'
<1>1. /\ Mapping /\ view \in Memories /\ TlbInv(itlb) /\ TlbInv(dtlb) /\ InstrInv(icache)
      /\ DataShape(memory, dcache, wb) /\ WordsCurrent(memory, dcache, wb, view, spoiled)
  BY DEF MmuInv
<1>2. PICK I, D : I = mmu_cache_search(icache, va) /\ D = mmu_cache_search(dcache, va)
  OBVIOUS
<1>3. I \in SUBSET (0 .. I_WAY - 1) /\ D \in SUBSET (0 .. D_WAY - 1)
  BY <1>2, CacheDomains
<1>4. PICK mem, ic, dc : /\ mem = mmu_cache_write_back(memory, icache, I)
                         /\ ic = mmu_cache_invalidate(icache, I)
                         /\ dc = mmu_cache_invalidate(dcache, D)
  OBVIOUS
<1>5. PICK mem2 : mem2 = mmu_cache_write_back(mem, dcache, D)
  OBVIOUS
<1>6. PICK mem3 : mem3 = Drained(mem2, wb)
  OBVIOUS
<1>7. /\ \A other \in Page \ {va} : table[other].mapped => table[other].pa # e.pa
      /\ icache' = ic /\ dcache' = dc /\ memory' = mem3 /\ wb' = <<>>
      /\ table' = [table EXCEPT ![va] = e]
      /\ itlb' = mmu_tlb_invalidate_entry(itlb, va) /\ dtlb' = mmu_tlb_invalidate_entry(dtlb, va)
      /\ UNCHANGED <<control, view, spoiled>>
  BY <1>2, <1>4, <1>5, <1>6, Zenon DEF Remap
<1>8. InstrInv(ic) /\ DataShape(mem2, dc, wb) /\ WordsCurrent(mem2, dc, wb, view, spoiled)
  BY <1>1, <1>3, <1>4, <1>5, BothInvalidated
<1>9. DataShape(mem3, dc, <<>>) /\ WordsCurrent(mem3, dc, <<>>, view, spoiled)
  BY <1>6, <1>8, DataDrained
<1>10. table \in [Page -> Entry] /\ e \in Entry
  BY <1>1, ProgramConstants DEF Mapping
<1>11. Mapping'
  <2>1. table' \in [Page -> Entry]
    BY <1>7, <1>10
  <2>2. ASSUME NEW a \in Page, NEW b \in Page, table'[a].mapped, table'[b].mapped,
               table'[a].pa = table'[b].pa
        PROVE  a = b
    <3>1. CASE a # va /\ b # va
      BY <1>1, <1>7, <1>10, <2>2, <3>1 DEF Mapping
    <3>2. CASE a = va /\ b # va
      BY <1>7, <1>10, <2>2, <3>2
    <3>3. CASE a # va /\ b = va
      BY <1>7, <1>10, <2>2, <3>3
    <3> QED
      BY <3>1, <3>2, <3>3
  <2> QED
    BY <2>1, <2>2 DEF Mapping
<1>12. TlbInv(itlb)'
  <2>1. PICK new : new = mmu_tlb_invalidate_entry(itlb, va)
    OBVIOUS
  <2>2. TlbInv(new)'
    BY <1>1, <1>7, <1>10, <2>1, TlbRemapped
  <2> QED
    BY <1>7, <2>1, <2>2 DEF TlbInv, TlbCurrent
<1>13. TlbInv(dtlb)'
  <2>1. PICK new : new = mmu_tlb_invalidate_entry(dtlb, va)
    OBVIOUS
  <2>2. TlbInv(new)'
    BY <1>1, <1>7, <1>10, <2>1, TlbRemapped
  <2> QED
    BY <1>7, <2>1, <2>2 DEF TlbInv, TlbCurrent
<1>14. /\ ic \in Caches(I_WAY) /\ LinesMapped(ic.lines) /\ Wrong(ic, view) \subseteq spoiled
       /\ dc \in Caches(D_WAY) /\ LinesMapped(dc.lines)
       /\ ~On => \A i \in 0 .. D_WAY - 1 : ~dc.lines[i].valid
  BY <1>8 DEF InstrInv, DataShape
<1>15. LinesMapped(icache.lines)'
  <2>1. PICK ls \in Lines(I_WAY) : ls = ic.lines
    BY <1>14, CacheFields
  <2>2. \A i \in 0 .. I_WAY - 1 : ~(ls[i].valid /\ ls[i].va = va)
    BY <1>2, <1>4, <2>1, CacheDomains, InvalidatedAll
  <2>3. LinesMapped(ls)
    BY <1>14, <2>1
  <2>4. LinesMapped(ls)'
    BY <1>7, <1>10, <2>2, <2>3, LinesRemapped
  <2> QED
    BY <1>7, <2>1, <2>4 DEF LinesMapped, HasMemory, PaOf, On
<1>16. LinesMapped(dcache.lines)'
  <2>1. PICK ls \in Lines(D_WAY) : ls = dc.lines
    BY <1>14, CacheFields
  <2>2. \A i \in 0 .. D_WAY - 1 : ~(ls[i].valid /\ ls[i].va = va)
    BY <1>2, <1>4, <2>1, CacheDomains, InvalidatedAll
  <2>3. LinesMapped(ls)
    BY <1>14, <2>1
  <2>4. LinesMapped(ls)'
    BY <1>7, <1>10, <2>2, <2>3, LinesRemapped
  <2> QED
    BY <1>7, <2>1, <2>4 DEF LinesMapped, HasMemory, PaOf, On
<1>17. InstrInv(icache)'
  BY <1>7, <1>14, <1>15 DEF InstrInv
<1>18. DataShape(memory, dcache, wb)'
  <2>1. memory' \in Memories
    BY <1>7, <1>9 DEF DataShape
  <2>2. ~On' => \A i \in 0 .. D_WAY - 1 : ~dcache'.lines[i].valid
    BY <1>7, <1>14 DEF On
  <2>3. dcache' \in Caches(D_WAY) /\ wb' = <<>>
    BY <1>7, <1>14
  <2> QED
    BY <1>16, <2>1, <2>2, <2>3, ShapeDrained
<1>19. WordsCurrent(memory, dcache, wb, view, spoiled)'
  <2>1. PICK empty : empty = <<>>
    OBVIOUS
  <2>2. WordsCurrent(mem3, dc, empty, view, spoiled) /\ wb' = empty
    BY <1>7, <1>9, <2>1, Zenon
  <2> QED
    BY <1>7, <2>2, WordsKept
<1>20. (view \in Memories)'
  BY <1>1, <1>7
<1> QED
  BY <1>11, <1>12, <1>13, <1>17, <1>18, <1>19, <1>20, NextInv

LEMMA InvalidatedWhole ==
  ASSUME NEW way, NEW cache \in Caches(way), NEW new, new = mmu_cache_invalidate(cache, 0 .. way - 1)
  PROVE  new \in Caches(way) /\ \A i \in 0 .. way - 1 : ~new.lines[i].valid
<1>1. new \in Caches(way)
  BY InvalidateIs
<1>2. ASSUME NEW i \in 0 .. way - 1 PROVE ~new.lines[i].valid
  BY InvalidatedLines
<1> QED
  BY <1>1, <1>2

LEMMA McrKeeps ==
  ASSUME MmuInv, NEW value, arm920t_mmu_mcr(value)
  PROVE  MmuInv'
<1>1. /\ Mapping /\ view \in Memories /\ TlbInv(itlb) /\ TlbInv(dtlb) /\ InstrInv(icache)
      /\ DataShape(memory, dcache, wb) /\ WordsCurrent(memory, dcache, wb, view, spoiled)
  BY DEF MmuInv
<1>2. UNCHANGED <<table, itlb, dtlb, view, spoiled>> /\ control' = value
  BY DEF arm920t_mmu_mcr
<1>3. Mapping' /\ (view \in Memories)' /\ TlbInv(itlb)' /\ TlbInv(dtlb)'
  BY <1>1, <1>2, MappingKept, ItlbKept, DtlbKept
<1>4. CASE ("M" \in value) = On /\ UNCHANGED <<memory, wb, icache, dcache>>
  <2>1. On' <=> On
    BY <1>2, <1>4 DEF On
  <2>2. ASSUME NEW w PROVE (HasMemory(w)' <=> HasMemory(w)) /\ PaOf(w)' = PaOf(w)
    BY <1>2, <2>1 DEF HasMemory, PaOf
  <2>3. InstrInv(icache)'
    BY <1>1, <1>2, <1>4, <2>2 DEF InstrInv, LinesMapped, Wrong
  <2>4. LinesMapped(dcache.lines)'
    BY <1>1, <1>4, <2>2 DEF DataShape, LinesMapped
  <2>5. DataShape(memory, dcache, wb)'
    BY <1>1, <1>2, <1>4, <2>1, <2>4 DEF DataShape
  <2>6. WordsCurrent(memory, dcache, wb, view, spoiled)'
    BY <1>1, <1>2, <1>4, WordsKept
  <2> QED
    BY <1>3, <2>3, <2>5, <2>6, NextInv
<1>5. CASE SetM
  <2>1. PICK I, D : I = 0 .. I_WAY - 1 /\ D = 0 .. D_WAY - 1
    OBVIOUS
  <2>2. PICK mem, ic, dc : /\ mem = mmu_cache_write_back(memory, icache, I)
                           /\ ic = mmu_cache_invalidate(icache, I)
                           /\ dc = mmu_cache_invalidate(dcache, D)
    OBVIOUS
  <2>3. PICK mem2 : mem2 = mmu_cache_write_back(mem, dcache, D)
    OBVIOUS
  <2>4. PICK mem3 : mem3 = Drained(mem2, wb)
    OBVIOUS
  <2>5. /\ DOMAIN icache.lines = I /\ DOMAIN dcache.lines = D
        /\ icache \in Caches(I_WAY) /\ dcache \in Caches(D_WAY)
    BY <2>1, CacheDomains
  <2>6. memory' = mem3 /\ icache' = ic /\ dcache' = dc /\ wb' = <<>>
    BY <1>5, <2>2, <2>3, <2>4, <2>5, Zenon DEF SetM
  <2>7. I \in SUBSET (0 .. I_WAY - 1) /\ D \in SUBSET (0 .. D_WAY - 1)
    BY <2>1
  <2>8. InstrInv(ic) /\ DataShape(mem2, dc, wb) /\ WordsCurrent(mem2, dc, wb, view, spoiled)
    BY <1>1, <2>2, <2>3, <2>7, BothInvalidated
  <2>9. DataShape(mem3, dc, <<>>) /\ WordsCurrent(mem3, dc, <<>>, view, spoiled)
    BY <2>4, <2>8, DataDrained
  <2>10. /\ ic \in Caches(I_WAY) /\ \A i \in 0 .. I_WAY - 1 : ~ic.lines[i].valid
         /\ dc \in Caches(D_WAY) /\ \A i \in 0 .. D_WAY - 1 : ~dc.lines[i].valid
    BY <2>1, <2>2, <2>5, InvalidatedWhole
  <2>11. DOMAIN ic.lines = 0 .. I_WAY - 1 /\ DOMAIN dc.lines = 0 .. D_WAY - 1
    BY <2>10, CacheFields
  <2>12. LinesMapped(icache.lines)' /\ LinesMapped(dcache.lines)'
    BY <2>6, <2>10, <2>11 DEF LinesMapped
  <2>13. InstrInv(icache)'
    <3>1. Wrong(ic, view) \subseteq spoiled
      BY <2>8 DEF InstrInv
    <3> QED
      BY <1>2, <2>6, <2>10, <2>12, <3>1 DEF InstrInv
  <2>14. DataShape(memory, dcache, wb)'
    <3>1. memory' \in Memories
      BY <2>6, <2>9 DEF DataShape
    <3> QED
      BY <2>6, <2>10, <2>12, <3>1, ShapeDrained
  <2>15. WordsCurrent(memory, dcache, wb, view, spoiled)'
    <3>1. PICK empty : empty = <<>>
      OBVIOUS
    <3>2. WordsCurrent(mem3, dc, empty, view, spoiled) /\ wb' = empty
      BY <2>6, <2>9, <3>1, Zenon
    <3> QED
      BY <1>2, <2>6, <3>2, WordsKept
  <2> QED
    BY <1>3, <2>13, <2>14, <2>15, NextInv
<1> QED
  BY <1>4, <1>5 DEF arm920t_mmu_mcr

LEMMA EmptyCacheIs ==
  ASSUME NEW way \in Nat \ {0}
  PROVE  EmptyCache(way) \in Caches(way) /\ \A i \in 0 .. way - 1 : ~EmptyCache(way).lines[i].valid
<1>1. PICK ls : ls = [i \in 0 .. way - 1 |-> NoLine]
  OBVIOUS
<1>2. ls \in Lines(way) /\ \A i \in 0 .. way - 1 : ls[i] = NoLine
  BY <1>1, NoLineTyped DEF Lines
<1>3. EmptyCache(way) = [lines |-> ls, cycle |-> 0]
  BY <1>1 DEF EmptyCache
<1>4. [lines |-> ls, cycle |-> 0].lines = ls /\ 0 \in 0 .. way - 1
  OBVIOUS
<1>5. [lines |-> ls, cycle |-> 0] \in Caches(way)
  BY <1>2, <1>4, MakeCache
<1> QED
  BY <1>2, <1>3, <1>4, <1>5, NoLineTyped, Zenon

LEMMA EmptyWords ==
  ASSUME NEW mem, NEW way, NEW cache \in Caches(way), NEW wrong,
         \A i \in 0 .. way - 1 : ~cache.lines[i].valid
  PROVE  WordsCurrent(mem, cache, <<>>, mem, wrong)
<1>1. DOMAIN cache.lines = 0 .. way - 1
  BY CacheFields
<1>2. ASSUME NEW p \in Page, NEW k \in Word PROVE Good(mem, cache.lines, <<>>, p, k, mem[p][k])
  BY <1>1, DrainedEmpty DEF Good
<1> QED
  BY <1>2 DEF WordsCurrent

\* The state of mmu_reset, with any memory and any table.
ResetState ==
  /\ Mapping /\ memory \in Memories /\ view = memory /\ spoiled = {}
  /\ itlb = EmptyTlb /\ dtlb = EmptyTlb /\ wb = <<>>
  /\ icache = EmptyCache(I_WAY) /\ dcache = EmptyCache(D_WAY)

LEMMA ResetGood == ResetState => MmuInv
<1> SUFFICES ASSUME Mapping, itlb = EmptyTlb, dtlb = EmptyTlb, icache = EmptyCache(I_WAY),
                    dcache = EmptyCache(D_WAY), wb = <<>>, memory \in Memories, view = memory,
                    spoiled = {}
             PROVE  MmuInv
  BY DEF ResetState
<1>1. TlbInv(itlb) /\ TlbInv(dtlb)
  BY EmptyTlbInv
<1>2. I_WAY \in Nat \ {0} /\ D_WAY \in Nat \ {0}
  BY MmuConstants
<1>3. /\ icache \in Caches(I_WAY) /\ \A i \in 0 .. I_WAY - 1 : ~icache.lines[i].valid
      /\ dcache \in Caches(D_WAY) /\ \A i \in 0 .. D_WAY - 1 : ~dcache.lines[i].valid
  BY <1>2, EmptyCacheIs
<1>4. DOMAIN icache.lines = 0 .. I_WAY - 1 /\ DOMAIN dcache.lines = 0 .. D_WAY - 1
  BY <1>3, CacheFields
<1> HIDE <1>2
<1>5. LinesMapped(icache.lines) /\ LinesMapped(dcache.lines)
  BY <1>3, <1>4 DEF LinesMapped
<1>6. Wrong(icache, view) = {}
  BY <1>3, <1>4 DEF Wrong
<1>7. InstrInv(icache)
  BY <1>3, <1>5, <1>6 DEF InstrInv
<1>8. DataShape(memory, dcache, wb)
  <2>1. wb \in Seq(Buffered) /\ Len(wb) = 0
    OBVIOUS
  <2> QED
    BY <1>3, <1>5, <2>1 DEF DataShape, Apart
<1>9. WordsCurrent(memory, dcache, wb, view, spoiled)
  <2>1. WordsCurrent(memory, dcache, <<>>, memory, spoiled)
    BY <1>3, EmptyWords
  <2> QED
    BY <2>1, Zenon
<1> QED
  BY <1>1, <1>7, <1>8, <1>9 DEF MmuInv

LEMMA ResetKeeps ==
  ASSUME MmuInv, mmu_reset
  PROVE  MmuInv'
<1>1. Mapping /\ memory \in Memories
  BY DEF MmuInv, DataShape
<1>2. Mapping'
  BY <1>1, MappingKept DEF mmu_reset
<1>3. ResetState'
  BY <1>1, <1>2 DEF mmu_reset, ResetState
<1> QED
  BY <1>3, ResetGood, PTL

LEMMA InitGood == Init => MmuInv
<1> SUFFICES ASSUME Init PROVE ResetState
  BY ResetGood
<1>1. Mapping
  BY NoEntryTyped DEF Init, Mapping
<1>2. memory \in Memories
  BY NoLineTyped DEF Init, Memories
<1> QED
  BY <1>1, <1>2 DEF Init, ResetState

LEMMA StepKeeps ==
  ASSUME MmuInv, [Next]_vars
  PROVE  MmuInv'
<1>1. CASE UNCHANGED vars
  BY <1>1, StutterKeeps
<1>2. ASSUME NEW va \in Page, NEW user \in BOOLEAN, Access(va, user) PROVE MmuInv'
  <2>1. CASE arm920t_mmu_load_instr(va, user)
    BY <2>1, LoadKeeps
  <2>2. CASE arm920t_mmu_read(va, user)
    BY <2>2, ReadKeeps
  <2>3. ASSUME NEW s \in Stores, s.va = va, arm920t_mmu_write(va, user, s.k, s.v) PROVE MmuInv'
    BY <2>3, WriteKeeps
  <2> QED
    BY <1>2, <2>1, <2>2, <2>3 DEF Access
<1>3. ASSUME NEW s \in Stores, WriteMisaligned(s.va, s.k, s.v) PROVE MmuInv'
  BY <1>3, MisalignedKeeps
<1>4. CASE arm920t_mmu_cache_ops
  BY <1>4, CacheOpsKeep
<1>5. CASE arm920t_mmu_tlb_ops
  BY <1>5, TlbOpsKeep
<1>6. ASSUME NEW va \in Page, NEW e \in Entries[va], Remap(va, e) PROVE MmuInv'
  BY <1>6, RemapKeeps
<1>7. ASSUME NEW value \in Controls, arm920t_mmu_mcr(value) PROVE MmuInv'
  BY <1>7, McrKeeps
<1>8. CASE mmu_reset
  BY <1>8, ResetKeeps
<1> QED
  BY <1>1, <1>2, <1>3, <1>4, <1>5, <1>6, <1>7, <1>8 DEF Next
-------------------------------------------------------------------------------
\* The invariant holds in every state of the MMU: no entry of a TLB is stale, no page
\* has two lines, and each word that the I cache did not spoil is where a read looks.
THEOREM MmuInvariant == Spec => []MmuInv
<1>1. Init => MmuInv
  BY InitGood
<1>2. MmuInv /\ [Next]_vars => MmuInv'
  BY StepKeeps
<1> QED
  BY <1>1, <1>2, PTL DEF Spec

\* The word of a page without a line, once the buffer is drained.
LEMMA DrainedIsView ==
  ASSUME MmuInv, NEW p \in Page, NEW k \in Word, <<p, k>> \notin spoiled, ~Has(dcache.lines, p)
  PROVE  Drained(memory, wb)[p][k] = view[p][k]
BY DEF MmuInv, WordsCurrent, Good

LEMMA DataIsCurrent == MmuInv => DataCurrent
<1> SUFFICES ASSUME MmuInv, NEW va \in Page, NEW k \in Word, HasMemory(va),
                    <<PaOf(va), k>> \notin spoiled
             PROVE  ReadLine(va)[k] = view[PaOf(va)][k]
  BY DEF DataCurrent
<1>1. /\ Mapping /\ TlbInv(dtlb) /\ DataShape(memory, dcache, wb)
      /\ WordsCurrent(memory, dcache, wb, view, spoiled)
  BY DEF MmuInv
<1>2. PICK p \in Page : p = PaOf(va)
  <2>1. PaOf(va) \in Page
    BY DEF HasMemory, PaOf
  <2> QED
    BY <2>1
<1>3. /\ dcache \in Caches(D_WAY) /\ DOMAIN dcache.lines = 0 .. D_WAY - 1
      /\ LinesMapped(dcache.lines) /\ wb \in Seq(Buffered)
  BY <1>1, CacheFields DEF DataShape
<1>4. CASE ~On
  <2>1. wb = <<>> /\ p = va /\ ~Has(dcache.lines, p)
    BY <1>1, <1>2, <1>3, <1>4 DEF DataShape, PaOf, Has
  <2>2. Drained(memory, wb)[p][k] = view[p][k]
    BY <1>2, <2>1, DrainedIsView
  <2>3. Drained(memory, <<>>)[p][k] = memory[p][k]
    BY DrainedEmpty
  <2>4. ReadLine(va) = memory[va]
    BY <1>4 DEF ReadLine
  <2> QED
    BY <1>2, <2>1, <2>2, <2>3, <2>4
<1>5. ASSUME On, NEW i \in mmu_cache_search(dcache, va)
      PROVE  ReadLine(va)[k] = view[p][k]
  <2>1. i \in 0 .. D_WAY - 1 /\ dcache.lines[i].valid /\ dcache.lines[i].va = va
    BY <1>3, <1>5 DEF mmu_cache_search
  <2>2. mmu_cache_search(dcache, va) = {i}
    BY <1>3, <2>1 DEF mmu_cache_search, LinesMapped
  <2>3. First(mmu_cache_search(dcache, va)) = i
    BY <2>1, <2>2, FirstOfOne
  <2>4. ReadLine(va) = dcache.lines[i].data
    BY <1>5, <2>2, <2>3 DEF ReadLine
  <2>5. dcache.lines[i].pa = p
    BY <1>2, <1>3, <2>1 DEF LinesMapped
  <2>6. Good(memory, dcache.lines, wb, p, k, view[p][k])
    BY <1>1, <1>2 DEF WordsCurrent
  <2>7. dcache.lines[i].data[k] = view[p][k]
    BY <1>3, <2>1, <2>5, <2>6 DEF Good
  <2> QED
    BY <2>4, <2>7
<1>6. CASE On /\ mmu_cache_search(dcache, va) = {}
  <2>1. table[va].mapped /\ table[va].pa = p /\ p # FlushPage
    BY <1>2, <1>6, MmuConstants DEF HasMemory, PaOf
  <2>2. translate(dtlb, va).e = table[va]
    BY <1>1, <2>1, TranslateIs DEF TlbInv, Mapping
  <2>3. PICK e : e = table[va]
    OBVIOUS
  <2>4. ReadLine(va) = IF e.b THEN Drained(memory, wb)[p] ELSE memory[p]
    BY <1>6, <2>1, <2>2, <2>3 DEF ReadLine
  <2>5. ~Has(dcache.lines, p)
    BY <1>1, <1>2, <1>3, <1>6, NoLineOf
  <2>6. Drained(memory, wb)[p][k] = view[p][k]
    BY <1>2, <2>5, DrainedIsView
  <2>7. CASE e.b
    BY <1>2, <2>4, <2>6, <2>7
  <2>8. CASE ~e.b
    <3>1. \A t \in 1 .. Len(wb) : wb[t].pa # p
      BY <1>1, <2>1, <2>3, <2>8, NotBuffered
    <3>2. Mine(wb, p, k) = {}
      BY <1>3, <3>1, LenProperties DEF Mine
    <3>3. Drained(memory, wb)[p][k] = memory[p][k]
      BY <3>2, DrainedNone
    <3> QED
      BY <1>2, <2>4, <2>6, <2>8, <3>3
  <2> QED
    BY <2>7, <2>8
<1> QED
  BY <1>2, <1>4, <1>5, <1>6

\* A read returns the word stored last, from the D cache, the write buffer or memory,
\* whatever was evicted, cleaned, drained or remapped in between (arm920t_mmu_read).
THEOREM DataAlwaysCurrent == Spec => []DataCurrent
BY MmuInvariant, DataIsCurrent, PTL

LEMMA MemoryIsCurrent == MmuInv => MemoryCurrent
<1> SUFFICES ASSUME MmuInv, NEW p \in Page, NEW k \in Word, memory[p][k] # view[p][k],
                    <<p, k>> \notin spoiled
             PROVE  \/ \E i \in DOMAIN dcache.lines : /\ dcache.lines[i].valid
                                                      /\ dcache.lines[i].pa = p
                                                      /\ Half(k) \in dcache.lines[i].dirty
                    \/ \E t \in DOMAIN wb : wb[t].pa = p /\ wb[t].k = k
  BY DEF MemoryCurrent
<1>1. CASE Has(dcache.lines, p)
  <2>1. Good(memory, dcache.lines, wb, p, k, view[p][k])
    BY DEF MmuInv, WordsCurrent
  <2>2. PICK i \in DOMAIN dcache.lines : dcache.lines[i].valid /\ dcache.lines[i].pa = p
    BY <1>1 DEF Has
  <2>3. Half(k) \in dcache.lines[i].dirty
    BY <2>1, <2>2 DEF Good
  <2> QED
    BY <2>2, <2>3
<1>2. CASE ~Has(dcache.lines, p)
  <2>1. Drained(memory, wb)[p][k] = view[p][k]
    BY <1>2, DrainedIsView
  <2>2. Mine(wb, p, k) # {}
    BY <2>1, DrainedNone
  <2> QED
    BY <2>2 DEF Mine
<1> QED
  BY <1>1, <1>2

\* No store is lost: a word whose memory is behind is in a dirty half of its line or in
\* the write buffer (mmu_cache_write_back, mmu_wb_write_bytes).
THEOREM MemoryAlwaysCurrent == Spec => []MemoryCurrent
BY MmuInvariant, MemoryIsCurrent, PTL

LEMMA FetchIsCurrent == MmuInv => FetchCurrent
<1> SUFFICES ASSUME MmuInv, NEW va \in Page, NEW k \in Word, HasMemory(va),
                    <<PaOf(va), k>> \notin spoiled, mmu_cache_search(icache, va) = {},
                    \A i \in mmu_cache_search(dcache, va) : dcache.lines[i].dirty = {},
                    \A t \in DOMAIN wb : wb[t].pa # PaOf(va)
             PROVE  FetchLine(va)[k] = view[PaOf(va)][k]
  BY DEF FetchCurrent
<1>1. Mapping /\ TlbInv(itlb) /\ DataShape(memory, dcache, wb)
  BY DEF MmuInv
<1>2. PICK p \in Page : p = PaOf(va)
  <2>1. PaOf(va) \in Page
    BY DEF HasMemory, PaOf
  <2> QED
    BY <2>1
<1>3. FetchLine(va) = memory[p]
  <2>1. CASE ~On
    BY <1>2, <2>1 DEF FetchLine, PaOf
  <2>2. CASE On
    <3>1. table[va].mapped /\ table[va].pa = p
      BY <1>2, <2>2 DEF HasMemory, PaOf
    <3>2. translate(itlb, va).e = table[va]
      BY <1>1, <3>1, TranslateIs DEF TlbInv, Mapping
    <3> QED
      BY <2>2, <3>1, <3>2 DEF FetchLine
  <2> QED
    BY <2>1, <2>2
<1>4. CASE Has(dcache.lines, p)
  <2>1. Good(memory, dcache.lines, wb, p, k, view[p][k])
    BY <1>2 DEF MmuInv, WordsCurrent
  <2>2. PICK i \in DOMAIN dcache.lines : dcache.lines[i].valid /\ dcache.lines[i].pa = p
    BY <1>4 DEF Has
  <2>3. dcache \in Caches(D_WAY) /\ LinesMapped(dcache.lines)
    BY <1>1 DEF DataShape
  <2>4. mmu_cache_search(dcache, va) # {}
    BY <1>1, <1>2, <1>4, <2>3, NoLineOf
  <2>5. PICK j \in mmu_cache_search(dcache, va) : j \in DOMAIN dcache.lines
    BY <2>4 DEF mmu_cache_search
  <2>6. dcache.lines[j].valid /\ dcache.lines[j].va = va /\ dcache.lines[j].pa = p
    BY <1>2, <2>3, <2>5 DEF mmu_cache_search, LinesMapped
  <2>7. memory[p][k] = view[p][k]
    BY <2>1, <2>5, <2>6 DEF Good
  <2> QED
    BY <1>2, <1>3, <2>7
<1>5. CASE ~Has(dcache.lines, p)
  <2>1. Drained(memory, wb)[p][k] = view[p][k]
    BY <1>2, <1>5, DrainedIsView
  <2>2. Mine(wb, p, k) = {}
    BY <1>2 DEF Mine
  <2>3. Drained(memory, wb)[p][k] = memory[p][k]
    BY <2>2, DrainedNone
  <2> QED
    BY <1>2, <1>3, <2>1, <2>3
<1> QED
  BY <1>4, <1>5

\* After the program cleaned its data, drained the buffer and invalidated the line of the
\* I cache, it fetches what it stored (arm920t_mmu_load_instr).
THEOREM FetchesAlwaysCurrent == Spec => []FetchCurrent
BY MmuInvariant, FetchIsCurrent, PTL
================================================================================
