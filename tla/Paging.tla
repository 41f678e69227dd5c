------------------------------- MODULE Paging -------------------------------
(***************************************************************************)
(* Paging (arch/x86_64/mm/mm.c): the tables that mmu_init builds, map_addr *)
(* and the three ways to look a page up, composed with the page allocator  *)
(* and with sbrk, the caller of map_addr.                                  *)
(*                                                                         *)
(* A page table is the frame that holds it.  A virtual page is the tuple   *)
(* of its indices into the four levels, PML4 first.  A table has ENTRIES   *)
(* entries, so a large page has ENTRIES frames.  Memory is zero at boot,   *)
(* as emulators leave it: page_alloc does not clear the frames it returns. *)
(* Access flags are left out.                                              *)
(***************************************************************************)
EXTENDS Integers, FiniteSets

CONSTANTS
  PAGE_SHIFT, memsize, W32, W64,               \* as in PageAlloc
  kernel_end,    \* mmu_init's parameter: the VALUE that kmain reads at the linker
                 \* symbol of that name, where no code stores one
  ENTRIES,       \* entries of a table (512 in the code)
  HIGH_TABLES,   \* PML2 tables of the high map (64)
  LOW_TABLES,    \* tables of the low map: pml2_count, which mm.c:236 takes from
                 \* the address of its own parameter
  HEAP_TABLES,   \* PML1 tables set aside for the heap (3)
  Virt, Phys,    \* what callers of map_addr pass: virtual pages, frames
  MaxHeapPages   \* bound: pages of the heap region in use

PAGE_SIZE == 2^PAGE_SHIFT

\* mmu_init: kernel_end up to a page boundary, and the frame that starts there
first_free_page  == ((kernel_end + PAGE_SIZE - 1) \div PAGE_SIZE) * PAGE_SIZE
first_free_frame == first_free_page \div PAGE_SIZE

VARIABLES
  frames,     \* the bitmap of the page allocator
  mem,        \* the entries of every frame, seen as a table
  heap_end,   \* pages from KERNEL_HEAP_START
  told,       \* history: the frame map_addr was told to map, by page
  data        \* history: the frames sbrk got for heap pages

vars == <<frames, mem, heap_end, told, data>>

PA == INSTANCE PageAlloc WITH
        Image <- {}, Entries <- {}, Junk <- {}, CallsFree <- FALSE, MaxAllocs <- 0,
        address <- <<>>, total_memory <- 0, unavailable_memory <- 0,
        held <- {}, full <- FALSE

ASSUME MachineAssumption ==
  /\ PAGE_SHIFT \in Nat /\ PAGE_SIZE \in Nat \ {0}
  /\ memsize \in Nat /\ W32 \in Nat \ {0} /\ W64 \in Nat \ {0}

ASSUME TablesAssumption ==
  /\ ENTRIES \in Nat /\ ENTRIES >= 3
  /\ HIGH_TABLES \in 1..ENTRIES /\ LOW_TABLES \in 1..ENTRIES
  /\ HEAP_TABLES \in 1..ENTRIES /\ MaxHeapPages \in Nat

Index == 0..ENTRIES-1
Pages == Index \X Index \X Index \X Index

ASSUME CallersAssumption == Virt \subseteq Pages /\ Phys \subseteq Nat

\* The top-level entries: pml4[511], [510] and [0]
HIGH == ENTRIES - 1
HEAP == ENTRIES - 2
LOW  == 0

Absent       == [present |-> FALSE, huge |-> FALSE, address |-> 0]
Entry(f)     == [present |-> TRUE, huge |-> FALSE, address |-> f]
LargePage(f) == [present |-> TRUE, huge |-> TRUE, address |-> f]

\* The static tables: frames of the kernel image
high_base_pml4     == 1
high_base_pml3     == 2
low_base_pml4s(i)  == 3 + i
heap_base_pml3     == 5
heap_base_pml2     == 6
heap_base_pml1(i)  == 7 + i
high_base_pml2s(i) == 7 + HEAP_TABLES + i
low_base_pml2s(j)  == 7 + HEAP_TABLES + HIGH_TABLES + j
StaticTables == 1..6 + HEAP_TABLES + HIGH_TABLES + LOW_TABLES

ASSUME ImageAssumption ==
  /\ kernel_end \in Nat
  /\ \A t \in StaticTables : t < PA!nframes   \* the image was loaded into memory

\* mmu_init: pages set aside for the bitmap, from metadata_size, which asks
\* for more bytes than page_allocator_init uses
metadata_pages == (PA!nframes \div 2 + PAGE_SIZE - 1) \div PAGE_SIZE

ASSUME BitmapAssumption ==                \* its entries fit heap_base_pml1
  metadata_pages <= HEAP_TABLES * ENTRIES

\* Fault: the large pages of a table follow each other like small ones.
LargeFrame_Small(k, i) == k * ENTRIES * ENTRIES + i

\* mmu_init: the first frame of large page i of table k of the high map
LargeFrame(k, i) == (k * ENTRIES + i) * ENTRIES

\* mmu_init: entry i of the static table t
StaticEntry(t, i) ==
  CASE t = high_base_pml4 ->
         (CASE i = HIGH -> Entry(high_base_pml3) [] i = HEAP -> Entry(heap_base_pml3)
            [] i = LOW -> Entry(low_base_pml4s(0)) [] OTHER -> Absent)
    [] t = high_base_pml3 ->
         IF i < HIGH_TABLES THEN Entry(high_base_pml2s(i)) ELSE Absent
    [] t = low_base_pml4s(0) -> IF i = 0 THEN Entry(low_base_pml4s(1)) ELSE Absent
    [] t = low_base_pml4s(1) ->
         IF i < LOW_TABLES THEN Entry(low_base_pml2s(i)) ELSE Absent
    [] t = heap_base_pml3 -> IF i = 0 THEN Entry(heap_base_pml2) ELSE Absent
    [] t = heap_base_pml2 ->
         IF i < HEAP_TABLES THEN Entry(heap_base_pml1(i)) ELSE Absent
    [] \E k \in 0..HEAP_TABLES-1 : t = heap_base_pml1(k) ->
         LET n == (t - heap_base_pml1(0)) * ENTRIES + i
         IN IF n < metadata_pages THEN Entry(first_free_frame + n) ELSE Absent
    [] \E k \in 0..HIGH_TABLES-1 : t = high_base_pml2s(k) ->
         LargePage(LargeFrame(t - high_base_pml2s(0), i))
    [] \E k \in 0..LOW_TABLES-1 : t = low_base_pml2s(k) ->
         IF t = low_base_pml2s(0) /\ i = 0 THEN Absent   \* "Unmap null"
         ELSE Entry((t - low_base_pml2s(0)) * ENTRIES + i)
    [] OTHER -> Absent

NoFrame == -1

\* mmu_init, with page_allocator_init and kheap_allocator_init.  The tables are
\* as mmu_init wrote them where ImageMarked, below, holds; where it does not,
\* the bitmap may lie over them.
Init ==
  /\ mem = [t \in 0..PA!nframes-1 |-> [i \in Index |-> StaticEntry(t, i)]]
  /\ \E tail \in SUBSET (PA!BYTE * PA!metadata_bytes .. PA!nframes - 1) :
       frames = PA!Reserved \union tail
  /\ heap_end = metadata_pages
  /\ told = [v \in Virt |-> NoFrame]
  /\ data = {}

-----------------------------------------------------------------------------
(* map_addr; m is the bitmap with the tables                               *)

\* The frame page_alloc picks; there is one while memory lasts.
Fresh(m) == CHOOSE f \in PA!first_free_frame(m.frames) : TRUE

\* page_alloc of a page table entry
Alloc(m) == [m EXCEPT !.frames = PA!frame_set(@, Fresh(m) * PAGE_SIZE)]

\* Fault: the new table is not marked in the bitmap.
Present_Unmarked(m, t, i) ==
  IF m.mem[t][i].present THEN m
  ELSE [m EXCEPT !.mem[t][i] = Entry(Fresh(m))]

\* A level of the walk: make sure that entry i of table t leads to a table.
Present(m, t, i) ==
  IF m.mem[t][i].present THEN m
  ELSE [Alloc(m) EXCEPT !.mem[t][i] = Entry(Fresh(m))]

\* The end of map_addr_in: the entry gets the address, not the frame.
Leaf(m, t, i, f) ==
  [m EXCEPT !.mem[t][i] =
     [present |-> TRUE, huge |-> m.mem[t][i].huge, address |-> f * PAGE_SIZE]]

\* Fault: the last index is taken from the level above.
map_addr_in_WrongIndex(m, root, v, f) ==
  LET m1 == Present(m, root, v[1])  t3 == m1.mem[root][v[1]].address
      m2 == Present(m1, t3, v[2])   t2 == m2.mem[t3][v[2]].address
      m3 == Present(m2, t2, v[3])   t1 == m3.mem[t2][v[3]].address
  IN Leaf(m3, t1, v[3], f)

map_addr_in(m, root, v, f) ==
  LET m1 == Present(m, root, v[1])  t3 == m1.mem[root][v[1]].address
      m2 == Present(m1, t3, v[2])   t2 == m2.mem[t3][v[2]].address
      m3 == Present(m2, t2, v[3])   t1 == m3.mem[t2][v[3]].address
  IN Leaf(m3, t1, v[4], f)

Now == [frames |-> frames, mem |-> mem]

\* map_addr, called with a page of the kernel's choice
map_addr(v, f) ==
  LET m == map_addr_in(Now, high_base_pml4, v, f)
  IN /\ frames' = m.frames /\ mem' = m.mem
     /\ told' = [told EXCEPT ![v] = f]
     /\ UNCHANGED <<heap_end, data>>

\* The virtual page n pages behind KERNEL_HEAP_START
HeapPage(n) ==
  <<HEAP, (n \div (ENTRIES * ENTRIES)) % ENTRIES, (n \div ENTRIES) % ENTRIES, n % ENTRIES>>

\* An iteration of the loop of sbrk: a page for the heap, and its mapping
sbrk ==
  LET f == Fresh(Now)  m == map_addr_in(Alloc(Now), high_base_pml4, HeapPage(heap_end), f)
  IN /\ heap_end < MaxHeapPages
     /\ frames' = m.frames /\ mem' = m.mem
     /\ heap_end' = heap_end + 1
     /\ data' = data \union {f}
     /\ UNCHANGED told

Next ==
  \/ \E v \in Virt, f \in Phys : map_addr(v, f)
  \/ sbrk

Spec == Init /\ [][Next]_vars

-----------------------------------------------------------------------------
(* The look-ups                                                            *)

\* mmu_translate: the frame of a page, or -1..-4 for the level that ends it
mmu_translate(v) ==
  LET e4 == mem[high_base_pml4][v[1]]  e3 == mem[e4.address][v[2]]
      e2 == mem[e3.address][v[3]]      e1 == mem[e2.address][v[4]]
  IN CASE ~e4.present -> -1
       [] e4.present /\ ~e3.present -> -2
       [] e4.present /\ e3.present /\ e3.huge -> e3.address + v[3] * ENTRIES + v[4]
       [] e4.present /\ e3.present /\ ~e3.huge /\ ~e2.present -> -3
       [] e4.present /\ e3.present /\ ~e3.huge /\ e2.present /\ e2.huge ->
            e2.address + v[4]
       [] OTHER -> IF e1.present THEN e1.address ELSE -4

NULL == <<>>

\* mmu_get_page: where the entry of a page is
mmu_get_page(v) ==
  LET e4 == mem[high_base_pml4][v[1]]  e3 == mem[e4.address][v[2]]
      e2 == mem[e3.address][v[3]]
  IN IF e4.present /\ e3.present /\ e2.present THEN <<e2.address, v[4]>> ELSE NULL

\* Fault: the last level is not looked at.
mmu_get_page_deep_NoLeaf(v) ==
  LET e4 == mem[high_base_pml4][v[1]]  e3 == mem[e4.address][v[2]]
      e2 == mem[e3.address][v[3]]
      outs == IF ~e4.present THEN 1 ELSE IF ~e3.present THEN 2
              ELSE IF ~e2.present THEN 3 ELSE 4
  IN [outs |-> outs, ret |-> IF outs = 4 THEN 0 ELSE 1]

\* mmu_get_page_deep: how many of its outputs it sets, and what it returns
mmu_get_page_deep(v) ==
  LET e4 == mem[high_base_pml4][v[1]]  e3 == mem[e4.address][v[2]]
      e2 == mem[e3.address][v[3]]      e1 == mem[e2.address][v[4]]
      outs == IF ~e4.present THEN 1 ELSE IF ~e3.present THEN 2
              ELSE IF ~e2.present THEN 3 ELSE 4
  IN [outs |-> outs, ret |-> IF outs = 4 /\ e1.present THEN 0 ELSE 1]

\* mmu_to_virt: the page of the high map where the kernel reaches a frame
mmu_to_virt(f) ==
  <<HIGH, (f \div (ENTRIES * ENTRIES)) % ENTRIES, (f \div ENTRIES) % ENTRIES, f % ENTRIES>>

-----------------------------------------------------------------------------
(* What the theorems ask of the machine and of the callers of map_addr     *)

\* The machine has less than 4GiB: nframes * PAGE_SIZE, a u32 product, is exact.
Small == PA!nframes * PAGE_SIZE < W32

\* What kmain read at kernel_end is what it is meant to be, an address behind
\* the image: the frames of the static tables lie below first_free_frame, so
\* that page_allocator_init marks them.  The code does not see to this.
ImageMarked == \A t \in StaticTables : t < first_free_frame

\* The machine has no more memory than the high map covers: 64 tables of large
\* pages, 64GiB (mm.c:224 says 128GiB).
HighMapCovers == PA!nframes <= HIGH_TABLES * ENTRIES * ENTRIES

\* The heap has room in the region of its top-level entry (512GiB).
HeapFits == metadata_pages <= MaxHeapPages /\ MaxHeapPages < ENTRIES * ENTRIES * ENTRIES

\* Large pages, and the pages that mmu_init maps in the low half.
InHighMap(v) == v[1] = HIGH /\ v[2] < HIGH_TABLES
InLowMap(v)  == v[1] = LOW /\ v[2] = 0 /\ v[3] < LOW_TABLES

\* Callers do not map over large pages: map_addr would take one for a table.
KeepOffHighMap == \A v \in Virt : ~InHighMap(v)

\* Callers do not map what mmu_init mapped or what sbrk will map.
KeepOffKernel ==
  \A v \in Virt : ~InLowMap(v) /\ \A n \in 0..MaxHeapPages : v # HeapPage(n)

\* There is a frame for the page of sbrk and for each table map_addr may make.
MemoryLasts == Cardinality(PA!Available(frames)) >= 4

-----------------------------------------------------------------------------
(* Properties                                                              *)

\* The kernel reaches every frame of the machine, and with it every page
\* table, through the high map, whatever has been mapped.
HighIdentity == \A f \in 0..PA!nframes-1 : mmu_translate(mmu_to_virt(f)) = f

\* The tables behind a set of tables, large pages and the last level aside.
Below(ts) ==
  {e.address : e \in {mem[t][i] : t \in ts, i \in Index} \cap
                     {Entry(f) : f \in 0..PA!nframes-1}}
Pml3s  == Below({high_base_pml4})
Pml2s  == Below(Pml3s)
Pml1s  == Below(Pml2s)
Tables == {high_base_pml4} \union Pml3s \union Pml2s \union Pml1s

\* The tables form a tree: two entries never lead to the same table, no table
\* lies in a page that sbrk gave to the heap, and all are marked in the bitmap.
TablesAreTree ==
  LET slots == {<<t, i>> : t \in Tables \ Pml1s, i \in Index}
      used  == {s \in slots : mem[s[1]][s[2]].present /\ ~mem[s[1]][s[2]].huge}
  IN /\ \A r, s \in used : r # s => mem[r[1]][r[2]].address # mem[s[1]][s[2]].address
     /\ Tables \intersect data = {}
     /\ Tables \subseteq frames

\* The pages of the heap that sbrk has mapped
HeapPages == {HeapPage(n) : n \in metadata_pages..heap_end-1}

\* Mapping a page maps that page and no other one: the pages that translate
\* are the ones that were mapped, and different frames stay different.
MapsIsolated ==
  /\ \A v \in Virt : v \notin HeapPages => (told[v] = NoFrame <=> mmu_translate(v) < 0)
  /\ \A v, w \in Virt :
       told[v] # NoFrame /\ told[w] # NoFrame =>
         (told[v] = told[w] <=> mmu_translate(v) = mmu_translate(w))
  /\ \A v \in HeapPages : mmu_translate(v) >= 0
  /\ mmu_translate(HeapPage(heap_end)) < 0

\* Away from large pages the three look-ups agree on every page: on whether it
\* is mapped, on the level that is missing, and on where its entry is.
LookupsAgree ==
  \A v \in Virt \union HeapPages \union {HeapPage(heap_end)} :
    LET t == mmu_translate(v)  d == mmu_get_page_deep(v)  p == mmu_get_page(v)
    IN /\ d.ret = 0 <=> t >= 0
       /\ t < 0 => d.outs = -t
       /\ p = NULL <=> d.outs < 4
       /\ t >= 0 => mem[p[1]][p[2]] = Entry(t)

\* "Map 4KiB virtual page" (mm.c:53), to the physical address it is called
\* with: mmu_translate then gives the frame of that address.
MapsFrameTold == \A v \in Virt : told[v] # NoFrame => mmu_translate(v) = told[v]
=============================================================================
