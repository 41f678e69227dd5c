------------------------------ MODULE Kmalloc ------------------------------
(***************************************************************************)
(* The kernel heap (kernel/kmalloc.c).                                     *)
(*                                                                         *)
(* Addresses and sizes count bytes; addresses start at heap_start.  A      *)
(* block at address b is a size_t at b, which holds block->size, and its   *)
(* payload from b + SIZE_T; a free block keeps block->next in the first    *)
(* bytes of its payload.  The list that starts at free_block_list is the   *)
(* sequence of its blocks in list order; "size" is the size_t of every     *)
(* address that ever was a header.                                         *)
(*                                                                         *)
(* Callers ask for some bytes, free what they were given, once, and leave  *)
(* the headers of other blocks alone.  sbrk always gets its pages.         *)
(* No size is rounded, so a header may come to lie across another one or   *)
(* across the end of the heap.  What the code does next hangs on the bytes *)
(* that were there; the model stops (HeadersInHeap, a guard of Next).      *)
(***************************************************************************)
EXTENDS Integers, Sequences, SequencesExt

CONSTANTS
  PAGE_SIZE,     \* bytes of a page (4096 in the code)
  Sizes,         \* sizes callers ask for
  TotalMemory,   \* what mmu_total_memory returns
  MaxHeap        \* bound: bytes of virtual memory the heap may grow to

SIZE_T  == 8     \* sizeof(size_t)
BLOCK_T == 16    \* sizeof(block_t)

Addr == 0..MaxHeap

ASSUME PageAssumption  == PAGE_SIZE \in Nat \ {0}
ASSUME SizesAssumption == Sizes \subseteq Nat \ {0}
ASSUME HeapAssumption  == MaxHeap \in Nat /\ TotalMemory \in Nat

\* What callers must do for the allocator to work: ask for whole words.  A
\* hypothesis of the theorems; nothing in the code sees to it.
WholeWords == PAGE_SIZE % SIZE_T = 0 /\ \A n \in Sizes : n % SIZE_T = 0

VARIABLES
  heap_end,
  free_block_list,  \* the free blocks, in list order
  size,             \* block->size, by address of the header
  want,             \* history: bytes asked for, by block in use (0: not in use)
  wasted            \* history: bytes behind the blocks made by the last branch of kmalloc

vars == <<heap_end, free_block_list, size, want, wasted>>

\* kheap_allocator_init
Init ==
  /\ heap_end = 0
  /\ free_block_list = <<>>
  /\ size = [a \in Addr |-> 0]
  /\ want = [a \in Addr |-> 0]
  /\ wasted = {}

Free   == Range(free_block_list)
Live   == {b \in Addr : want[b] > 0}
Blocks == Free \union Live

\* The byte after a block whose size is n.
EndOf(b, n) == b + SIZE_T + n

-----------------------------------------------------------------------------
(* Helpers of kmalloc and kfree; h is a heap: a free list and the sizes    *)

\* Fault: the break is moved by the exact size.
sbrk_Unrounded(incr) == heap_end + incr

\* sbrk: the new heap_end; whole pages.  The block starts at the old one.
sbrk(incr) == heap_end + ((incr + PAGE_SIZE - 1) \div PAGE_SIZE) * PAGE_SIZE

\* Fault: a remainder of exactly one block_t is split off too.
split_block_NotStrict(h, i, n) ==
  LET b == h.list[i]  rem == h.size[b] - n  r == EndOf(b, n)
  IN IF rem >= BLOCK_T
     THEN [list |-> [h.list EXCEPT ![i] = r],
           size |-> [h.size EXCEPT ![b] = n, ![r] = rem - SIZE_T]]
     ELSE [h EXCEPT !.list = RemoveAt(h.list, i)]

\* Fault: the remainder forgets to pay for its own header.
split_block_FreeHeader(h, i, n) ==
  LET b == h.list[i]  rem == h.size[b] - n  r == EndOf(b, n)
  IN IF rem > BLOCK_T
     THEN [list |-> [h.list EXCEPT ![i] = r],
           size |-> [h.size EXCEPT ![b] = n, ![r] = rem]]
     ELSE [h EXCEPT !.list = RemoveAt(h.list, i)]

\* Fault: a block that is taken whole stays in the list.
split_block_Kept(h, i, n) ==
  LET b == h.list[i]  rem == h.size[b] - n  r == EndOf(b, n)
  IN IF rem > BLOCK_T
     THEN [list |-> [h.list EXCEPT ![i] = r],
           size |-> [h.size EXCEPT ![b] = n, ![r] = rem - SIZE_T]]
     ELSE h

\* split_block: reserve the i-th block of the list; what remains of it, if
\* that is more than a block_t, takes its place in the list.
split_block(h, i, n) ==
  LET b == h.list[i]  rem == h.size[b] - n  r == EndOf(b, n)
  IN IF rem > BLOCK_T
     THEN [list |-> [h.list EXCEPT ![i] = r],
           size |-> [h.size EXCEPT ![b] = n, ![r] = rem - SIZE_T]]
     ELSE [h EXCEPT !.list = RemoveAt(h.list, i)]

are_adjacent(sz, b, c) == EndOf(b, sz[b]) = c

\* Fault: the header of the absorbed block is lost.
coalesce_blocks_LoseHeader(h, p) ==
  LET b == h.list[p]  c == h.list[p+1]
  IN IF p < Len(h.list) /\ are_adjacent(h.size, b, c)
     THEN [list |-> RemoveAt(h.list, p+1),
           size |-> [h.size EXCEPT ![b] = @ + h.size[c], ![c] = 0]]
     ELSE h

\* coalesce_blocks, where are_adjacent allows it, on the blocks at p and p+1
coalesce_blocks(h, p) ==
  LET b == h.list[p]  c == h.list[p+1]
  IN IF p < Len(h.list) /\ are_adjacent(h.size, b, c)
     THEN [list |-> RemoveAt(h.list, p+1),
           size |-> [h.size EXCEPT ![b] = @ + h.size[c] + SIZE_T, ![c] = 0]]
     ELSE h

-----------------------------------------------------------------------------
(* kmalloc                                                                 *)

\* Hand out block b for n bytes and leave the heap h behind.
Grant(b, n, h) ==
  /\ free_block_list' = h.list /\ size' = h.size
  /\ want' = [want EXCEPT ![b] = n]

\* The sanity check turns the request down.
kmalloc_TooMuch(n) == n > TotalMemory /\ UNCHANGED vars

\* No blocks: a new one, then the first block check, which it passes.
kmalloc_NoBlocks(n) ==
  LET a == heap_end
  IN /\ n <= TotalMemory /\ free_block_list = <<>>
     /\ sbrk(n + SIZE_T) <= MaxHeap
     /\ heap_end' = sbrk(n + SIZE_T)
     /\ LET h == [list |-> <<a>>, size |-> [size EXCEPT ![a] = heap_end' - a]]
        IN Grant(a, n, split_block(h, 1, n))
     /\ UNCHANGED wasted

\* First fit
kmalloc_FirstFit(n) ==
  /\ n <= TotalMemory
  /\ \E i \in DOMAIN free_block_list :
       /\ size[free_block_list[i]] >= n
       /\ \A j \in 1..i-1 : size[free_block_list[j]] < n
       /\ LET h == [list |-> free_block_list, size |-> size]
          IN Grant(free_block_list[i], n, split_block(h, i, n))
  /\ UNCHANGED <<heap_end, wasted>>

\* Unsatisfied: a block of its own; the rest of its pages is in no block.
kmalloc_Unsatisfied(n) ==
  LET a == heap_end
  IN /\ n <= TotalMemory /\ free_block_list # <<>>
     /\ \A i \in DOMAIN free_block_list : size[free_block_list[i]] < n
     /\ sbrk(n + SIZE_T) <= MaxHeap
     /\ heap_end' = sbrk(n + SIZE_T)
     /\ Grant(a, n, [list |-> free_block_list, size |-> [size EXCEPT ![a] = n]])
     /\ wasted' = wasted \union EndOf(a, n)..heap_end'-1

kmalloc(n) ==
  \/ kmalloc_TooMuch(n) \/ kmalloc_NoBlocks(n)
  \/ kmalloc_FirstFit(n) \/ kmalloc_Unsatisfied(n)

-----------------------------------------------------------------------------
(* kfree                                                                   *)

Release(freed, h) ==
  /\ freed \in Live
  /\ free_block_list' = h.list /\ size' = h.size
  /\ want' = [want EXCEPT ![freed] = 0]
  /\ UNCHANGED <<heap_end, wasted>>

kfree_NoBlocks(freed) ==
  /\ free_block_list = <<>>
  /\ Release(freed, [list |-> <<freed>>, size |-> size])

kfree_OneBlock(freed) ==
  /\ Len(free_block_list) = 1
  /\ LET only == free_block_list[1]
         both == IF only < freed THEN <<only, freed>> ELSE <<freed, only>>
     IN Release(freed, coalesce_blocks([list |-> both, size |-> size], 1))

\* Fault: the search stops at the second block.
StopsAt_Second(p, freed) == p = 2

\* Where the loop of kfree stops: it starts behind the first block, so the
\* freed one never becomes the head.
StopsAt(p, freed) ==
  /\ \A q \in 2..p-1 : free_block_list[q] < freed
  /\ p <= Len(free_block_list) => free_block_list[p] >= freed

\* First the freed block swallows the next one, then the one before swallows it.
kfree_ManyBlocks(freed) ==
  /\ Len(free_block_list) > 1
  /\ \E p \in 2..Len(free_block_list)+1 :
       /\ StopsAt(p, freed)
       /\ LET h == [list |-> InsertAt(free_block_list, p, freed), size |-> size]
          IN Release(freed, coalesce_blocks(coalesce_blocks(h, p), p-1))

kfree(freed) ==
  kfree_NoBlocks(freed) \/ kfree_OneBlock(freed) \/ kfree_ManyBlocks(freed)

\* The size and the next pointer of every block lie in mapped memory, although
\* the size of a block may count one word too many, and no next pointer lies on
\* the size of another block: what split_block has to see to.
HeadersInHeap ==
  \A b \in Blocks : /\ b + BLOCK_T <= heap_end
                     /\ \A c \in Blocks : b < c => b + BLOCK_T <= c

\* While all headers are whole, and no further.
Next ==
  /\ HeadersInHeap
  /\ (\E n \in Sizes : kmalloc(n)) \/ (\E b \in Live : kfree(b))

Spec == Init /\ [][Next]_vars

-----------------------------------------------------------------------------
(* Properties                                                              *)

\* Types; the break is page-aligned, as kheap_allocator_init asserts of start.
TypeOK ==
  /\ heap_end \in Addr /\ heap_end % PAGE_SIZE = 0
  /\ free_block_list \in Seq(Addr)
  /\ size \in [Addr -> Nat] /\ want \in [Addr -> Nat]
  /\ wasted \subseteq Addr

\* What two callers were given never overlaps, through any sequence of
\* splits, frees and coalescings.  (The last word given may be the size
\* of the next block: kmalloc_NoBlocks counts one word too many.)
PayloadsDisjoint ==
  \A b, c \in Live : b < c => b + SIZE_T + want[b] <= c + SIZE_T

\* A block in use is not in the list, and the list has no block twice.
NotFreeTwice ==
  /\ Free \intersect Live = {}
  /\ IsInjective(free_block_list)

\* From its second block on the list is ordered, so the loop of kfree that
\* looks for the place of a freed block may stop at the first greater one.
OrderedBehindHead ==
  \A i, j \in 2..Len(free_block_list) : i < j => free_block_list[i] < free_block_list[j]

\* Splitting, freeing and coalescing lose no byte: every byte of the heap is
\* in a block, or was left behind by the last branch of kmalloc.
NothingLost ==
  \A w \in 0..heap_end-1 :
    w \in wasted \/ \E b \in Blocks : b <= w /\ w < EndOf(b, size[b])
=============================================================================
