------------------------------ MODULE MCMemory ------------------------------
(***************************************************************************)
(* The three memory managers side by side, for TLC, where each of them     *)
(* does something else than a comment says: a heap (H) whose caller asks   *)
(* for a number of bytes that is no multiple of 8, a page allocator (A) of *)
(* a machine that has zeros behind the kernel image, where kmain reads     *)
(* kernel_end, and page tables (T) in which a caller maps a page.  They    *)
(* are instances without a connection; each takes its steps on its own.    *)
(***************************************************************************)
EXTENDS Integers, Sequences

VARIABLES
  heap_end, free_block_list, size, want, wasted,                   \* Kmalloc
  frames, address, total_memory, unavailable_memory, held, full,   \* PageAlloc
  marked, mem, heap_pages, told, data                              \* Paging

\* Pages of 32 bytes: the request is a page less 20 bytes, as 4076 is of 4096.
H == INSTANCE Kmalloc WITH
       PAGE_SIZE <- 32, Sizes <- {12}, TotalMemory <- 96, MaxHeap <- 64

\* 19 frames of 4 bytes, of which 1 to 10 hold the image.
A == INSTANCE PageAlloc WITH
       PAGE_SHIFT <- 2, memsize <- 79, first_free_page <- 0, Image <- 1..10,
       W32 <- 256, W64 <- 1024, Entries <- {1, 2}, Junk <- {0},
       CallsFree <- FALSE, MaxAllocs <- 2

\* The machine of MCPaging, without a heap.
T == INSTANCE Paging WITH
       PAGE_SHIFT <- 2, memsize <- 163, kernel_end <- 54, W32 <- 1024, W64 <- 4096,
       ENTRIES <- 4, HIGH_TABLES <- 3, LOW_TABLES <- 1, HEAP_TABLES <- 3,
       Virt <- {<<0, 1, 0, 2>>}, Phys <- {3}, MaxHeapPages <- 0,
       frames <- marked, heap_end <- heap_pages

heapVars  == <<heap_end, free_block_list, size, want, wasted>>
allocVars == <<frames, address, total_memory, unavailable_memory, held, full>>
tableVars == <<marked, mem, heap_pages, told, data>>
vars      == <<heapVars, allocVars, tableVars>>

Init == H!Init /\ A!Init /\ T!Init

Next ==
  \/ H!Next /\ UNCHANGED <<allocVars, tableVars>>
  \/ A!Next /\ UNCHANGED <<heapVars, tableVars>>
  \/ T!Next /\ UNCHANGED <<heapVars, allocVars>>

\* The kernel goes on.
FairSpec == Init /\ [][Next]_vars /\ WF_vars(Next)

\* At least one of three comments is right about its manager: that a block's
\* next pointer is part of the block's memory (kmalloc.c:14), that kernel_end is
\* the "End of kernel code" behind which memory is handed out (kmain.c:7), and
\* that map_addr_in maps the page it is told to (mm.c:53).  A behaviour that
\* violates this refutes every one of them.
SomeCommentHolds == []H!HeadersInHeap \/ []A!ImageKept \/ []T!MapsFrameTold
=============================================================================
