----------------------------- MODULE PageAlloc -----------------------------
(***************************************************************************)
(* The physical page allocator (arch/x86_64/mm/page_alloc.c).              *)
(*                                                                         *)
(* The bitmap is the set of the frames whose bit is set.  Callers own page *)
(* table entries: page_alloc fills in the frame number of one, page_free   *)
(* takes an entry that page_alloc filled in.  The kernel itself never      *)
(* calls page_free; CallsFree says whether the callers do.                 *)
(***************************************************************************)
EXTENDS Integers, FiniteSets

CONSTANTS
  PAGE_SHIFT,       \* 12 in the code
  memsize,          \* what multiboot_get_memory_end found, in bytes
  first_free_page,  \* what mmu_init passes: the VALUE that kmain reads at the
                    \* linker symbol kernel_end, rounded up to a page
  Image,            \* the frames of the kernel image
  W32, W64,         \* 2^32 and 2^64: the moduli of u32 and size_t
  Entries,          \* the page table entries callers own
  Junk,             \* what first_free_frame may return where it has no return
  CallsFree,        \* page_free is called
  MaxAllocs         \* bound: page_allocs not matched by a page_free

ASSUME ShiftAssumption == PAGE_SHIFT \in Nat /\ 2^PAGE_SHIFT \in Nat \ {0}
ASSUME SizeAssumption  == memsize \in Nat /\ first_free_page \in Nat /\ Image \subseteq Nat
ASSUME WidthAssumption == W32 \in Nat \ {0} /\ W64 \in Nat \ {0}
ASSUME JunkAssumption  == Junk \subseteq Nat /\ MaxAllocs \in Nat
ASSUME FreeAssumption  == CallsFree \in BOOLEAN

PAGE_SIZE == 2^PAGE_SHIFT
BYTE      == 8                       \* frames to a byte of the bitmap

nframes        == (memsize \div PAGE_SIZE) % W32
metadata_bytes == nframes \div BYTE

VARIABLES
  frames,              \* the frames whose bit is set
  address,             \* page->bits.address of every entry
  total_memory,
  unavailable_memory,
  held,                \* history: entries page_alloc filled in, not freed since
  full                 \* history: page_alloc found no clear bit

vars == <<frames, address, total_memory, unavailable_memory, held, full>>

\* nframes * PAGE_SIZE, a product of 32 bits
Limit == (nframes * PAGE_SIZE) % W32

\* Fault: the bound is not checked.
frame_set_Unchecked(s, a) == s \union {a \div PAGE_SIZE}

\* Fault: the bits of a byte are numbered from its other end.
frame_set_Reversed(s, a) ==
  LET f == a \div PAGE_SIZE
  IN IF a < Limit THEN s \union {(f \div BYTE) * BYTE + (7 - (f % BYTE))} ELSE s

frame_set(s, a) == IF a < Limit THEN s \union {a \div PAGE_SIZE} ELSE s

\* Fault: the byte of the frame is cleared.
frame_clear_Byte(s, a) ==
  IF a < Limit
  THEN s \ {f \in s : f \div BYTE = (a \div PAGE_SIZE) \div BYTE} ELSE s

frame_clear(s, a) == IF a < Limit THEN s \ {a \div PAGE_SIZE} ELSE s

frame_test(s, a) == a < Limit => a \div PAGE_SIZE \in s

\* The frames in whole bytes of the bitmap: what memset clears and what
\* first_free_frame looks at.
Scanned == 0..BYTE * metadata_bytes - 1

Available(s) == Scanned \ s

\* The values first_free_frame may return: the first clear bit; when there is
\* none, it runs off its end.
first_free_frame(s) ==
  IF Available(s) # {}
  THEN {f \in Available(s) : \A g \in Available(s) : f <= g}
  ELSE Junk

-----------------------------------------------------------------------------
\* unavail after the loop of page_allocator_init
unavail == ((first_free_page + metadata_bytes + PAGE_SIZE - 1) \div PAGE_SIZE) * PAGE_SIZE

\* The frames that loop marks: the bitmap, which starts at first_free_page, and
\* all below it, be that the kernel image or not.
Reserved ==
  {f \in 0..nframes : f * PAGE_SIZE < unavail /\ f * PAGE_SIZE < Limit}

\* page_allocator_init; memset does not reach the bits of the last byte when
\* it is not whole.
Init ==
  /\ \E tail \in SUBSET (BYTE * metadata_bytes .. nframes - 1) :
       frames = Reserved \union tail
  /\ address = [e \in Entries |-> 0]
  /\ total_memory = (((nframes - unavail) % W64) * PAGE_SIZE) % W64
  /\ unavailable_memory = (unavail * PAGE_SIZE) % W64
  /\ held = {} /\ full = FALSE

Unmatched == (unavailable_memory - unavail * PAGE_SIZE) % W64

page_alloc(e) ==
  \/ /\ address[e] # 0               \* already allocated
     /\ UNCHANGED vars
  \/ /\ address[e] = 0 /\ Unmatched < MaxAllocs
     /\ \E idx \in first_free_frame(frames) :
          /\ frames' = frame_set(frames, idx * PAGE_SIZE)
          /\ address' = [address EXCEPT ![e] = idx]
     /\ unavailable_memory' = (unavailable_memory + 1) % W64
     /\ held' = held \union {e}
     /\ full' = (full \/ Available(frames) = {})
     /\ UNCHANGED total_memory

\* The frame number stands where frame_test and frame_clear take an address.
page_free(e) ==
  /\ CallsFree /\ e \in held
  /\ \/ /\ ~frame_test(frames, address[e])
        /\ UNCHANGED vars
     \/ /\ frame_test(frames, address[e])
        /\ frames' = frame_clear(frames, address[e])
        /\ address' = [address EXCEPT ![e] = 0]
        /\ unavailable_memory' = (unavailable_memory - 1) % W64
        /\ held' = held \ {e}
        /\ UNCHANGED <<total_memory, full>>

Next == \E e \in Entries : page_alloc(e) \/ page_free(e)

Spec == Init /\ [][Next]_vars

-----------------------------------------------------------------------------
(* Properties                                                              *)

\* Types; no bit outside the bitmap is ever set.
TypeOK ==
  /\ frames \subseteq 0..nframes-1
  /\ address \in [Entries -> Nat]
  /\ total_memory \in 0..W64-1 /\ unavailable_memory \in 0..W64-1
  /\ held \subseteq Entries /\ full \in BOOLEAN

\* The frames that page_free can clear: of all of memory, the first few.
Clearable ==
  IF CallsFree THEN {p \div PAGE_SIZE : p \in Scanned} ELSE {}

Owned(e) == address[e] \notin Clearable

\* Until memory runs out no two entries own the same frame, whatever is
\* allocated and freed in between, the first few frames aside.
NoSharedFrame ==
  \A e, f \in held : e # f /\ Owned(e) /\ address[e] = address[f] => full

\* Until memory runs out no entry owns a frame that holds a byte of the bitmap
\* or lies below it, the first few frames aside.
ReservedKept ==
  \A e \in held :
    Owned(e) /\ address[e] * PAGE_SIZE < first_free_page + metadata_bytes => full

\* kernel_end is the "End of kernel code" (kmain.c:7), and mmu_init takes the
\* "first_free_page" (mm.h:20): no entry owns a frame of the kernel image.
ImageKept == \A e \in held : Owned(e) /\ address[e] \in Image => full
=============================================================================
