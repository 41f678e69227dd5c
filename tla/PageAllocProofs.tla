-------------------------- MODULE PageAllocProofs --------------------------
(***************************************************************************)
(* Proofs about the page allocator, for every page size, machine and set   *)
(* of callers.                                                             *)
(***************************************************************************)
EXTENDS PageAlloc, TLAPS

(* Arithmetic of pages and of fixed widths                                 *)

\* Addresses of frames grow with their numbers.
LEMMA MulMono ==
  ASSUME NEW P \in Nat \ {0}, NEW i \in Nat, NEW n \in Nat, i < n
  PROVE  i * P < n * P
OBVIOUS

\* A frame number survives the way to an address and back.
LEMMA MulDiv ==
  ASSUME NEW P \in Nat \ {0}, NEW n \in Nat
  PROVE  n * P \in Nat /\ (n * P) \div P = n
OBVIOUS

\* An address below n pages lies in one of the first n frames.
LEMMA DivBound ==
  ASSUME NEW P \in Nat \ {0}, NEW n \in Nat, NEW a \in Nat, a < n * P
  PROVE  a \div P \in 0..n-1
OBVIOUS

\* Rounding up to a page boundary never goes below.
LEMMA RoundUp ==
  ASSUME NEW P \in Nat \ {0}, NEW x \in Nat
  PROVE  /\ ((x + P - 1) \div P) * P \in Nat
         /\ x <= ((x + P - 1) \div P) * P
OBVIOUS

\* What a width leaves of a natural number.
LEMMA ModNat ==
  ASSUME NEW P \in Nat \ {0}, NEW x \in Nat
  PROVE  x % P \in 0..P-1 /\ x % P <= x /\ (x < P => x % P = x)
OBVIOUS

\* What a width leaves of an integer.
LEMMA ModInt ==
  ASSUME NEW P \in Nat \ {0}, NEW x \in Int
  PROVE  x % P \in 0..P-1
OBVIOUS

\* Whole pages in a number of bytes.
LEMMA DivNat ==
  ASSUME NEW P \in Nat \ {0}, NEW x \in Nat
  PROVE  x \div P \in Nat /\ x \div P <= x
OBVIOUS

-----------------------------------------------------------------------------
(* The machine                                                             *)

\* The numbers derived from the machine are what their names say.
LEMMA Machine ==
  /\ PAGE_SIZE \in Nat \ {0} /\ nframes \in Nat /\ metadata_bytes \in Nat
  /\ BYTE * metadata_bytes <= nframes
  /\ unavail \in Nat /\ first_free_page + metadata_bytes <= unavail
  /\ Limit \in Nat /\ Limit <= nframes * PAGE_SIZE
<1>1. PAGE_SIZE \in Nat \ {0}
  BY ShiftAssumption DEF PAGE_SIZE
<1> HIDE DEF PAGE_SIZE
<1>2. memsize \div PAGE_SIZE \in Nat
  BY <1>1, DivNat, SizeAssumption
<1>3. nframes \in Nat
  BY <1>2, ModNat, WidthAssumption DEF nframes
<1>4. metadata_bytes \in Nat /\ BYTE * metadata_bytes <= nframes
  BY <1>3 DEF metadata_bytes, BYTE
<1>5. unavail \in Nat /\ first_free_page + metadata_bytes <= unavail
  <2> DEFINE x == first_free_page + metadata_bytes
  <2>1. x \in Nat
    BY <1>4, SizeAssumption
  <2> HIDE DEF x
  <2>2. ((x + PAGE_SIZE - 1) \div PAGE_SIZE) * PAGE_SIZE \in Nat
        /\ x <= ((x + PAGE_SIZE - 1) \div PAGE_SIZE) * PAGE_SIZE
    BY <1>1, <2>1, RoundUp
  <2> QED BY <2>2 DEF x, unavail
<1>6. nframes * PAGE_SIZE \in Nat
  BY <1>1, <1>3, MulDiv
<1>7. Limit \in Nat /\ Limit <= nframes * PAGE_SIZE
  <2> DEFINE x == nframes * PAGE_SIZE
  <2>1. x \in Nat
    BY <1>6
  <2> HIDE DEF x
  <2>2. x % W32 \in Nat /\ x % W32 <= x
    BY <2>1, ModNat, WidthAssumption
  <2> QED BY <2>2 DEF x, Limit
<1> QED BY <1>1, <1>3, <1>4, <1>5, <1>7

\* No bit outside the bitmap is set.
LEMMA FrameSet ==
  ASSUME NEW s, s \subseteq 0..nframes-1, NEW a \in Nat
  PROVE  frame_set(s, a) \subseteq 0..nframes-1
<1>1. CASE a < Limit
  <2>1. a < nframes * PAGE_SIZE
    BY <1>1, Machine, MulDiv
  <2>2. a \div PAGE_SIZE \in 0..nframes-1
    BY <2>1, Machine, DivBound
  <2> QED BY <1>1, <2>2 DEF frame_set
<1>2. CASE ~(a < Limit)
  BY <1>2 DEF frame_set
<1> QED BY <1>1, <1>2

\* What first_free_frame returns.
LEMMA FirstFree ==
  ASSUME NEW s, NEW idx \in first_free_frame(s)
  PROVE  /\ idx \in Nat
         /\ Available(s) # {} => idx \in Scanned /\ idx \notin s
<1>1. Scanned \subseteq Nat
  BY Machine DEF Scanned
<1> QED BY <1>1, JunkAssumption DEF first_free_frame, Available

-----------------------------------------------------------------------------
(* Type correctness                                                        *)

\* The bitmap of page_allocator_init has no bit outside its range.
LEMMA TypeInit == Init => TypeOK
<1> SUFFICES ASSUME Init PROVE TypeOK
  OBVIOUS
<1>1. Reserved \subseteq 0..nframes-1
  <2> SUFFICES ASSUME NEW f \in 0..nframes, f * PAGE_SIZE < Limit PROVE f \in 0..nframes-1
    BY DEF Reserved
  <2>1. f # nframes
    BY Machine, MulDiv
  <2> QED BY <2>1, Machine
<1>2. frames \subseteq 0..nframes-1
  <2>1. PICK tail \in SUBSET (BYTE * metadata_bytes .. nframes - 1) :
          frames = Reserved \union tail
    BY DEF Init
  <2>2. BYTE * metadata_bytes \in Nat
    BY Machine DEF BYTE
  <2>3. tail \subseteq 0..nframes-1
    BY <2>2, Machine
  <2> QED BY <1>1, <2>1, <2>3
<1>3. unavailable_memory \in 0..W64-1
  <2>1. unavail * PAGE_SIZE \in Nat
    BY Machine, MulDiv
  <2> QED BY <2>1, ModNat, WidthAssumption DEF Init
<1>4. total_memory \in 0..W64-1
  <2>1. (nframes - unavail) % W64 \in Nat
    BY Machine, ModInt, WidthAssumption
  <2>2. ((nframes - unavail) % W64) * PAGE_SIZE \in Nat
    BY <2>1, Machine, MulDiv
  <2> QED BY <2>2, ModNat, WidthAssumption DEF Init
<1> QED BY <1>2, <1>3, <1>4 DEF TypeOK, Init

\* Neither page_alloc nor page_free sets a bit outside the bitmap.
LEMMA TypeNext == TypeOK /\ [Next]_vars => TypeOK'
<1> SUFFICES ASSUME TypeOK, [Next]_vars PROVE TypeOK'
  OBVIOUS
<1>1. CASE UNCHANGED vars
  BY <1>1 DEF vars, TypeOK
<1>2. ASSUME NEW e \in Entries, page_alloc(e) PROVE TypeOK'
  <2>1. CASE UNCHANGED vars
    BY <2>1 DEF vars, TypeOK
  <2>2. CASE ~UNCHANGED vars
    <3>1. PICK idx \in first_free_frame(frames) :
            /\ frames' = frame_set(frames, idx * PAGE_SIZE)
            /\ address' = [address EXCEPT ![e] = idx]
      BY <1>2, <2>2 DEF page_alloc
    <3>2. /\ unavailable_memory' = (unavailable_memory + 1) % W64
          /\ held' = held \union {e} /\ full' = (full \/ Available(frames) = {})
          /\ UNCHANGED total_memory
      BY <1>2, <2>2 DEF page_alloc
    <3>3. idx \in Nat /\ idx * PAGE_SIZE \in Nat
      BY FirstFree, Machine, MulDiv
    <3>4. frames' \subseteq 0..nframes-1
      BY <3>1, <3>3, FrameSet DEF TypeOK
    <3>5. unavailable_memory' \in 0..W64-1
      BY <3>2, ModNat, WidthAssumption DEF TypeOK
    <3> QED BY <3>1, <3>2, <3>3, <3>4, <3>5 DEF TypeOK
  <2> QED BY <2>1, <2>2
<1>3. ASSUME NEW e \in Entries, page_free(e) PROVE TypeOK'
  <2>1. CASE UNCHANGED vars
    BY <2>1 DEF vars, TypeOK
  <2>2. CASE ~UNCHANGED vars
    <3>1. /\ frames' = frame_clear(frames, address[e])
          /\ address' = [address EXCEPT ![e] = 0]
          /\ unavailable_memory' = (unavailable_memory - 1) % W64
          /\ held' = held \ {e} /\ UNCHANGED <<total_memory, full>>
      BY <1>3, <2>2 DEF page_free
    <3>2. frames' \subseteq 0..nframes-1
      BY <3>1 DEF frame_clear, TypeOK
    <3>3. unavailable_memory' \in 0..W64-1
      BY <3>1, ModInt, WidthAssumption DEF TypeOK
    <3> QED BY <3>1, <3>2, <3>3 DEF TypeOK
  <2> QED BY <2>1, <2>2
<1> QED BY <1>1, <1>2, <1>3 DEF Next

\* TypeOK holds for every machine, one of 4GiB or more included: whatever
\* the width of nframes * PAGE_SIZE cuts off, frame_set and frame_clear stay
\* within the bitmap.
THEOREM TypeSafe == Spec => []TypeOK
BY TypeInit, TypeNext, PTL DEF Spec

-----------------------------------------------------------------------------
(* Frames are owned by one entry                                           *)

\* The machine has less than 4GiB: nframes * PAGE_SIZE, a u32 product, is exact.
Small == nframes * PAGE_SIZE < W32

\* What an entry owns, until memory runs out, is marked in the bitmap and is
\* none of the frames page_allocator_init marked.
Marked ==
  \A e \in held : Owned(e) =>
    /\ address[e] \in frames /\ address[e] \in Scanned
    /\ address[e] \notin Reserved

\* No two entries own the same frame.
Distinct ==
  \A e, f \in held : e # f /\ Owned(e) => address[e] # address[f]

\* The bits of those frames stay set, except those page_free can clear.
ReservedMarked == Reserved \ Clearable \subseteq frames

\* The inductive invariant.
PInv == TypeOK /\ (~full => Marked /\ Distinct /\ ReservedMarked)

\* Nothing is cut off.
LEMMA SmallLimit ==
  ASSUME Small
  PROVE  Limit = nframes * PAGE_SIZE
<1> DEFINE x == nframes * PAGE_SIZE
<1>1. x \in Nat /\ x < W32
  BY Machine, MulDiv DEF Small
<1> HIDE DEF x
<1>2. x % W32 = x
  BY <1>1, ModNat, WidthAssumption
<1> QED BY <1>2 DEF x, Limit

\* A frame of a whole byte has an address that frame_set accepts.
LEMMA ScannedSet ==
  ASSUME Small, NEW s, NEW idx \in Scanned
  PROVE  frame_set(s, idx * PAGE_SIZE) = s \union {idx}
<1>1. idx \in Nat /\ idx < nframes
  BY Machine DEF Scanned, BYTE
<1>2. idx * PAGE_SIZE < nframes * PAGE_SIZE /\ (idx * PAGE_SIZE) \div PAGE_SIZE = idx
  BY <1>1, Machine, MulMono, MulDiv
<1>3. Limit = nframes * PAGE_SIZE
  BY SmallLimit
<1> QED BY <1>2, <1>3 DEF frame_set

\* Outside Clearable, page_free of a frame of a whole byte clears nothing.
LEMMA ClearKeeps ==
  ASSUME CallsFree, NEW s, NEW p \in Scanned
  PROVE  s \ Clearable \subseteq frame_clear(s, p)
<1>1. p \div PAGE_SIZE \in Clearable
  BY DEF Clearable
<1> HIDE DEF Clearable
<1> QED BY <1>1 DEF frame_clear

\* page_alloc hands out a frame nobody owns and marks it.
LEMMA AllocPInv ==
  ASSUME Small, PInv, NEW e \in Entries, page_alloc(e), ~UNCHANGED vars, ~full'
  PROVE  Marked' /\ Distinct' /\ ReservedMarked'
<1>1. PICK idx \in first_free_frame(frames) :
        /\ frames' = frame_set(frames, idx * PAGE_SIZE)
        /\ address' = [address EXCEPT ![e] = idx]
  BY DEF page_alloc
<1>2. /\ held' = held \union {e} /\ ~full /\ Available(frames) # {}
  BY DEF page_alloc
<1>3. idx \in Scanned /\ idx \notin frames
  BY <1>2, FirstFree
<1>4. frames' = frames \union {idx}
  BY <1>1, <1>3, ScannedSet
<1>5. /\ Marked /\ Distinct /\ ReservedMarked
  BY <1>2 DEF PInv
<1>6. /\ address'[e] = idx /\ \A f \in Entries : f # e => address'[f] = address[f]
      /\ held \subseteq Entries
  BY <1>1 DEF PInv, TypeOK
<1> HIDE DEF Clearable, Reserved, Scanned
<1>7. ReservedMarked'
  BY <1>4, <1>5 DEF ReservedMarked
<1>8. idx \notin Clearable => idx \notin Reserved
  BY <1>3, <1>5 DEF ReservedMarked
<1>9. Marked'
  BY <1>2, <1>3, <1>4, <1>5, <1>6, <1>8 DEF Marked, Owned
<1>10. Distinct'
  <2> SUFFICES ASSUME NEW x \in held', NEW y \in held', x # y, address'[x] \notin Clearable
               PROVE  address'[x] # address'[y]
    BY DEF Distinct, Owned
  <2>1. CASE x = e
    BY <2>1, <1>2, <1>3, <1>5, <1>6 DEF Marked, Owned
  <2>2. CASE y = e
    BY <2>2, <1>2, <1>3, <1>5, <1>6 DEF Marked, Owned
  <2>3. CASE x # e /\ y # e
    BY <2>3, <1>2, <1>5, <1>6 DEF Distinct, Owned
  <2> QED BY <2>1, <2>2, <2>3
<1> QED BY <1>7, <1>9, <1>10

\* page_free of an entry disturbs only the first few frames.
LEMMA FreePInv ==
  ASSUME PInv, NEW e \in Entries, page_free(e), ~UNCHANGED vars, ~full'
  PROVE  Marked' /\ Distinct' /\ ReservedMarked'
<1>1. /\ frames' = frame_clear(frames, address[e])
      /\ address' = [address EXCEPT ![e] = 0]
      /\ held' = held \ {e} /\ ~full /\ e \in held /\ CallsFree
  BY DEF page_free
<1>2. /\ Marked /\ Distinct /\ ReservedMarked
  BY <1>1 DEF PInv
<1>3. \A f \in held' : address'[f] = address[f] /\ f \in held
  BY <1>1 DEF PInv, TypeOK
<1>4. Clearable \subseteq Scanned
  <2> SUFFICES ASSUME NEW p \in Scanned PROVE p \div PAGE_SIZE \in Scanned
    BY DEF Clearable
  <2>1. p \in Nat /\ p < BYTE * metadata_bytes /\ BYTE * metadata_bytes \in Nat
    BY Machine DEF Scanned, BYTE
  <2>2. p \div PAGE_SIZE \in Nat /\ p \div PAGE_SIZE <= p
    BY <2>1, Machine, DivNat
  <2> QED BY <2>1, <2>2, Machine DEF Scanned
<1>5. address[e] \in Scanned
  BY <1>1, <1>2, <1>4 DEF Marked, Owned
<1>6. frames \ Clearable \subseteq frames'
  BY <1>1, <1>5, ClearKeeps
<1> HIDE DEF Clearable, Reserved, Scanned
<1>7. Marked'
  BY <1>2, <1>3, <1>6 DEF Marked, Owned
<1>8. Distinct'
  BY <1>2, <1>3 DEF Distinct, Owned
<1>9. ReservedMarked'
  BY <1>2, <1>6 DEF ReservedMarked
<1> QED BY <1>7, <1>8, <1>9

\* The invariant survives every call.
LEMMA PNext == Small /\ PInv /\ [Next]_vars => PInv'
<1> SUFFICES ASSUME Small, PInv, [Next]_vars PROVE PInv'
  OBVIOUS
<1>1. TypeOK'
  BY TypeNext DEF PInv
<1>2. CASE UNCHANGED vars
  <2>1. UNCHANGED <<frames, address, held, full>>
    BY <1>2 DEF vars
  <2> QED BY <2>1, <1>1 DEF PInv, Marked, Distinct, ReservedMarked, Owned
<1>3. CASE ~UNCHANGED vars
  <2> SUFFICES ASSUME ~full' PROVE Marked' /\ Distinct' /\ ReservedMarked'
    BY <1>1 DEF PInv
  <2>1. PICK e \in Entries : page_alloc(e) \/ page_free(e)
    BY <1>3 DEF Next
  <2> QED BY <1>3, <2>1, AllocPInv, FreePInv
<1> QED BY <1>2, <1>3

\* The invariant holds once the allocator is initialised.
LEMMA PInit == Init => PInv
<1> SUFFICES ASSUME Init PROVE PInv
  OBVIOUS
<1>1. held = {} /\ Reserved \subseteq frames
  BY DEF Init
<1> HIDE DEF Reserved, Clearable
<1> QED BY <1>1, TypeInit DEF PInv, Marked, Distinct, ReservedMarked

\* On a machine of less than 4GiB, until memory runs out, no two entries own
\* the same frame, the first few frames aside, for every number of callers and
\* whatever they allocate and free.
THEOREM SharedSafe ==
  ASSUME Small
  PROVE  Spec => []NoSharedFrame
<1>1. PInv => NoSharedFrame
  BY DEF PInv, Distinct, NoSharedFrame
<1>2. PInv /\ [Next]_vars => PInv'
  BY PNext
<1> QED BY <1>1, <1>2, PInit, PTL DEF Spec

\* The bitmap and what lies below it stay out of the callers' hands.
LEMMA KeptInv ==
  ASSUME Small
  PROVE  PInv => ReservedKept
<1> SUFFICES ASSUME PInv, ~full, NEW e \in held, Owned(e)
             PROVE  ~(address[e] * PAGE_SIZE < first_free_page + metadata_bytes)
  BY DEF ReservedKept
<1> DEFINE f == address[e]
<1>1. f \in Scanned /\ f \notin Reserved
  BY DEF PInv, Marked
<1> HIDE DEF f
<1>2. f \in 0..nframes /\ f < nframes
  BY <1>1, Machine DEF Scanned, BYTE
<1>3. f * PAGE_SIZE < Limit /\ f * PAGE_SIZE \in Nat
  BY <1>2, Machine, MulMono, MulDiv, SmallLimit
<1>4. ~(f * PAGE_SIZE < unavail)
  BY <1>1, <1>2, <1>3 DEF Reserved
<1>5. ~(f * PAGE_SIZE < first_free_page + metadata_bytes)
  BY <1>3, <1>4, Machine, SizeAssumption
<1> QED BY <1>5 DEF f

\* On such a machine, until memory runs out, no entry owns a frame of the
\* bitmap or below it, the first few frames aside, whatever value kmain
\* passes for the kernel's end.
THEOREM ReservedSafe ==
  ASSUME Small
  PROVE  Spec => []ReservedKept
<1>1. PInv /\ [Next]_vars => PInv'
  BY PNext
<1> QED BY <1>1, KeptInv, PInit, PTL DEF Spec

\* Where that value does reach the end of the kernel image, no entry owns a
\* frame of the image.
THEOREM ImageSafe ==
  ASSUME Small, \A f \in Image : f * PAGE_SIZE < first_free_page
  PROVE  Spec => []ImageKept
<1>1. PInv => ImageKept
  <2> SUFFICES ASSUME ReservedKept, ~full, NEW e \in held, Owned(e), address[e] \in Image
               PROVE  FALSE
    BY KeptInv DEF ImageKept
  <2> DEFINE a == address[e] * PAGE_SIZE
  <2>1. a < first_free_page /\ a \in Nat
    BY Machine, MulDiv, SizeAssumption
  <2>2. ~(a < first_free_page + metadata_bytes)
    BY DEF ReservedKept
  <2> HIDE DEF a
  <2> QED BY <2>1, <2>2, Machine, SizeAssumption
<1>2. PInv /\ [Next]_vars => PInv'
  BY PNext
<1> QED BY <1>1, <1>2, PInit, PTL DEF Spec
=============================================================================
