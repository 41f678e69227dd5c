----------------------------- MODULE Multiboot -----------------------------
(***************************************************************************)
(* kernel/multiboot2_parser.c: the walk over the boot loader's tags and    *)
(* the end of memory.  The information is a list of tags [type, size,      *)
(* entry_size, entries]; the loader puts each on the next multiple of 8.   *)
(***************************************************************************)
EXTENDS Integers, Sequences, FiniteSets

MULTIBOOT_TAG_TYPE_END     == 0
MULTIBOOT_TAG_TYPE_MMAP    == 6
MULTIBOOT_MEMORY_AVAILABLE == 1
NO_TAG                     == -1
SIZEOF_MMAP_ENTRY          == 24   \* struct multiboot_mmap_entry
OFFSETOF_ENTRIES           == 16   \* struct multiboot_tag_mmap

\* A memory map tag as the loader writes it
mmap_tag(entries) ==
  [type |-> MULTIBOOT_TAG_TYPE_MMAP,
   size |-> OFFSETOF_ENTRIES + SIZEOF_MMAP_ENTRY * Len(entries),
   entry_size |-> SIZEOF_MMAP_ENTRY, entries |-> entries]

\* Where the loader puts tag i: behind its predecessor, 8-aligned
Place(tags) ==
  LET at[i \in 1..Len(tags)] ==
        IF i = 1 THEN 0
        ELSE CHOOSE o \in at[i-1] + tags[i-1].size .. at[i-1] + tags[i-1].size + 7 : o % 8 = 0
  IN at

\* Fault: the padding between tags is forgotten.
Stride_Unpadded(size) == size

\* (size + 7) & ~7
Stride(size) == ((size + 7) \div 8) * 8

\* The index of the first tag of a type, NO_TAG where the walk meets the end
\* tag, and 0 for a walk that leaves the tags.
multiboot_find_tag(tags, tag_type) ==
  LET place == Place(tags)
      walk[o \in 0..place[Len(tags)] + 8] ==
        IF \A i \in DOMAIN tags : place[i] # o THEN 0
        ELSE LET i == CHOOSE j \in DOMAIN tags : place[j] = o
             IN IF tags[i].type = MULTIBOOT_TAG_TYPE_END THEN NO_TAG
                ELSE IF tags[i].type = tag_type THEN i
                ELSE walk[o + Stride(tags[i].size)]
  IN walk[0]

\* Fault: memory of any type counts.
Usable_Any(e) == TRUE

Usable(e) == e.type = MULTIBOOT_MEMORY_AVAILABLE

LastByte(e) == e.addr + e.len - 1

\* multiboot_get_memory_end.  mmap_entry += mmap->entry_size / 8 advances by
\* that many structures, of SIZEOF_MMAP_ENTRY bytes each.
multiboot_get_memory_end(tags) ==
  LET mmap == tags[multiboot_find_tag(tags, MULTIBOOT_TAG_TYPE_MMAP)]
      step == (mmap.entry_size \div 8) * SIZEOF_MMAP_ENTRY
      EntryAt(p) == mmap.entries[(p - OFFSETOF_ENTRIES) \div SIZEOF_MMAP_ENTRY + 1]
      \* the end of memory among the entries visited from the last one back to p
      from[p \in OFFSETOF_ENTRIES..mmap.size+step] ==
        IF p >= mmap.size THEN 0
        ELSE IF Usable(EntryAt(p)) /\ from[p + step] < LastByte(EntryAt(p))
             THEN LastByte(EntryAt(p)) ELSE from[p + step]
  IN from[OFFSETOF_ENTRIES]
=============================================================================
