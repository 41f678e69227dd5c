SPECIFICATION Spec
CONSTANTS
  PAGE_SHIFT = 2
  memsize = 79
  first_free_page = 44
  Image <- ImageFrames
  W32 = 256
  W64 = 1024
  Entries = {e1, e2, e3, e4}
  Junk <- JunkValues
  CallsFree = TRUE
  MaxAllocs = 6
INVARIANTS TypeOK NoSharedFrame ReservedKept
