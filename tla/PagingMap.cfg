SPECIFICATION Spec
CONSTANTS
  PAGE_SHIFT = 2
  memsize = 163
  kernel_end = 54
  W32 = 1024
  W64 = 4096
  ENTRIES = 4
  HIGH_TABLES = 3
  LOW_TABLES = 1
  HEAP_TABLES = 3
  Virt <- MapPages
  Phys <- MapFrames
  MaxHeapPages = 18
INVARIANTS HighIdentity TablesAreTree MapsIsolated LookupsAgree
