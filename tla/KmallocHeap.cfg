SPECIFICATION Spec
CONSTANTS
  PAGE_SIZE = 32
  Sizes <- Requests
  TotalMemory = 96
  MaxHeap = 128
INVARIANTS TypeOK HeadersInHeap PayloadsDisjoint NotFreeTwice OrderedBehindHead NothingLost
