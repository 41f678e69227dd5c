SPECIFICATION Spec
CONSTANTS
  SIZE = 6
  Bytes = {0, 65, 200}
  Ints = {0, 65, 200, 321}
  Numbers <- MCNumbers
  Infos <- MCInfos
  TagTypes <- MCTagTypes
INVARIANTS SearchRight CompareRight StoreRight ItoaRight TagFound MemoryEndReal
