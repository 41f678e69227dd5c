SPECIFICATION Spec
CONSTANTS
  Keys <- TypingKeys
  MaxStrokes = 4
  MaxLost = 1
INVARIANTS InBuffer InTables Faithful Resynchronised
