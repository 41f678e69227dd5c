SPECIFICATION Spec
CONSTANTS
  VGA_WIDTH = 2
  VGA_HEIGHT = 2
  Colors <- MCColors
  HighChars <- MCHighChars
  KmainText <- MCKmainText
  IrqText <- MCIrqText
  MaxPrints = 2
  MaxIrqs = 2
  MaxSets = 1
INVARIANTS InScreen ScreenShowsText
