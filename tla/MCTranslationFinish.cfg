SPECIFICATION Spec
CONSTANTS
  f = f
  g = g
  None = None
  Image = Image
  Unknown = Unknown
  EmptyObject = EmptyObject
  Closing = Closing
  Protocol <- JustGemini
  Name <- Tools
  Word <- Words
  Requests <- OneRequest
  MaxTurns = 2
  MaxParts = 3
  MaxLost = 0
SYMMETRY AnyTool
CHECK_DEADLOCK FALSE
INVARIANT FinishTellsCalls
