SPECIFICATION Spec
CONSTANTS
  f = f
  g = g
  None = None
  Image = Image
  Unknown = Unknown
  EmptyObject = EmptyObject
  Closing = Closing
  Protocol <- AllProtocols
  Name <- Tools
  Word <- Words
  Requests <- AllRequests
  MaxTurns = 2
  MaxParts = 3
  MaxLost = 1
SYMMETRY AnyTool
CHECK_DEADLOCK FALSE
INVARIANTS
  TypeOK
  WellFormedStream
  HeardIsSaid
  NothingLost
  ResultsFollowCalls
  RefusedAlike
  OnlyChosenTools
