SPECIFICATION RoundSpec
CONSTANTS
  p1 = p1
  p2 = p2
  m1 = m1
  m2 = m2
  c1 = c1
  Key = {}
  NoKey = NoKey
  Absent = Absent
  Nothing = Nothing
  Provider <- TwoProviders
  Model <- OneModel
  AdminCall <- OneCall
  Lists <- NoneOrOne
  Slots = 1
  MaxEdits = 1
  MaxAsked = 1
  MaxMissing = 1
  MaxChanges = 1
INVARIANTS
  TypeOK
  StaleNeedsEvidence
  GoneUnlessRaced
PROPERTY EveryRoundEnds
