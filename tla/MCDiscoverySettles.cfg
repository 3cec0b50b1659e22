SPECIFICATION FairSpec
CONSTANTS
  p1 = p1
  p2 = p2
  m1 = m1
  m2 = m2
  c1 = c1
  Key = {}
  NoKey = NoKey
  Absent = Absent
  Nothing = Nothing
  Provider <- OneProvider
  Model <- TwoModels
  AdminCall <- OneCall
  Lists <- TwoLists
  Slots = 1
  MaxEdits = 2
  MaxAsked = 1
  MaxMissing = 2
  MaxChanges = 1
PROPERTY SettlesOnUpstream
CHECK_DEADLOCK FALSE
