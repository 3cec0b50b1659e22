SPECIFICATION Spec
CONSTANTS
  p1 = p1
  p2 = p2
  k1 = k1
  k2 = k2
  v1 = v1
  v2 = v2
  h1 = h1
  h2 = h2
  Model = {}
  NoKey = NoKey
  Absent = Absent
  NoHandler = NoHandler
  Provider <- TwoProviders
  Key <- TwoKeys
  Value <- TwoValues
  Handler <- TwoHandlers
  Priority = {0, 1}
  MaxWrites = 3
  MaxEvents = 0
SYMMETRY Alike
PROPERTIES
  OmittedSecretIsKept
