SPECIFICATION Spec
CONSTANTS
  p1 = p1
  p2 = p2
  m1 = m1
  m2 = m2
  k1 = k1
  k2 = k2
  r1 = r1
  r2 = r2
  NoKey = NoKey
  Absent = Absent
  ViaAlias = ViaAlias
  NoAlias = NoAlias
  NoReply = NoReply
  Provider <- TwoProviders
  Model <- TwoModels
  Key <- TwoKeys
  FirstKeys <- OneKeyEach
  Embedders <- OnlyP1Embeds
  Offers <- TwoOffers
  Req <- OneRequest
  Call <- AliasChats
  AliasRow <- Rows
  FirstAliases <- OneAlias
  Statuses <- FewStatuses
  Faults <- NetworkFaults
  MaxAdmin = 0
  MaxRefresh = 0
  MaxRelease = 0
  MaxEvents = 0
INVARIANT ExhaustedRepliesError
