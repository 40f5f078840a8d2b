SPECIFICATION Spec
CONSTANTS
  phone = phone
  linked = linked
  owner = owner
  ana = ana
  NoMessage = NoMessage
  Chats = {phone, linked}
  Identities <- TwoNames
  Owner = owner
  People = {}
  Aliased = {}
  Messages <- NamesMessages
  MaxRequests = 2
  Lookups = {TRUE}
  Confirms = {TRUE}
  InitialAccess <- OnlyOwner
  Limit <- NamesLimit
INVARIANTS EquivalentExclusive OneRequestPerMessage
CHECK_DEADLOCK FALSE
