SPECIFICATION FairSpec
CONSTANTS
  phone = phone
  linked = linked
  owner = owner
  ana = ana
  NoMessage = NoMessage
  Chats = {phone}
  Identities <- OneChat
  Owner = owner
  People = {}
  Aliased = {}
  Messages <- RepliesMessages
  MaxRequests = 2
  Lookups = {TRUE}
  Confirms = {TRUE}
  InitialAccess <- OnlyOwner
  Limit <- RepliesLimit
PROPERTIES Answered Posted
CHECK_DEADLOCK FALSE
