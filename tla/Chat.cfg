SPECIFICATION Spec
CONSTANTS
  phone = phone
  linked = linked
  owner = owner
  ana = ana
  NoMessage = NoMessage
  Chats = {phone}
  Identities <- OneChat
  Owner = owner
  People = {ana}
  Aliased = {ana}
  Messages <- ChatMessages
  MaxRequests = 2
  Lookups = {TRUE, FALSE}
  Confirms = {TRUE, FALSE}
  InitialAccess <- AcceptsAna
  Limit <- ChatLimit
INVARIANTS TypeOK Agreement NoStrayRun
PROPERTIES StartsAuthorized NoLateReply
CHECK_DEADLOCK FALSE
