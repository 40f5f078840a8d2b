SPECIFICATION Spec
CONSTANTS
  phone = phone
  linked = linked
  owner = owner
  ana = ana
  NoMessage = NoMessage
  Chats = {phone}
  Identities <- OneChat
  Owner = owner
  People = {ana}
  Aliased = {}
  Messages <- CrashMessages
  MaxRequests = 2
  Lookups = {TRUE}
  Confirms = {TRUE}
  InitialAccess <- AcceptsAna
  Limit <- CrashLimit
INVARIANTS SentOnce
PROPERTIES NothingReplayed
CHECK_DEADLOCK FALSE
