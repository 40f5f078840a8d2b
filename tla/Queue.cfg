SPECIFICATION Spec
CONSTANTS
  home = home
  work = work
  ana = ana
  bea = bea
  cy = cy
  app = app
  docs = docs
  web = web
  None = None
  Groups = {home, work}
  Participants = {ana, bea}
  Repos = {app, docs, web}
  HomeGroup <- TwoGroups
  Root <- FolderOf
  MaxTasks = 3
  SelfIds = {}
  Messages <- QueueMessages
  MaxQueuedPerGroup = 2
  MaxReposPerTask = 10
  MaxSendAttempts = 3
  Online = FALSE
  InitiallyEnabled = {home, work}
  InitiallyLinked = {app, docs, web}
  InitialGrants <- QueueGrants
  Limit <- QueueLimit
INVARIANTS TypeOK NoOverlap LinearConversation
PROPERTIES NothingIsReplayed ImplementsTurnQueue
CHECK_DEADLOCK FALSE
