SPECIFICATION Spec
CONSTANTS
  home = home
  work = work
  ana = ana
  bea = bea
  cy = cy
  app = app
  docs = docs
  web = web
  None = None
  Groups = {work}
  Participants = {ana, bea}
  Repos = {app, web}
  HomeGroup <- OneGroup
  Root <- FolderOf
  MaxTasks = 2
  SelfIds = {}
  Messages <- AccessMessages
  MaxQueuedPerGroup = 100
  MaxReposPerTask = 10
  MaxSendAttempts = 3
  Online = FALSE
  InitiallyEnabled = {work}
  InitiallyLinked = {app, web}
  InitialGrants <- AccessGrants
  Limit <- AccessLimit
INVARIANTS AuthorizedWork PendingIsAuthorized
PROPERTIES MessageWorksOnce
CHECK_DEADLOCK FALSE
