SPECIFICATION FairSpec
CONSTANTS
  home = home
  work = work
  ana = ana
  bea = bea
  cy = cy
  app = app
  docs = docs
  web = web
  None = None
  Groups = {work}
  Participants = {ana, bea}
  Repos = {app}
  HomeGroup <- OneFolder
  Root <- FolderOf
  MaxTasks = 2
  SelfIds = {}
  Messages <- DrainMessages
  MaxQueuedPerGroup = 100
  MaxReposPerTask = 10
  MaxSendAttempts = 1
  Online = TRUE
  InitiallyEnabled = {work}
  InitiallyLinked = {app}
  InitialGrants <- BothGrants
  Limit <- DrainLimit
PROPERTIES TurnsSettle OutboxDrains StopsComplete
CHECK_DEADLOCK FALSE
