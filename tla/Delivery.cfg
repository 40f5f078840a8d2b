SPECIFICATION Spec
CONSTANTS
  home = home
  work = work
  ana = ana
  bea = bea
  cy = cy
  app = app
  docs = docs
  web = web
  None = None
  Groups = {work}
  Participants = {ana, bea, cy}
  Repos = {app, web}
  HomeGroup <- OneGroup
  Root <- FolderOf
  MaxTasks = 1
  SelfIds = {cy}
  Messages <- DeliveryMessages
  MaxQueuedPerGroup = 100
  MaxReposPerTask = 10
  MaxSendAttempts = 2
  Online = TRUE
  InitiallyEnabled = {work}
  InitiallyLinked = {app}
  InitialGrants <- DeliveryGrants
  Limit <- DeliveryLimit
INVARIANTS OrderedDelivery
PROPERTIES WireIsAuthorized
CHECK_DEADLOCK FALSE
