SPECIFICATION FairSpec
CONSTANTS
  alarms = alarms
  system = system
  library = library
  sysrepo = sysrepo
  c1 = c1
  c2 = c2
  Clients = {c1, c2}
  Workloads <- MCWorkloads
  DeviceCount = 2
  MaxVersion = 2
  ModuleList <- MCModuleList
  Implemented <- MCImplemented
  SysrepoModule = sysrepo
  Notifying <- MCNotifying
  MaxNotifications = 2
INVARIANTS
  TypeOK
  ViewNeverGoesBack
  CallbackFindsSignal
  SubscriptionsMatchAnswer
  NotificationsInOrder
PROPERTIES
  TelemetryConverges
  NotificationsArrive
CHECK_DEADLOCK FALSE
