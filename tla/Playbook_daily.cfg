SPECIFICATION FairSpec
CONSTANTS
  web = web
  app = app
  store = store
  Absent = Absent
  Torn = Torn
  Run = {r1}
  Tasks <- TwoTasks
  Inst = {web, app, store}
  Installed = {store}
  Conf <- MCConf
  Validity = 4
  Window = 2
  ForceRenew <- ForceNever
  Exclusive = TRUE
  Daily = TRUE
  MaxClock = 8
  MaxIssued = 9
  MaxFaults = 2
INVARIANTS NoExpiry RenewalRate
PROPERTIES SuccessMeansFresh NoNeedlessEnroll TaskIsolation
