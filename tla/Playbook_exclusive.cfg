SPECIFICATION Spec
CONSTANTS
  web = web
  app = app
  store = store
  Absent = Absent
  Torn = Torn
  Run = {r1}
  Tasks <- OneTask
  Inst = {web, store}
  Installed = {web, store}
  Conf <- MCConf
  Validity = 2
  Window = 1
  ForceRenew <- ForceAny
  Exclusive = TRUE
  Daily = FALSE
  MaxClock = 3
  MaxIssued = 4
  MaxFaults = 2
INVARIANTS TypeOK FilesUniform OneCopyIsUsable ServiceCurrent
