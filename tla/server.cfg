CONSTANTS
  None = None
  Instance = 3
  MAX_INSTANCE = 4194303
  Objects <- MCObjects
  Writable = None
  Commandable <- MCCommandable
  ArrayElements = TRUE
  Requests <- MCRequests
  LandingCalls <- MCLandingCalls
  Modes = {"online", "offline", "refusing"}
  Failures <- MCFailures
  FailingObjects <- MCFailing
  Whole <- MCWhole
  MaxRequests = 2
  MaxChanges = 2
CHECK_DEADLOCK FALSE
SPECIFICATION ServerSpec
INVARIANTS
  ServerTypeOK
  SettingsDecide
  RequestsAccountedFor
  ServicesReadBack
PROPERTIES
  ServesCommandable
  StopCloses
