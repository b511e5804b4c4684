CONSTANTS
  Callers = {"c1", "c2"}
  Watcher = "watcher"
  Modulus = 2
  Retries = 1
  MaxAge = 2
  MaxRequests = 3
  MaxNotices = 1
CHECK_DEADLOCK FALSE
SPECIFICATION Spec
INVARIANTS
  TypeOK
  NoLostWakeup
  LeftoversBounded
PROPERTIES
  ServesRequestReply
