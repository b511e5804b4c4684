CONSTANTS
  Modulus = 3
  Retries = 1
  MaxAge = 3
  MaxRequests = 4
  MaxChanges = 1
CHECK_DEADLOCK FALSE
SPECIFICATION Spec
INVARIANT TypeOK
PROPERTIES
  ServesRequestReply
  ReadsNeverGoBack
  RequestReturns
