CONSTANTS
  Retries = 1
  MaxAsks = 2
CHECK_DEADLOCK FALSE
SPECIFICATION Spec
INVARIANT AnswersThisCommand
