CONSTANTS
  Stdins = {"posixPipe"}
  Keys = {"h"}
  Hurried = {"posixPipe"}
  MaxTyped = 1
  BindErrors = {}
  Signals = {}
CHECK_DEADLOCK FALSE
SPECIFICATION ProcessSpec
INVARIANT EveryKeyHeard
