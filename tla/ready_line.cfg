CONSTANTS
  Stdins = {"posixPipe"}
  Keys = {}
  Hurried = {}
  MaxTyped = 0
  BindErrors = {"Address already in use"}
  Signals = {}
CHECK_DEADLOCK FALSE
SPECIFICATION ProcessSpec
INVARIANT TestingMeansReady
