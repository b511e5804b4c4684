CONSTANTS
  Stdins = {"posixTerminal", "posixPipe", "windowsConsole", "windowsPipe"}
  Keys = {"h", "up", "down", "F2", "other"}
  Hurried = {"windowsConsole", "windowsPipe"}
  MaxTyped = 2
  BindErrors = {"Permission denied"}
  Signals = {"SIGINT", "SIGTERM"}
CHECK_DEADLOCK FALSE
SPECIFICATION ProcessSpec
INVARIANTS
  TypeOK
  CommandsInOrder
  EveryKeyHeard
  TerminalLeftAsFound
  TestedSensorIsComplete
  StopIsGraceful
PROPERTIES
  NoSignalEndsAPass
  StopEndsTheProcess
