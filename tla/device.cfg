CONSTANTS
  Quanta = 2
  MaxPass = 2
  FaultHook = TRUE
  Horizon = 27
  MaxNudges = 1
  DeviceIDs <- MCDeviceIDs
  DeviceNames <- MCDeviceNames
  MaxOptions = 2
  MAX_CHARACTER_STRING_SIZE = 256
CHECK_DEADLOCK FALSE
SPECIFICATION DeviceSpec
INVARIANTS
  TypeOK
  ReadingInReach
  InputsKeepTime
  FaultNoticedInTime
  DeviceTypeOK
  NothingInvented
  FaultServed
  StatesHaveTexts
PROPERTY BrokenWireMovesNothing
