CONSTANTS
  Quanta = 8
  MaxPass = 1
  FaultHook = FALSE
  Horizon = 8
  MaxNudges = 0
  SampleQuanta = 4
  PeerDelay = 1
  RequestTimeout = 5
  MaxLost = 15
  FirstStart = 20
  LastStart = 23
  NoSample = NoSample
SPECIFICATION TestSpec
CHECK_DEADLOCK FALSE
INVARIANTS
  StepsWithinTwo
  HeldAboutThreeSeconds
  NoStateSleptThrough
