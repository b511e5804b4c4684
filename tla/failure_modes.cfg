CONSTANTS
  Quanta = 20
  MaxPass = 5
  FaultHook = TRUE
  Horizon = 27
  MaxNudges = 0
  NoticedQuanta = 60
  WatchQuanta = 50
  PollQuanta = 5
  IntervalQuanta = 4
  ReadQuanta = 5
  ChecksQuanta = 1
  LatestStart = 9
  NoAnswer = NoAnswer
CHECK_DEADLOCK FALSE
SPECIFICATION ModesTestSpec
INVARIANTS
  FaultSeenInTime
  FrozenWhileWatched
  HealthyReadingMoves
