CONSTANTS
  None = None
  Instance = 1
  Other = 2
  Ports <- MCPorts
  Interfaces <- MCInterfaces
  Clients <- MCClients
  MaxMessage = 1
  MaxConnectionStringLength = 6
  MaxArrivals = 2
  MaxFailures = 1
  MaxMoves = 1
  MaxLines = 2
CHECK_DEADLOCK FALSE
SPECIFICATION Spec
INVARIANTS
  RepliesReachTheClient
  SubnetHears
  WireCountsAnnouncements
