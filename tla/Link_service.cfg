SPECIFICATION Spec
CONSTANTS
  Addrs = {a1, a2}
  NoAddr = NoAddr
  BadFile = BadFile
  BootAddr = a1
  FactoryAddr = a2
  Serving = {a1}
  BootStates = {"Logout"}
  BootChangeNetParm = {0, 1}
  SocStates = {"awake"}
  TestModes = {FALSE}
  SampleLink = FALSE
  RecvPrompt = TRUE
  PlatformRespTimeout = 1
  TerminalRespTimeout = 0
  QueueBound = 0
  StreamBound = 2
  CommandBound = 1
INVARIANTS
  SocketOwned
  LiveWhileRunning
  OnlineAfterLogin
  KnownGoodReachable
PROPERTIES
  ImplementsSocketUse
