SPECIFICATION FairSpec
CONSTANTS
  Addrs = {a1, a2}
  NoAddr = NoAddr
  BadFile = BadFile
  BootAddr = a1
  FactoryAddr = a1
  Serving = {}
  BootStates = {"Logout"}
  BootChangeNetParm = {0, 1}
  SocStates = {"awake", "sleep"}
  TestModes = {TRUE, FALSE}
  SampleLink = TRUE
  RecvPrompt = TRUE
  PlatformRespTimeout = 1
  TerminalRespTimeout = 0
  QueueBound = 0
  StreamBound = 1
  CommandBound = 0
PROPERTIES
  AwakeReconnects
