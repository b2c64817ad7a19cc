SPECIFICATION FairSpec
CONSTANTS
  Addrs = {a1, a2}
  NoAddr = NoAddr
  BadFile = BadFile
  BootAddr = a1
  FactoryAddr = a1
  Serving = {a1}
  BootStates = {"Logout"}
  BootChangeNetParm = {0}
  SocStates = {"awake"}
  TestModes = {FALSE}
  SampleLink = FALSE
  RecvPrompt = TRUE
  PlatformRespTimeout = 1
  TerminalRespTimeout = 0
  QueueBound = 1
  StreamBound = 1
  CommandBound = 0
PROPERTIES
  BrokenLinkNoticed
