SPECIFICATION MCSpec
CONSTANTS
  DumpsWhenDown = TRUE
  Limit = 1
  ReportBound = 4
  CrashBound = 1
  Window = 30
  Configs <- MCConfigs
  ChangeBound = 1
  FirstYear = 2023
  LastYear = 2024
  AgeBound = 40
INVARIANTS
  BacklogInOrder
  AllAccounted
  NoGap
  EvictedOld
  AlarmModeLasts
  RightToADay
PROPERTIES
  ImplementsStoreAndForward
  BacklogDrains
