SPECIFICATION FairSpec
CONSTANTS
  Clients = {c1, c2}
  Props = {p1, p2}
  Continuous = {p1}
  Readable = {p1}
  FromAndroid = {p2}
  Calls = {t1, t2}
  MaxRate = 2
  ListBound = 2
  Mortal = {c1, c2}
INVARIANTS
  MapsAgree
  RateCovered
  PolledWhileWanted
PROPERTIES
  DeadForgotten
