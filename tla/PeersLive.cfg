SPECIFICATION FairSpec
CONSTANTS
  Host = {h1}
  Named = {}
  Mortal = {h1}
  Servlet = {s1, s2}
  Pinger = {p1, p2}
  Worker = {w1}
  PingTime = 0
  PongTime = 1
  SleepTime = 1
  LookLast = 1
  None = None
PROPERTIES SilentGoes OutOfHostsAsks
CHECK_DEADLOCK FALSE
