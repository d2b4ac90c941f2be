SPECIFICATION FairSpec
CONSTANTS
  Host = {h1, h2}
  Named = {h2}
  Mortal = {h1, h2}
  Servlet = {s1, s2}
  Pinger = {p1}
  Worker = {w1}
  PingTime = 0
  PongTime = 0
  SleepTime = 0
  LookLast = 1
  None = None
PROPERTIES OutOfHostsAsks
CHECK_DEADLOCK FALSE
