SPECIFICATION PromptSpec
CONSTANTS
  Host = {h1, h2}
  Named = {h1}
  Mortal = {h2}
  Servlet = {s1, s2, s3}
  Pinger = {p1, p2}
  Worker = {w1, w2}
  PingTime = 0
  PongTime = 2
  SleepTime = 1
  LookLast = 0
  None = None
SYMMETRY PeersSymmetry
INVARIANTS TypeOK ListedArePinged NeverStranded AnsweringStays HeardOnce
CHECK_DEADLOCK FALSE
