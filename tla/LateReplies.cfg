SPECIFICATION ClientSpec
CONSTANTS
  Addr = {a1, a2}
  NoAddr = NoAddr
  MaxReqNo = 2
  Timeout = 1
  MaxTime = 4
  Search = {s1, s2}
  Download = {}
  Nobody = Nobody
  Pages <- MCPages
  Workers = 1
  DefaultTimeout = 2
INVARIANTS LateRepliesHarmless
CHECK_DEADLOCK FALSE
