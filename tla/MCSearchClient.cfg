SPECIFICATION ClientSpec
CONSTANTS
  Addr = {a1, a2}
  NoAddr = NoAddr
  MaxReqNo = 3
  Timeout = 1
  MaxTime = 4
  Search = {s1, s2}
  Download = {d1}
  Nobody = Nobody
  Pages <- MCPages
  Workers = 2
  DefaultTimeout = 2
SYMMETRY Symmetry
INVARIANTS ClientTypeOK RepliesKept PagesStay
CHECK_DEADLOCK FALSE
