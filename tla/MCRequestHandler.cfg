SPECIFICATION FairSpec
CONSTANTS
  Addr = {a1, a2, a3}
  NoAddr = NoAddr
  MaxReqNo = 2
  Timeout = 1
  MaxTime = 4
INVARIANTS TypeOK TreeSound ToldOnce NoneLost IInv
PROPERTIES FreedWhenDone ExpiryIsTold EndedIsFreed
CHECK_DEADLOCK FALSE
