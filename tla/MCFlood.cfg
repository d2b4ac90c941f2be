SPECIFICATION ReliableSpec
CONSTANTS
  Node = {n1, n2, n3, n4, n5}
  Unknown = Unknown
  StandardTTL = 3
  Networks <- Networks5
INVARIANTS TypeOK RepliesToOrigin WithinHops FloodInv
PROPERTIES SearchReaches
CHECK_DEADLOCK FALSE
