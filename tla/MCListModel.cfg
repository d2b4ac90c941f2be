SPECIFICATION Spec
CONSTANTS
  i1 = i1
  i2 = i2
  i3 = i3
  a1 = a1
  a2 = a2
  Item <- MCItem
  Silent = {i2, i3}
  Asker = {a1, a2}
  Own <- MCOwn
  None = None
SYMMETRY Symmetry
INVARIANTS TypeOK SoundAlone ToldOrNone ToldOfAll ShownAll
CHECK_DEADLOCK FALSE
