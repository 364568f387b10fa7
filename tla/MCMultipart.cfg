CONSTANTS
  Objects = {x, y}
  Contents = {c1, c2}
  Multiparts = {m, o}
  None = None
  Empty = Empty
  Dead = Dead
  HWM = 1
  MaxParts = 2
SYMMETRY Symmetry
SPECIFICATION Spec
INVARIANTS CountedOnce DeliveredWhole NotRefusedInside
PROPERTY RefusedCallLeaves
