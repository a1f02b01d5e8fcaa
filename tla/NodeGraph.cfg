SPECIFICATION NodeSpec
CONSTANTS
  m = m
  n = n
  x = x
  y = y
  Node = {m, n}
  Name = {x, y}
  PinName = {1}
SYMMETRY NodeSymmetry
INVARIANTS
  LinksSymmetric
  LinkedOnce
  CloneExact
PROPERTY
  ConnectIsLocal
