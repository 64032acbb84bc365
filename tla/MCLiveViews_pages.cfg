SPECIFICATION Spec
CONSTANTS
  Objects = 1
  Initially = 0
  MaxVersion = 2
  Pages = {p1, p2}
  Visible <- MCVisible
  MaxConns = 3
  MaxHubs = 2
SYMMETRY PageSymmetry
INVARIANTS WatchWhileRead NothingMissed
CHECK_DEADLOCK FALSE
