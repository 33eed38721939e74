\* The directory is reached by a link that is followed.
SPECIFICATION Spec
CONSTANTS
  x = x
  y = y
  Names = {x, y}
  Root = Root
  Backends = {"linux", "solaris"}
  Follow = TRUE
  Times <- TimesEach
  MaxResets = 1
  MaxQueue = 1
  MaxEv = 2
  MaxObject = 4
INVARIANTS
  NoChangeLost
CHECK_DEADLOCK FALSE
