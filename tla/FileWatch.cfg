\* Two files: one changes twice, the other once.  On Solaris a port has room
\* for two objects, so the three there are take two ports.
SPECIFICATION FairSpec
CONSTANTS
  x = x
  y = y
  Names = {x, y}
  Root = Root
  Backends = {"linux", "solaris"}
  Follow = FALSE
  Times <- TimesEach
  MaxResets = 1
  MaxQueue = 1
  MaxEv = 2
  MaxObject = 4
INVARIANTS
  TypeOK
  ObjectsOwned
  PortsCounted
  NoChangeLost
PROPERTIES
  Settles
CHECK_DEADLOCK FALSE
