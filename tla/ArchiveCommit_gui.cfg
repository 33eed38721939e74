\* A graphical client and a socket server: both keep their archives.
SPECIFICATION Spec
CONSTANTS
  Hosts = {h1, h2}
  Client = h1
  Sessions = {s1}
  Contents = {a, b}
  NoArchive = NoArchive
  Unset = Unset
  Nobody = Nobody
  Dead = Dead
  Persistent = {h1, h2}
  IgnoreAllowed = FALSE
  Concurrent = FALSE
  Faults = {"drop"}
  MaxCommit = 2
PROPERTIES
  LoadsCoherent
SYMMETRY Symmetry
CHECK_DEADLOCK FALSE
