\* Two clients at once, on roots that were synchronized before.
SPECIFICATION SynchronizedSpec
CONSTANTS
  Hosts = {h1, h2}
  Client = h1
  Sessions = {s1, s2}
  Contents = {a, b}
  NoArchive = NoArchive
  Unset = Unset
  Nobody = Nobody
  Dead = Dead
  Persistent = {}
  IgnoreAllowed = TRUE
  Concurrent = TRUE
  Faults = {}
  MaxCommit = 2
INVARIANTS
  OneWriter
PROPERTIES
  LoadsCoherent
SYMMETRY Symmetry
CHECK_DEADLOCK FALSE
