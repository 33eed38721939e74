\* A client may start while servers of a killed one still run.  No hard
\* links: the main archive is copied from the new one.
SPECIFICATION Spec
CONSTANTS
  Hosts = {h1, h2}
  Client = h1
  Sessions = {s1, s2}
  Contents = {a}
  NoArchive = NoArchive
  Unset = Unset
  Nobody = Nobody
  Dead = Dead
  Persistent = {}
  IgnoreAllowed = FALSE
  Concurrent = FALSE
  Faults = {"kill"}
  MaxCommit = 1
INVARIANTS
  Protocol
  LocksHeld
PROPERTIES
  StoreSpec
SYMMETRY Symmetry
VIEW WithoutEnded
CHECK_DEADLOCK FALSE
