\* One client at a time.  The client is the text interface; the other host
\* runs a socket server, which keeps its archives between connections.
SPECIFICATION FairSpec
CONSTANTS
  Hosts = {h1, h2}
  Client = h1
  Sessions = {s1}
  Contents = {a, b}
  NoArchive = NoArchive
  Unset = Unset
  Nobody = Nobody
  Dead = Dead
  Persistent = {h2}
  IgnoreAllowed = FALSE
  Concurrent = FALSE
  Faults = {"kill", "drop", "fail"}
  MaxCommit = 2
INVARIANTS
  TypeOK
  Coherent
  Protocol
PROPERTIES
  StoreSpec
  LoadsStored
  RunsEnd
CHECK_DEADLOCK FALSE
