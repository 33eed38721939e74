\* Three processes, two of them with neighbouring identifiers.
SPECIFICATION Spec
CONSTANTS
  p1 = p1
  p2 = p2
  p3 = p3
  Procs = {p1, p2, p3}
  Pid <- MCPid
  Nobody = Nobody
  Dead = Dead
  Faults = {"kill", "stat"}
  MaxName = 3
  MaxFile = 3
INVARIANTS
  TypeOK
  OneHolder
PROPERTIES
  ServiceSpec
CHECK_DEADLOCK FALSE
