\* One path, every fault.
SPECIFICATION Spec
CONSTANTS
  Paths = {p}
  Files = {a, b}
  Directories = {d}
  Absent = Absent
  Torn = Torn
  Unset = Unset
  NoPath = NoPath
  Copies = {TRUE, FALSE}
  Batch = FALSE
  Faults = {"kill", "fail", "stop"}
  MaxEdits = 3
  MaxFaults = 1
INVARIANTS
  TypeOK
  LogTells
  ArchiveKnown
PROPERTIES
  NoLoss
  OriginalOrFinal
SYMMETRY Symmetry
CHECK_DEADLOCK FALSE
