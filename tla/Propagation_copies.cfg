\* Conflict copies.
SPECIFICATION Spec
CONSTANTS
  Paths = {p}
  Files = {a, b}
  Directories = {d}
  Absent = Absent
  Torn = Torn
  Unset = Unset
  NoPath = NoPath
  Copies = {TRUE}
  Batch = FALSE
  Faults = {}
  MaxEdits = 2
  MaxFaults = 0
INVARIANTS
  ArchiveTrue
SYMMETRY Symmetry
CHECK_DEADLOCK FALSE
