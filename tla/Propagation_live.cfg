\* Runs follow each other.
SPECIFICATION FairSpec
CONSTANTS
  Paths = {p}
  Files = {a, b}
  Directories = {d}
  Absent = Absent
  Torn = Torn
  Unset = Unset
  NoPath = NoPath
  Copies = {FALSE}
  Batch = TRUE
  Faults = {"kill", "fail", "stop"}
  MaxEdits = 2
  MaxFaults = 2
PROPERTIES
  Settles
CHECK_DEADLOCK FALSE
