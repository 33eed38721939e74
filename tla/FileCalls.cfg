\* Files of up to five bytes, which the kernel copies at most four at a time;
\* a cluster has two.  (Attributes on Darwin have the names they have on
\* Solaris and are read as on Linux.)
SPECIFICATION FairSpec
CONSTANTS
  CopySystems = {"darwin", "linux", "freebsd", "solaris", "windows", "other"}
  FileLengths = {0, 1, 3, 5}
  MaxLength = 6
  Chunk = 4
  Cluster = 2
  MaxEdits = 2
  XattrSystems = {"linux", "freebsd", "solaris"}
  Values <- TheValues
  InitialValues <- TheFirstValues
  FewValues <- TheFewValues
  Short = 1
  MaxTries = 2
  MaxDisturbances = 2
  AclSystems = {"darwin", "freebsd", "posix", "solaris", "windows"}
  MaxChmods = 1
  MaxAclEdits = 1
  MaxAclFaults = 2
INVARIANTS
  TypeOK
  Placed
  Whole
  ReadWhole
  Applied
  NotRefused
  OnlySynced
  
PROPERTIES
  Ends
CHECK_DEADLOCK FALSE
