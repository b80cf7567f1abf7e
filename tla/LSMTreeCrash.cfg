CONSTANTS
  Key = {Alias}
  Stored = {Alias}
  Removed = {Alias}
  Stamp = {v1, v2}
  Closer = {c1}
  Absent = Absent
  Tombstone = Tombstone
  None = None
  Torn = Torn
  lower_bound <- FirstFound
  Part = {"user", "vip", "1", "a"}
  primary_key <- Primary
  secondary_key <- Secondary
  Colon = Colon
  Alias = Alias
  Other = Other
  MemtableLimit = 1
  MaxSSTables = 2
  NameStep = {1}
  MaxTime = 3
  MaxTables = 4
  ScanKey = {1}
  ScanValue = {v1}
  Depth = 1
SPECIFICATION DSpec
PROPERTY LoggedWritesSurvive
