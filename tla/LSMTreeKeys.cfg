CONSTANTS
  Key = {Alias, Colon, Other}
  Stored = {Colon, Other}
  Removed = {}
  Stamp = {v1}
  Closer = {c1, c2}
  Absent = Absent
  Tombstone = Tombstone
  None = None
  Torn = Torn
  lower_bound <- FirstFound
  Part = {"user", "vip", "1", "a"}
  primary_key <- Primary
  secondary_key <- Secondary
  Colon = Colon
  Alias = Alias
  Other = Other
  MemtableLimit = 2
  MaxSSTables = 1
  NameStep = {0, 1}
  MaxTime = 1
  MaxTables = 2
  ScanKey = {1, 2, 3}
  ScanValue = {v1, v2}
  Depth = 2
SPECIFICATION FairSpec
INVARIANTS GetAnswersItsString ScanAgreesWithGet
PROPERTY CloseReturnsUnlessReopened
