CONSTANTS
  Key = {1}
  Length = {1, 2, 3}
  Cap = 4
  MaxRecords = 5
SPECIFICATION Spec
INVARIANTS TypeOK RecordsIntact NewSegmentIsNew RefusedOnlyIfTorn
PROPERTY ImplementsSegmentLog
CHECK_DEADLOCK FALSE
