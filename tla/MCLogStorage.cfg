CONSTANTS
  Key = {1, 2, 3}
  MaxRecords = 4
SPECIFICATION Spec
INVARIANTS TypeOK NoAckedPutLost RemovedStaysRemoved IndexIsReadable
