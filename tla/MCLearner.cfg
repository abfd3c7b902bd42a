SPECIFICATION Spec
CONSTANTS
  Node = {1, 2}
  Self = 1
  MaxInstance = 3
  Told = {0, 1, 3}
  LEAD_FOLLOW_DIS = 0
INVARIANTS TypeOK ExecutedInOrder RecordIsWhatRan SendsWhatRan JobIsTheThreads WindowHeld
PROPERTY JobEnds
CHECK_DEADLOCK FALSE
