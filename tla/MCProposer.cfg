CONSTANTS
  Self = 1
  Node = {1, 2}
  Value = {v1, v2}
  NoValue = NoValue
  Options <- MCOptions
  MaxNumber = 6
  MaxInstance = 2
SPECIFICATION Spec
INVARIANTS TypeOK NumbersPassCounted VotesNeedPrepare IdleHasNoTimer
