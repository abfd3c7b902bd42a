CONSTANTS
  ProposalId = {0, 1}
  Node = {1, 2}
  Value = {v1, v2}
  NoValue = NoValue
  MaxInstance = 1
  InstanceModulus = 16
SPECIFICATION Spec
PROPERTY RecordedPromiseKept
