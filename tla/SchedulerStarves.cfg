CONSTANTS
  ProposeTimeout = "kEVENT_PROPOSE_TIMEOUT"
  AcceptTimeout = "kEVENT_ACCEPT_TIMEOUT"
  NewValueTimeout = "kEVENT_NEWVALUE_TIMEOUT"
  ShallLearn = "kEVENT_SHALL_I_LEARN"
  ProposeDelay = 1
  NewValueDelay = 2
  LearnDelay = 2
  DefaultWait = 1
  MaxLate = 1
SPECIFICATION FairSpec
PROPERTY ProposerTimeoutRuns
