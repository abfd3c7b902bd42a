SPECIFICATION Spec
CONSTANTS
  c1 = c1
  c2 = c2
  Client = {c1, c2}
  Sender = {c1, c2}
  SendType = {"PROPOSE_ACK", "CONFIRM_LEARN"}
  MaxCall = 2
  MaxSend = 2
  MaxCopy = 1
INVARIANTS TypeOK AckedWasHandled OneListener CallDataOwnedOnce AbortOnlyAtStart FalseAcksNeedCopies
PROPERTIES SendReturns ServerStops UdpSendReturns
CHECK_DEADLOCK FALSE
