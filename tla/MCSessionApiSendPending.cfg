\* session_api.h:75, with reads and writes on the same session.
SPECIFICATION Spec
CONSTANTS
  MsgLen = {1, 2}
  MaxBytes = 4
  MaxMsgs = 3
  RecvSize = 2
  MaxWire = 0
CHECK_DEADLOCK FALSE
INVARIANT SendPendingIsQueue
