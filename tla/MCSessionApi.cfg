\* The send and receive paths: three messages of up to two bytes, empty ones
\* among them, cut at will, while a read fills a node of two bytes.
SPECIFICATION FairSpec
CONSTANTS
  MsgLen = {0, 1, 2}
  MaxBytes = 4
  MaxMsgs = 3
  RecvSize = 2
  MaxWire = 6
\* The application may have written all it may, and then nothing is left to do.
CHECK_DEADLOCK FALSE
INVARIANTS TypeOK WritePathSound
  NewestWriteLives WaitingLosesNothing
PROPERTIES AllSent IsByteStream ReceivesOneNode
