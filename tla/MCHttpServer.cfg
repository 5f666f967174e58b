\* Two connections, a response in two pieces, every kind of request.
SPECIFICATION FairSpec
CONSTANTS
  Conn = {c1, c2}
  Requests <- SomeRequests
  RespLen = 2
\* A signal, or a failed assert, stops the process.
CHECK_DEADLOCK FALSE
INVARIANTS TypeOK DeadlineGuardsWrite AnswerIsWhole
PROPERTIES IsHttpService ConnectionEnds
