\* The blocking servers and their clients: two clients with lines of up to two
\* bytes, one or two threads, and small TCP buffers.
SPECIFICATION FairSpec
CONSTANTS
  Client = {c1, c2}
  Typed = {0, 4}
  MaxLength = 3
  MaxThreads = 2
  Caps <- SmallAndLarge
\* When its clients are done and the server has ended, nothing is left to do.
CHECK_DEADLOCK FALSE
INVARIANTS TypeOK NeverBothBlocked FailsOnlyWithServer
PROPERTIES IsEchoService Answered ThreadsEnd
