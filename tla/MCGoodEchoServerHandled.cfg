\* The comments at session.cpp:18-19, against the server as built.
CONSTANTS
  Session = {s1, s2}
  BufLen = 2
  MaxBytes = 2
  PublicBases = {FALSE}

SPECIFICATION FairSpec

\* main returns when an exception has left ioc.run().
CHECK_DEADLOCK FALSE

PROPERTY ArrivedDataIsHandled
