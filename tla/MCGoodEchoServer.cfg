\* 02_good_echo_server, as built and with shared_from_this working: who owns a
\* session, what is echoed, and that every byte is answered, or nothing is.
\* Three addresses, data_ of two bytes, four bytes per client.
SPECIFICATION FairSpec
CONSTANTS
  Session = {s1, s2, s3}
  BufLen = 2
  MaxBytes = 4
  PublicBases = {TRUE, FALSE}
\* main returns when an exception has left ioc.run().
CHECK_DEADLOCK FALSE
INVARIANTS TypeOK NoDanglingHandler SessionsAreServed
PROPERTIES IsEchoService EveryByteAnswered FirstReadEndsServer
