\* 01_bad_echo_server: memory safety, what is echoed, and that every byte is
\* answered.  Three addresses, data_ of two bytes, four bytes per client (two
\* full buffers, or short messages after long ones).
SPECIFICATION FairSpec
CONSTANTS
  Session = {s1, s2, s3}
  BufLen = 2
  MaxBytes = 4
INVARIANTS TypeOK HalfDuplexInv NoStaleTail NoDanglingHandler OneHandlerPerSession
PROPERTIES IsEchoService EveryByteAnswered
