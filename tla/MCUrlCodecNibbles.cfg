\* http_connection.cpp:61, for every byte.
SPECIFICATION Spec
CONSTANTS
  Alphabet <- UrlBytes
  MaxLen = 1
CHECK_DEADLOCK FALSE
INVARIANT EncodesBothNibbles
