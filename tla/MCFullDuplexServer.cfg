\* The send queue of 03_full_duplex_server: two addresses, data_ of two bytes,
\* four bytes per client (up to four messages queued), and a max_len_ that is
\* zero, right or too long.
SPECIFICATION FairSpec
CONSTANTS
  Session = {s1, s2}
  BufLen = 2
  MaxBytes = 4
  UninitLen = {0, 1, 3}
\* main returns when an exception has left ioc.run(); and once every address
\* has a stale handler, the bound on addresses lets nobody connect.
CHECK_DEADLOCK FALSE
INVARIANTS TypeOK QueueDiscipline QueueHoldsNewest AlwaysReading
PROPERTY QueueDrains
