\* Two parser threads, a ring of two slots, a log of five chunks:
\* the ring wraps twice with a chunk to spare, and pause, stop and growth happen at any moment.
SPECIFICATION FairSpec
CONSTANTS
  Workers = {w1, w2}
  QSize = 2
  MaxChunks = 5
  None = None
  Torn = Torn
INVARIANTS
  TypeOK
  ClaimedExactlyOnce
  UnclaimedIntact
PROPERTIES
  PublishedIsClaimed
  BackPressureEnds
  StopEnds
