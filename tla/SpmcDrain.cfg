\* A thread that leaves between its loads of head and of done.
SPECIFICATION Spec
CONSTANTS
  Workers = {w1, w2}
  QSize = 2
  MaxChunks = 4
  None = None
  Torn = Torn
INVARIANT DrainedAtJoin
