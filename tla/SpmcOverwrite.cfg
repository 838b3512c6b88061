\* A chunk that is overwritten between the claim of its slot and the copy.
SPECIFICATION Spec
CONSTANTS
  Workers = {w1, w2}
  QSize = 2
  MaxChunks = 4
  None = None
  Torn = Torn
INVARIANT WorksOnClaimedChunk
