\* Two parser threads, the GC thread and the main thread on one address.
SPECIFICATION FairSpec
CONSTANTS
  Workers = {w1, w2}
  Gc = Gc
  Main = Main
  Free = Free
INVARIANTS
  TrackedUnlessOverlap
PROPERTIES
  OneNoticePerBan
  PassedBanIsCleared
