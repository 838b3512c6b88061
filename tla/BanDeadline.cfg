\* An expiry that races with a ban leaves a block that nothing ever expires.
SPECIFICATION FairSpec
CONSTANTS
  Workers = {w1, w2}
  Gc = Gc
  Main = Main
  Free = Free
INVARIANT BlockHasDeadline
