\* A ban that races with the trap replaces the permanent deadline.
SPECIFICATION FairSpec
CONSTANTS
  Workers = {w1, w2}
  Gc = Gc
  Main = Main
  Free = Free
PROPERTY TrapBanIsPermanent
