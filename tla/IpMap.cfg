\* Two threads and the GC thread on a table of two slots and three addresses:
\* collisions, a full table, forced and background evictions, ban and expiry.
SPECIFICATION Spec
SYMMETRY Symmetry
CONSTANTS
  Threads = {t1, t2}
  ip3 = ip3
  Ips = {ip1, ip2, ip3}
  Capacity = 2
  MaxProbe = 2
  Home <- MCHome
  Blank = Blank
  Mixed = Mixed
INVARIANTS
  OneWriter
  UniqueUnlessEvicted
  OwnRecordUnlessEvicted
