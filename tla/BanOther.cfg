\* A record is given to another address while a thread still uses it.
SPECIFICATION Spec
CONSTANTS
  Threads = {t1, t2}
  ip3 = ip3
  Ips = {ip1, ip2, ip3}
  Capacity = 2
  MaxProbe = 2
  Home <- MCHome
  Blank = Blank
  Mixed = Mixed
INVARIANT BansOwnAddress
