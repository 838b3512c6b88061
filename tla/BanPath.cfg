\* Two threads and one address: bans, unbans and tarpits that share the first
\* connection, one more connection, one repetition, any timeout at any moment.
SPECIFICATION FairSpec
CONSTANTS
  Threads = {t1, t2}
  Ips = {ip1}
  Shared = Shared
  OneShots = {c1}
  Backlog = 1
  Retries = 2
  Loader = TRUE
INVARIANTS
  ResultIsEffect
PROPERTY
  CallReturns
