\* Two bans on the shared connection: one takes the other's answer.
SPECIFICATION Spec
CONSTANTS
  Threads = {t1, t2}
  Ips = {ip1, ip2}
  Shared = Shared
  OneShots = {c1}
  Backlog = 2
  Retries = 1
  Loader = FALSE
PROPERTY
  AnswerIsOwn
