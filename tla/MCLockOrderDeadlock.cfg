SPECIFICATION Safety
CONSTANTS
  Threads = {alsa, task, web}
  alsa = alsa
  task = task
  web = web
  Work <- MCWork
  Idle = Idle
INVARIANT NoDeadlock
