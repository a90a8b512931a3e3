SPECIFICATION Spec
CONSTANTS
  Threads = {alsa, task, web}
  alsa = alsa
  task = task
  web = web
  Work <- MCOrdered
  Idle = Idle
INVARIANTS
  TypeOK
  NoDeadlock
PROPERTY
  OperationsEnd
