SPECIFICATION Spec
CONSTANTS
  Loggers = {l1}
  Flushers = {f1}
  Closers = {}
  Worker = w
  BufferSize = 1
  MaxLogged = 2
INVARIANTS DrainedMeansWritten
