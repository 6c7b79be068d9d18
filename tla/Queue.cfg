SPECIFICATION Spec
CONSTANTS
  Loggers = {l1, l2}
  Flushers = {f1}
  Closers = {c1}
  Worker = w
  BufferSize = 2
  MaxLogged = 4
SYMMETRY Symmetry
INVARIANTS TypeOK InOrder OneFate DropsReported FlushSound
           PushWakes ShutdownWakes FinishWakes
PROPERTIES DropsOldest BacklogOnlyShrinks ImplementsHandoff
