CONSTANTS
  ca = ca cb = cb
  Conversations = {ca, cb}
  Followed <- OneEach
  MaxDoings = 2
  MaxFetches = 4
  c1 = c1 c2 = c2 c3 = c3 t1 = t1 t2 = t2 s1 = s1 s2 = s2
  Tasks = {t1}
  Calls = {c1, c2}
  Stops = {s1}
  Concurrency = 1
  Faults <- FaultKinds
  None = None
SPECIFICATION PartsSpec
SYMMETRY Symmetry
CHECK_DEADLOCK FALSE
INVARIANTS TypeOK AnswerProvenance NoOrphanRow NoUnsupervisedWorker ModesAreTrue
PROPERTY ImplementsDelegation
