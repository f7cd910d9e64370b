SPECIFICATION PartsSpec
CHECK_DEADLOCK FALSE
CONSTANTS
  None = None
  c1 = c1
  c2 = c2
  t1 = t1
  s1 = s1
  Tasks = {t1}
  Calls = {c1, c2}
  Stops = {s1}
  Concurrency = 1
  Faults <- NoFaults
  Absent = Absent
  Deleted = Deleted
  Answered = Answered
  a1 = a1
  w1 = w1
  n1 = n1
  r1 = r1
  r2 = r2
  Automations = {a1}
  Workflows = {w1}
  Names = {n1}
  Changes = {}
  Runs = {r1, r2}
  MaxCrashes = 2
  May = {"db fails"}
INVARIANTS NoStuckRun
PROPERTIES OutcomesAreFinal RunsEnd AnswersArrive RowsSettle
