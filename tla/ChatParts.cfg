SPECIFICATION PartsSpec
CONSTANTS
  p1 = p1
  p2 = p2
  p3 = p3
  s1 = s1
  g1 = g1
  l1 = l1
  sa = sa
  t1 = t1
  t2 = t2
  rs1 = rs1
  rs2 = rs2
  None = None
  Nothing = Nothing
  Posts = {p1, p2, p3}
  Stops = {s1}
  Asking <- TwoAsk
  Faults <- AllFaults
  ServerNames = {sa}
  Tenants = {t1, t2}
  DevTenant = t1
  RequestSlots = {rs1, rs2}
  Handlers = {rs1, rs2}
  Goals = {g1}
  Loops = {l1}
  Skills = {p1, p2}
  MaxTurns = 2
  Topics <- RowTopics
  Launches = {1, 2, 3}
  Patient = {3}
SYMMETRY Symmetry
INVARIANTS RegistriesFollowRuns QuestionsAreAnsweredOnce LoopKeepsGoing ToolsFollowFiles OneDevServerIsLeft
PROPERTIES OnlyStaleWritesHarm
CHECK_DEADLOCK FALSE
