SPECIFICATION PartsSpec
CONSTANTS
  Absent = Absent
  Deleted = Deleted
  Answered = Answered
  a1 = a1
  w1 = w1
  w2 = w2
  n1 = n1
  n2 = n2
  q1 = q1
  q2 = q2
  q3 = q3
  d1 = d1
  Automations = {a1}
  Workflows = {w1, w2}
  Names = {n1, n2}
  Changes = {q1, q2, q3}
  Runs = {}
  MaxCrashes = 1
  May = {"bad cron", "overlap", "change kind"}
  Graphs <- WalkGraphs
  WorkflowIds = {n1, n2}
  CallsAtOnce = 2
  Documents = {d1}
  Pieces = 3
  hg = hg
  hd = hd
  s1 = s1
  s2 = s2
  HookKeys = {hg, hd}
  EventOf <- HookEvents
  OnceOnly = {hg}
  Background = {}
  HookSlots = {s1, s2}
  HookSteps = 2
  ta = ta
  tb = tb
  Customers = {ta, tb}
  Home = ta
  SettingCalls = {n1, n2}
  MaxAsked = 2
  MaxClicks = 3
  ModelNames = {"na", "nb"}
  SlugOf <- Slugs
  CatalogModels <- Catalog
  CatalogDefault = "cb"
  Offers <- SomeOffers
  EnvModel <- NoModel
  EnvTracing <- EnvLangfuse
SYMMETRY Symmetry
INVARIANTS TasksFollowRows LogIsAWalk StoredIsItsOwn ModelsAreWhole KnowledgeConsistent HooksAreObeyed SettingsTakeEffect
CHECK_DEADLOCK FALSE
