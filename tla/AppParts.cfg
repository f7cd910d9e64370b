SPECIFICATION PartsSpec
CONSTANTS
  ha = ha
  hb = hb
  hc = hc
  hu = hu
  hv = hv
  ChatThreads = {ha, hb, hc}
  FreshThreads = {hc}
  HistoryTurns = {hu, hv}
  FileTurns = {hv}
  HistoryFails = 1
  HistoryActs = 4
  NoThread = NoThread
  sa = sa
  sb = sb
  va = va
  vb = vb
  k1 = k1
  Tabs = {sa, sb}
  RowKeys = {k1}
  CellValues = {va, vb}
  Gone = Gone
  Nowhere = Nowhere
  AtOnce = 2
  Events = 3
  HistoryLimit = 1
  ta = ta
  Tasks = {ta}
  FetchesAtOnce = 2
  Steps = 4
  fa = fa
  Triggers = {va, vb}
  Flows = {fa}
  HookSources = {"github", "custom"}
  GithubHook = "github"
  EventKeys = {"opened"}
  Exprs = {"type", "bad"}
  Payloads <- MCPayloads
  SamplePayload <- MCSamplePayload
  Filters <- MCFilters
  Flawless <- MCFlawless
  FlowThread <- MCFlowThread
  NoFlowThread = NoFlowThread
  Dropped = Dropped
  Sends = 2
  ScreenActs = 2
  LostAnswers = 1
SYMMETRY Symmetry
INVARIANTS HistoryIsShown SettledGridShowsStore PanelSettles EventsAreAnswered
CHECK_DEADLOCK FALSE
