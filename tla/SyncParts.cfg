SPECIFICATION PartsSpec
CONSTANTS
  None = None
  t1 = t1
  t2 = t2
  t3 = t3
  c1 = c1
  n1 = n1
  Turns = {t1, t2, t3}
  Repeats = {}
  Cells = {c1}
  Notes = {n1}
  KeepRecent = 6
  MaxFlushes = 1
  May = {"edit", "reorder"}
  Frames = 3
  PostTries = 2
  Faults = 4
  UserMessages = {t1, t2, t3}
  Edits = 1
  pa = pa
  pb = pb
  PanelThreads = {pa, pb}
  MaxTabs = 3
  PanelSteps = 6
  NoSheet = NoSheet
  pl = pl
  pm = pm
  ra = ra
  rb = rb
  PluginNames = {pl, pm}
  Repositories = {pl}
  InstalledBefore = {pl}
  PluginRequests = {ra, rb}
  PluginSteps = 2
  fa = fa
  fb = fb
  FileNames = {fa, fb}
  SaveSlots = {ra, rb}
  MaxSaves = 2
SYMMETRY Symmetry
INVARIANTS OnlyDroppedIsUndone StreamIsWhole QueueIsServed TabsKeepTheirPages PluginsAreWhole ChoicesAreKept
CHECK_DEADLOCK FALSE
