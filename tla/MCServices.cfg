CONSTANTS
  Importers = {srv, cli}
  Server = srv
  Regions = {g1, g2}
  NoRegion = none
  Roads = {road1, road2}
  Crossings = {cross}
  Text <- MCText
  Packs <- MCPacks
  road1 = road1
  road2 = road2
  cross = cross
  Crashes = 2
  Docs = {d1, d2}
  Files = {d1}
  Contents = {c1, c2}
  NoContent = n
  Models = {m1, m2}
  NoModel = nm
  Restarts = 1
  Faults = 1
  Streams = {s1, s2}
  Incidents = {e1}
  NoEvent = ne
  Domain = {"SignalAgent", "PublicSafetyAgent"}
  Calls = 2
  Layers = 6
  Runs = {r1, r2, r3}
  NoThread = nt
  Values = {v1, v2}
  NoRoad = nr
  Injected = {i1, i2}
  Flows = {w1, w2}
  MaxSnaps = 4
  Absent = absent
  Started = {1, 2}
  MaxWire = 1
  Servers = {s}
  Ids = {d1}
  Graphs <- MCGraphSet
  Drafts <- MCDrafts
  Inputs <- MCInputs
  Waits <- MCWaits
  MaxVersion = 3
  MaxRuns = 3
SPECIFICATION MCSpec
INVARIANTS TypesOK WokenInTime ActiveIsSearchable RunEndsInOrder MemoryIsConsistent
INVARIANTS ViewAtRest DefinitionsHold NameIsUnambiguous BindingInRegion HistoryIsWhole
PROPERTIES DueRunWakes OnlyFailuresAreLeftOut
CHECK_DEADLOCK FALSE
