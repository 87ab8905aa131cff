CONSTANTS
  Proc = {p1}
  Step = {1, 2}
  MaxRuns = 3
  MaxVersion = 2
  MaxReplans = 2
  MaxLlmCalls = 3
  MaxCriticCalls = 2
  MaxAssessments = 1
  MaxGraders = 2
  Agent = {"congestion"}
  Notify = {"notify_wechat"}
  Simulate = {"simulation_traffic_diversion"}
  Text = {1, 2}
  MaxItems = 3
  MaxRev = 2
  Events = {e1, e2}
  Builders = {b1, b2}
  Places = {here, there}
  RegionOf <- MCRegionOf
  Docs <- MCDocs
  e1 = e1
  e2 = e2
  b1 = b1
  b2 = b2
  here = here
  there = there
  NoPlace = np
  Global = global
  WfRuns = {j1}
  MaxTime = 1
  Offset = 1
  Changes = 1
  Window = 1
  MaxCases = 1
  Faults = 1
  Kind = {"agent", "action", "recall", "retrieve", "simulate", "approval"}
  MaxNodes = 3
  Tries = {1, 3}
  Agents = 3
  Memories = 4
SPECIFICATION MCSpec
INVARIANTS TypesOK OncePerRun LineageSpend OwnVersion CompletedStepsStay ProvenanceIsTrue
INVARIANTS WalkIsThePlan PlansAreValid
INVARIANTS CaseIsHowItEnded ContextIsOfTheRequest DecisionsAreInformed
CHECK_DEADLOCK FALSE
CONSTRAINT NotOverrun
