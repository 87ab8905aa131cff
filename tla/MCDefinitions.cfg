\* two servers, three versions, two runs
CONSTANTS
  Servers = {s1, s2}
  Ids = {d1}
  Graphs <- MCGraphSet
  Drafts <- MCDrafts
  Inputs <- MCInputs
  MaxVersion = 3
  MaxRuns = 2
SPECIFICATION DefSpec
INVARIANT RunKeepsItsPlan
CHECK_DEADLOCK FALSE
