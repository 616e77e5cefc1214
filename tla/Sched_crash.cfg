SPECIFICATION Spec
CONSTANTS
  n1 = n1  n2 = n2  c1 = c1  j1 = j1  j2 = j2  g1 = g1  p1 = p1  p2 = p2
  NoJob = NoJob  NoNode = NoNode  NoRec = NoRec  NoPid = NoPid
  Nodes <- OneNode
  Booted <- OneNode
  Clients <- OneClient
  Jobs <- TwoJobs
  Cards <- OneCard
  CardIDs <- OneCard
  GpuIDs <- SameCard
  Pids <- TwoPids
  FailLimit = 2
  Faults = {"Acquire", "GetByIDs", "PidTimeout", "Release", "Remove"}
  Ops = {"crash", "stop", "cancel", "remove"}
SYMMETRY Alike
INVARIANTS
  RecordedHoldsCards
  RunningIsWatched
  CompletedMeansExited
