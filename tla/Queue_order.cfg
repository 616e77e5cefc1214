SPECIFICATION Spec
CONSTANTS
  j1 = j1  j2 = j2  j3 = j3  c1 = c1  c2 = c2  NoJob = NoJob
  MaxPriority = 10
  Gap = 8
  Jobs <- ThreeJobs
  Spelling <- Spelled3
  Priority <- Mixed3
  Unit = 4
  SeqLimit = 3
  MoveLimit = 2
  Clients <- TwoAdmins
  Amid = {"add", "remove"}
INVARIANTS
  PriorityOrder
CHECK_DEADLOCK FALSE
