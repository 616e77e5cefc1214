SPECIFICATION FairSpec
CONSTANTS
  j1 = j1  j2 = j2  j3 = j3  g1 = g1  g2 = g2  g9 = g9  i1 = i1  NoJob = NoJob
  Cards <- TwoCards
  CardIDs <- ThreeIDs
  Jobs <- ThreeJobs
  GpuIDs <- Unknown
  Instances <- OneInstance
  Faults = {"RedisWrite"}
INVARIANTS
  HolderOwns
PROPERTIES
  PoolKept
  FreeCardsGetUsed
