SPECIFICATION FairSpec
CONSTANTS
  p1 = p1
  o1 = o1
  NoPid = NoPid
  Pids <- OneTask
  Others <- OneOther
  MaxLimit = 1
  MaxAge = 1
INVARIANTS TypeOK WatchedSpared
PROPERTIES RetentionKept StaleRetentionCleaned OverdueEnds
