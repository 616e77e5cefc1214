SPECIFICATION FairSpec
CONSTANTS
  c1 = c1  c2 = c2  r1 = r1
  Clients <- TwoClients
  Kind <- BothInfo
  Reqs <- OneReq
  LogCap = 1
INVARIANTS CountRight LogsWritten
PROPERTIES PumpsFollow 
CHECK_DEADLOCK FALSE
