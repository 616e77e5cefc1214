SPECIFICATION FairSpec
CONSTANTS
  u1 = u1  r1 = r1  r2 = r2  c1 = c1  c2 = c2  w1 = w1  w2 = w2  s1 = s1  s2 = s2
  NoKey = NoKey  NoConn = NoConn  NoReq = NoReq  NoWrap = NoWrap  NoSock = NoSock
  Users <- OneUser
  Roots = {FALSE}
  Reqs <- TwoReqs
  Conns <- TwoConns
  Wraps <- OneWrap
  Socks <- OneSock
  Ops = {"use", "logout"}
PROPERTIES
  RequestsEnd
  DeadShellsClosed
  ClosedSocksForgotten
