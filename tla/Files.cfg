SPECIFICATION FairSpec
CONSTANTS
  u1 = u1  u2 = u2  r1 = r1  a = a
  Nobody = Nobody  NoName = NoName
  Uploads <- OneUpload
  Reqs <- OneReq
  Names <- OneName
  Target <- OnlyName
  Blocks = 2
INVARIANTS TypeOK PublishedWhole ListTrue
PROPERTIES UploadsSettle
CHECK_DEADLOCK FALSE
