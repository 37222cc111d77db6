SPECIFICATION FairSpec
CONSTANTS
  ChunkSize = 2
  MaxBody = 2
  MaxItems = 3
INVARIANTS
  UploadsFindTheSession
PROPERTIES
  KeepsOrder
  AllEnds
CHECK_DEADLOCK FALSE
