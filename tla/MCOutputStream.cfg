SPECIFICATION FairSpec
CONSTANTS
  PageSize = 2
  MaxBytes = 4
  Spans = {0, 1, 3}
  MaxOut = 2
  MaxMemory = 2
  UsageRange = 8
  MaxLent = 3
  FileSize = 3
INVARIANTS TypeOK SizeMatchesPages BytesInOrder 
PROPERTIES Drained
