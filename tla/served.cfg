SPECIFICATION FairSpec
CONSTANTS
  c1 = c1
  c2 = c2
  Clients = {c1, c2}
  NoClient = NoClient
  MaxInput = 2
  SmallLen = 1
  Backlog = 2
  Prompt = TRUE
  FileChunk = 3
  Faults = {}
  Jobs <- ServedJobs
  AnswerLens = {1, 2, 3}
  PkgCounts = {0, 1}
PROPERTIES AllServed ServerComesBack
CHECK_DEADLOCK FALSE
