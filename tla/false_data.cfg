SPECIFICATION Spec
CONSTANTS
  c1 = c1
  c2 = c2
  Clients = {c1, c2}
  NoClient = NoClient
  MaxInput = 2
  SmallLen = 1
  Backlog = 2
  Prompt = FALSE
  FileChunk = 3
  Faults = {}
  Jobs <- StreamJobs
  AnswerLens = {1}
  PkgCounts = {0, 1}
PROPERTY FalseDataRejected
CHECK_DEADLOCK FALSE
