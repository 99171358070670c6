SPECIFICATION Spec
CONSTANTS
  c1 = c1
  c2 = c2
  Clients = {c1, c2}
  NoClient = NoClient
  MaxInput = 2
  SmallLen = 1
  Backlog = 2
  Prompt = TRUE
  FileChunk = 3
  Faults = {}
  Jobs <- EvenJobs
  AnswerLens = {1}
  PkgCounts = {0, 1}
INVARIANT NoMutualWait
CHECK_DEADLOCK FALSE
