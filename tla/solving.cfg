CONSTANTS
  c1 = c1
  c2 = c2
  r1 = r1
  r2 = r2
  t1 = t1
  t2 = t2
  t3 = t3
  a = a
  lib = lib
  star = star
  zz = zz
  NoUrl = NoUrl
  System = System
  Clients = {c1, c2}
  Release <- MCRelease
  Confs <- MCConfs
  Wanted <- MCWanted
  Names <- MCNames
  Globs <- MCGlobs
  Published <- MCPublished
  Bare = {t3}
  WithBase = {lib}
  Own <- MCOwn
  Installed <- MCInstalled
  MaxKills = 1
SPECIFICATION Spec
INVARIANT SolvTypeOK
INVARIANT RequestArrives
INVARIANT SackIsComplete
INVARIANT AnswerIsExact
INVARIANT CrashHasCause
PROPERTY ImplementsService
PROPERTY AskedIsAnswered
