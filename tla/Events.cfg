\* A task, its artifact, the capabilities of both, expiry and the removal of the file.
SPECIFICATION FairSpec
CONSTANTS
  j1 = j1  j2 = j2  a1 = a1  a2 = a2  t1 = t1  t2 = t2  t3 = t3  s1 = s1
  f1 = f1  f2 = f2
  NoJob = NoJob  NoArtifact = NoArtifact  NoFile = NoFile
  Job = {j1}  Artifact = {a1}  File = {f1}  Token = {t1, t2, t3}  Subscriber = {}
  Subject <- Subjects  Scopes <- AllScopes  Holds <- Owner
  Pass = {m}
  LeaseSeconds = 1  Ttl = 2  BusyWait = 0
  Retained = 1  MaxActive = 2  MaxPending = 1  Batch = 1  Pages = 2
  ReuseIds = FALSE
  MaxClock = 3  MaxEvents = 1  MaxFaults = 1
INVARIANTS NothingForgotten LinkedTogether
PROPERTIES NoRevival ExpiryEnds
CHECK_DEADLOCK FALSE
