\* One task with a subscriber: replay, snapshots, cancellation, expiry.
SPECIFICATION Spec
CONSTANTS
  j1 = j1  j2 = j2  a1 = a1  a2 = a2  t1 = t1  t2 = t2  t3 = t3  s1 = s1
  f1 = f1  f2 = f2
  NoJob = NoJob  NoArtifact = NoArtifact  NoFile = NoFile
  Job = {j1}  Artifact = {}  File = {}  Token = {t1}  Subscriber = {s1}
  Subject <- Subjects  Scopes <- AllScopes  Holds <- Owner
  Pass = {m}
  LeaseSeconds = 1  Ttl = 2  BusyWait = 1
  Retained = 2  MaxActive = 2  MaxPending = 1  Batch = 1  Pages = 1
  ReuseIds = FALSE
  MaxClock = 4  MaxEvents = 4  MaxFaults = 1
INVARIANT ReplayIsExact
PROPERTY ImplementsLog
CHECK_DEADLOCK FALSE
