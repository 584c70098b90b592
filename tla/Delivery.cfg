\* One session, two PUT requests for it, a pool and deadlines that pass at any time.
SPECIFICATION FairSpec
CONSTANTS
  c1 = c1  u1 = u1  u2 = u2
  Creation = {c1}  Upload = {u1, u2}  Target <- SameSession
  UploadPermits = 2  StoragePermits = 2
  MaxChunks = 1  MaxFaults = 1
INVARIANTS HonestAnswers ReceiverIsSpared ShutdownIsQuiet
PROPERTY UploadEnds
CHECK_DEADLOCK FALSE
