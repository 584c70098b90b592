\* An acknowledgment does not wait for the client to have the answer.
SPECIFICATION Spec
CONSTANTS
  c1 = c1  u1 = u1  u2 = u2
  Creation = {c1}  Upload = {u1, u2}  Target <- SameSession
  UploadPermits = 2  StoragePermits = 2
  MaxChunks = 1  MaxFaults = 1
INVARIANT AcknowledgedAfterTransport
CHECK_DEADLOCK FALSE
