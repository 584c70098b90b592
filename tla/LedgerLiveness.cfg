SPECIFICATION FairSpec
CONSTANTS
  Session <- TwoSessions
  Identity <- OneIdentity
  Ip = {ip}
  Key = {k1}
  Attempt = {a1}
  NoAttempt = NoAttempt
  MaxFileBytes = 1
  DailyQuota = 2
  MaxActiveSessions = 2
  MaxGlobalReserved = 2
  MinUploadBytes = 1
  CapabilityTtl = 2
  LeaseDuration = 1
  AckGrace = 1
  DayLength = 2
  ClockLag = 0
  MaxStartupRecoveries = 2
  MaxRecoveriesPerPass = 2
  MaxClock = 2
  MaxCrashes = 1
PROPERTIES
  UnmarkedIsResolved
  AbandonedIsReleased
