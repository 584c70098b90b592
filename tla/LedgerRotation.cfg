SPECIFICATION Spec
CONSTANTS
  Session <- ThreeSessions
  Identity <- TwoIdentities
  Ip = {ip}
  Key = {k1, k2}
  Attempt = {a1}
  NoAttempt = NoAttempt
  MaxFileBytes = 1
  DailyQuota = 1
  MaxActiveSessions = 1
  MaxGlobalReserved = 2
  MinUploadBytes = 1
  CapabilityTtl = 1
  LeaseDuration = 1
  AckGrace = 1
  DayLength = 1
  ClockLag = 0
  MaxStartupRecoveries = 3
  MaxRecoveriesPerPass = 2
  MaxClock = 1
  MaxCrashes = 2
SYMMETRY KeySymmetry
INVARIANTS ChargesExact LimitsHonoured StartupAccepts
