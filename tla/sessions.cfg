SPECIFICATION Spec
SYMMETRY Symmetry
CONSTANTS
  Request = {r1, r2, r3}
  Address <- MCOneAddress
  Malformed = Malformed
  RawEmail <- MCOneRawEmail
  Normalize <- MCOneNormalize
  Password <- MCOnePassword
  Strong <- MCOnePassword
  NoPassword = NoPassword
  Profile <- MCOneProfile
  NoProfile = NoProfile
  None = None
  SessionTTL = 1
  MagicLinkTTL = 1
  OTPTTL = 2
  WelcomeTTL = 1
  Cooldown = 1
  MaxAttempts = 2
  Ops <- SessionOps
  MaxInFlight = 2
  MaxTime = 2
  DBFaults = FALSE
  Crashes = FALSE
  Suspends = TRUE
INVARIANTS
  HistoryInv
  DeadSessionRefused
  InactiveUserRefused
  ChangePasswordRevokesOthers
  SignInCountCoversSessions
  ServerErrorOnlyForDeleted
CHECK_DEADLOCK FALSE
