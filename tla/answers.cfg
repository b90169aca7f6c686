SPECIFICATION FairSpec
CONSTANTS
  Request = {r1, r2}
  Address <- MCOneAddress
  Malformed = Malformed
  RawEmail <- MCOneRawEmail
  Normalize <- MCOneNormalize
  Password <- MCOnePassword
  Strong <- MCOnePassword
  NoPassword = NoPassword
  Profile <- MCOneProfile
  NoProfile = NoProfile
  None = None
  SessionTTL = 1
  MagicLinkTTL = 0
  OTPTTL = 1
  WelcomeTTL = 0
  Cooldown = 1
  MaxAttempts = 2
  Ops <- AllOps
  MaxInFlight = 2
  MaxTime = 1
  DBFaults = TRUE
  Crashes = TRUE
  Suspends = FALSE
PROPERTIES
  WelcomeMailSent
CHECK_DEADLOCK FALSE
