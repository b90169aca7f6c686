SPECIFICATION Spec
SYMMETRY Symmetry
CONSTANTS
  Request = {r1, r2, r3}
  Address <- MCOneAddress
  Malformed = Malformed
  RawEmail <- MCOneRawEmail
  Normalize <- MCOneNormalize
  Password <- MCOnePassword
  Strong <- MCOnePassword
  NoPassword = NoPassword
  Profile <- MCOneProfile
  NoProfile = NoProfile
  None = None
  SessionTTL = 1
  MagicLinkTTL = 1
  OTPTTL = 1
  WelcomeTTL = 1
  Cooldown = 1
  MaxAttempts = 1
  Ops <- EmailOps
  MaxInFlight = 1
  MaxTime = 0
  DBFaults = FALSE
  Crashes = FALSE
  Suspends = FALSE
INVARIANTS
  ExhaustedTokenBurnt
CHECK_DEADLOCK FALSE
