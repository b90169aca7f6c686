SPECIFICATION Spec
SYMMETRY Symmetry
CONSTANTS
  Request = {r1, r2, r3}
  Address <- MCOneAddress
  Malformed = Malformed
  RawEmail <- MCAnnOrJunk
  Normalize <- MCAnnOrJunkNormalize
  Password <- MCPassword
  Strong <- MCStrong
  NoPassword = NoPassword
  Profile <- MCOneProfile
  NoProfile = NoProfile
  None = None
  SessionTTL = 1
  MagicLinkTTL = 1
  OTPTTL = 3
  WelcomeTTL = 1
  Cooldown = 1
  MaxAttempts = 1
  Ops <- SerialOps
  MaxInFlight = 1
  MaxTime = 2
  DBFaults = FALSE
  Crashes = FALSE
  Suspends = FALSE
INVARIANTS
  CooldownBetweenLiveTokens
  AttemptLimit
  CountInv
PROPERTIES
  CurrentPasswordRequired
CHECK_DEADLOCK FALSE
