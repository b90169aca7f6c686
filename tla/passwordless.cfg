SPECIFICATION Spec
SYMMETRY Symmetry
CONSTANTS
  Request = {r1, r2, r3, r4}
  Address <- MCAddress
  Malformed = Malformed
  RawEmail <- MCRawEmail
  Normalize <- MCNormalize
  Password <- MCTwoPasswords
  Strong <- MCTwoPasswords
  NoPassword = NoPassword
  Profile <- MCOneProfile
  NoProfile = NoProfile
  None = None
  SessionTTL = 1
  MagicLinkTTL = 0
  OTPTTL = 0
  WelcomeTTL = 1
  Cooldown = 1
  MaxAttempts = 1
  Ops <- TokenOps
  MaxInFlight = 2
  MaxTime = 1
  DBFaults = FALSE
  Crashes = FALSE
  Suspends = FALSE
INVARIANTS
  DeadTokenRefused
  OvershootBounded
  AttemptsCounted
  SessionHasProvenOwner
  CountInv
CHECK_DEADLOCK FALSE
