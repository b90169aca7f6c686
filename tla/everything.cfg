SPECIFICATION Spec
SYMMETRY Symmetry
CONSTANTS
  Request = {r1, r2, r3}
  Address <- MCOneAddress
  Malformed = Malformed
  RawEmail <- MCOneRawEmail
  Normalize <- MCOneNormalize
  Password <- MCOnePassword
  Strong <- MCOnePassword
  NoPassword = NoPassword
  Profile <- MCOneProfile
  NoProfile = NoProfile
  None = None
  SessionTTL = 1
  MagicLinkTTL = 1
  OTPTTL = 1
  WelcomeTTL = 1
  Cooldown = 1
  MaxAttempts = 2
  Ops <- AllOps
  MaxInFlight = 2
  MaxTime = 0
  DBFaults = TRUE
  Crashes = TRUE
  Suspends = FALSE
INVARIANTS
  IInv
  HistoryInv
  TypeOK
  SingleUse
  VerifiedOnlyByMailbox
  SignOutAllRevokesKnown
  SignOutRevokes
  UniqueEmail
  SessionHasProvenOwner
PROPERTIES
  TokensAreOneTime
CHECK_DEADLOCK FALSE
