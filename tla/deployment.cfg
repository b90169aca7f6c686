SPECIFICATION FairSpec
CONSTANTS
  MaxRequests = 3
  MaxStarts = 2
  MaxConns = 1
  None = None
  Unset = Unset
  NotANumber = NotANumber
  Atoi <- MCAtoi
  Hour = 3
  MaxDuration = 127
  Environments <- MCEnvironments
INVARIANTS
  TypeOK
  BrowserInv
  PoolOutlivesRequests
  LastSignInWins
  OnlyOldCookiesSurviveSignOut
  ProductionAsConfigured
PROPERTIES
  SignalEndsProcess
  CleanStopAnswersAll
CHECK_DEADLOCK FALSE
