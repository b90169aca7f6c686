SPECIFICATION PatientSpec
CONSTANTS
  MaxRequests = 3
  MaxStarts = 2
  MaxConns = 1
  None = None
  Unset = Unset
  NotANumber = NotANumber
  Atoi <- MCAtoi
  Hour = 3
  MaxDuration = 127
  Environments <- MCEnvironments
INVARIANT
  SignOutSignsOut
CHECK_DEADLOCK FALSE
