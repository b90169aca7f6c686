SPECIFICATION Spec
CONSTANTS
  MinBytes = 4
  MaxBytes = 5
  IPv4 = {"v4"}
  IPv6 = {"v6"}
  Radix = 3
  DefaultDigits = 3
  MaxDigits = 4
  Alphabet <- MCAlphabet
  MaxTyped <- MCMaxTyped
  Choice <- MCChoice
  Salt <- MCSalt
  Release <- MCRelease
INVARIANTS
  OnlyOwnPasswordMatches
  PolicyAsDocumented
  ProxyAddressStored
  DirectAddressStored
  EveryCodeOnce
CHECK_DEADLOCK FALSE
