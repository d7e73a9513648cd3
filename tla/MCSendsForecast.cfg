SPECIFICATION FairSpec
CONSTANTS
  koin = koin
  token = token
  key = key
  Forms = {koin, token, key}
  AccountOf <- MCAccount
  HostOf <- MCHost
  Credentials = {key}
  MaxTries <- MCTries
  MaxFaults = 1
INVARIANT AnswersStand
CHECK_DEADLOCK FALSE
