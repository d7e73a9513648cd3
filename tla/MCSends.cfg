SPECIFICATION FairSpec
CONSTANTS
  koin = koin
  token = token
  key = key
  Forms = {koin, token, key}
  AccountOf <- MCAccount
  HostOf <- MCHost
  Credentials = {key}
  MaxTries <- MCTries
  MaxFaults = 2
INVARIANTS AnswersAreTrue PaidOnce
PROPERTY Answered
CHECK_DEADLOCK FALSE
