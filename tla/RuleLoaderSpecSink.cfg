CONSTANTS
  Files <- MCFiles
  ErrText <- MCSpecError
  BinderFaults <- MCNoFaults
  Argvs <- MCArgvs
  MaxNetdCrashes = 1

SPECIFICATION FFairSpec
CHECK_DEADLOCK FALSE

INVARIANT TypeOK
INVARIANT RetryOnlyAfterFailure
INVARIANT ThreadsStartConfigured
PROPERTY StartupCompletes
