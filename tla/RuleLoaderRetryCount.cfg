CONSTANTS
  Files <- MCRetryFiles
  ErrText <- MCSpecError
  BinderFaults <- MCNoFaults

SPECIFICATION Spec
CHECK_DEADLOCK FALSE

INVARIANT RetriesAsSpecified
