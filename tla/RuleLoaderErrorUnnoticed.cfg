CONSTANTS
  Files <- MCRetryFiles
  ErrText <- MCErrorReply
  BinderFaults <- MCFaults

SPECIFICATION Spec
CHECK_DEADLOCK FALSE

INVARIANT FailedRulesLogged
