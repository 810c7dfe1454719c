CONSTANTS
  Files <- MCWrittenFiles
  ErrText <- MCErrorReply
  BinderFaults <- MCNoFaults

SPECIFICATION FairSpec
CHECK_DEADLOCK FALSE

PROPERTY FileAppliedAsWritten
