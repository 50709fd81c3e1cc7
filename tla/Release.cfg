SPECIFICATION Spec
CONSTANTS
    Requests <- MCRequests
    Sicknesses <- MCSicknesses
    Arguments <- MCArguments
    Hosts <- MCHosts
    Canonical <- MCCanonical
CHECK_DEADLOCK FALSE
INVARIANTS ReleaseTypeOK ListedChecksRun FlakyNeverPasses StrictReplayExecuted
           ProfilePassMeansAllRan
PROPERTY WrapperAnswers
