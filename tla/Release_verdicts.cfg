SPECIFICATION Spec
CONSTANTS
    Requests <- MCRequests
    Sicknesses <- MCSicknesses
    Arguments <- MCArguments
    Hosts <- MCHosts
    Canonical <- MCCanonical
INVARIANT NegativeChecksReject
CHECK_DEADLOCK FALSE
