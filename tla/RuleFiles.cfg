SPECIFICATION EitherSpec
CONSTANTS
    original = original  amended = amended  broken = broken
    w1 = w1  w2 = w2
    Rule = {original, amended, broken}
    Valid = {original, amended}
    Authorized <- MCAuthorized
    Threshold <- MCThreshold
    Wallet = {w1, w2}
    Nobody = Nobody
    Place = {p1, p2}
    Spelling = {1, 2}
    NoBatch = NoBatch
    MaxSignatures = 3
    MaxApprovals = 3
    v1 = v1  v2 = v2
    inside = inside  outside = outside  elsewhere = elsewhere
    Runner = {v1, v2}
    Path = {inside, outside, elsewhere}
    Public = {inside}
    None = None
    MaxRuns = 3
INVARIANTS ApprovalTypeOK EntriesApproved OneApprovalPerWallet
           TypeOK PublishedCanBeOpened FailureLeavesNothing SuccessIsKept
SYMMETRY Interchangeable
CHECK_DEADLOCK FALSE
