SPECIFICATION Spec
CONSTANTS
    Documents <- MCDocuments
    Scenarios <- MCScenarios
    LedgerEvents <- MCLedgerEvents
    Instructions <- MCInstructions
    Endings <- MCEndings
    MaxBody = 3
    Limits <- MCLimits
    Capabilities <- MCCapabilities
    SealedInputs <- MCSealedInputs
    Standalone <- MCStandalone
    original = original  amended = amended
    MaxRule = 5
    Entry <- MCEntry
    None = None
    Reports <- MCReports
    MaxCollected = 3
    Artifacts <- MCArtifacts
    Conventional = {1, 2}
    Desks <- MCDesks
    Unset = Unset
    Options <- MCOptions
    Revisions <- MCEdits
    Balances = {9, 40}
    Costs = {3}
    MaxSends = 2
    Estimates = {1}
    BaseFees <- MCBaseFees
    Tips = {1}
CHECK_DEADLOCK FALSE
INVARIANTS MerkleTypeOK AcceptedTraceIsCausal AssuranceEarned
           StagedAllOrNothing AuditDecides RootIsTree RootCommits
           ArrivalDoesNotMatter TrailTellsTheStory
           ExplanationsHoldUp ExplainedAsDecided
           SortDecides PassedFilesAreSound
           ReadyIsPayable
PROPERTY OutputsAreFinal
