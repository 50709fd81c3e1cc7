SPECIFICATION Spec
CONSTANTS
    version_py = version_py
    readme = readme
    changelog = changelog
    releases = releases
    Runner = {r1}
    Order <- AllFiles
    Canonical = version_py
    Changelog = changelog
    Inventory <- Read
    Reached <- AllReached
    InitVersions = {1, 2}
    MaxVersion = 3
    MaxEdits = 1
    MaxRuns = 2
    MaxFaults = 3
    MaxKills = 1
    GitAnswers = {TRUE}
INVARIANT TypeOK
INVARIANT Recoverable
PROPERTY Restored
PROPERTY Advanced
CHECK_DEADLOCK FALSE
