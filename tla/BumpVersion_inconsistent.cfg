SPECIFICATION Spec
CONSTANTS
    version_py = version_py
    readme = readme
    changelog = changelog
    releases = releases
    Runner = {r1}
    Order <- AllFiles
    Canonical = version_py
    Changelog = changelog
    Inventory <- Read
    Reached <- AllReached
    InitVersions = {1, 2}
    MaxVersion = 3
    MaxEdits = 0
    MaxRuns = 1
    MaxFaults = 0
    MaxKills = 0
    GitAnswers = {TRUE, FALSE}
INVARIANT InconsistentUntouched
CHECK_DEADLOCK FALSE
