CONSTANTS
    f1 = f1
    f2 = f2
    s1 = s1
    Files <- MCFiles
    FileOrder <- MCFileOrder
    Seed <- MCSeed
    MaxVer = 2

SPECIFICATION Spec
INVARIANT TypeOK SeedThenFiles
PROPERTY ReloadInstallsAll
