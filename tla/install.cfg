SPECIFICATION Spec
CONSTANTS
    None = None
    Installers = {i1, i2}
    MaxCrashes = 1
    WordBits = 4
    maximumInstructions = 60
    maximumRootFSItems = 4
    SymlinkLimit = 3
    Reserved = {9}
    amd64SystemCalls <- MCSystemCalls
    Sources <- MCSources
    Tampered <- MCTampered
    Calls <- MCCalls
SYMMETRY InstallerSymmetry
CHECK_DEADLOCK FALSE
INVARIANTS
    TypeOK
    FinalIsWhole
    ReportIsTrue
    BuiltInstalls
    FilterIsThePolicy
