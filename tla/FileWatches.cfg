SPECIFICATION Spec
CONSTANTS
    Project = {p1, p2}
    Lookups <- MCLookups
    Roots <- MCRoots
    MaxEdits = 1
    MaxRefusals = 1
    MaxFiles = 1
    MaxOpen = 1
SYMMETRY Symmetry
CONSTRAINT Unmixed
INVARIANTS
    RegistrationsAreKnown
    HandlesAreUnique
    CreatedFilesAreNoticed
CHECK_DEADLOCK FALSE
