SPECIFICATION Spec
CONSTANTS
    f1 = f1
    f2 = f2
    File = {f1, f2}
    Request = {r1, r2}
    Nobody = Nobody
    NoFile = NoFile
    MaxEdits <- TwiceAndOnce
SYMMETRY Symmetry
INVARIANTS
    SeesEarlierChanges
    NoChangeIsForgotten
