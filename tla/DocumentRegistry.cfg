SPECIFICATION Spec
CONSTANTS
    f1 = f1  f2 = f2  q1 = q1  q2 = q2
    Project = {p1, p2}
    File = {f1}
    Path = {q1}
    PathOf <- OnePath
    Option = {o1, o2}
    Entry = {e1, e2}
    NoEntry = NoEntry
    NoDoc = NoDoc
    Nobody = Nobody
    MaxVersion = 1
    MaxDrift = 0
SYMMETRY Symmetry
INVARIANTS
    RefCountsAreHolders
    TextAsNewAsVersion
PROPERTY
    ReleasesOnlyTheUnheld
