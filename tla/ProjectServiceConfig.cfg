SPECIFICATION Spec
CONSTANTS
    a = a  b = b  t1 = t1  t2 = t2
    Path = {a, b}
    Text = {t1, t2}
    NoText = NoText
    Project = {c1, i1}
    Inferred = i1
    Imports <- ImportsOfT2
    Inside = {a, b}
    NoInfo = NoInfo  NoVersion = NoVersion  NoConfig = NoConfig  NoProgram = NoProgram
    NoDoc = NoDoc  NoPath = NoPath  NoProject = NoProject  Config = Config
    MaxChanges = 4
INVARIANT
    ConfigIsCurrent
CHECK_DEADLOCK FALSE
