SPECIFICATION Spec
CONSTANTS
    File <- MCFile
    Emittable = {1, 3}
    JavaScript = {3}
    Unwritable = {1}
    Checkers = 2
    Parsed <- MCParsed
    NoConfig = NoConfig
    Edited = {1}
    MaxEdits = 2
INVARIANTS
    UsesAreExclusive
    AsksOnlyTheChecked
    NothingIsLeftUncompiled
PROPERTIES
    EditsAreCompiled
